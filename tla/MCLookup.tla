------------------------------ MODULE MCLookup ------------------------------
(***************************************************************************)
(* Every table and every column of values in three rows, with values that  *)
(* repeat, and two choices of each challenge, modulo 7.                    *)
(***************************************************************************)
EXTENDS Lookup
=============================================================================
