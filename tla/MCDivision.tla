----------------------------- MODULE MCDivision -----------------------------
(***************************************************************************)
(* Every polynomial of six coefficients modulo 3, divided by X^n - beta    *)
(* for n from 1 to 4, by one, two or four threads; and the smallest call   *)
(* whose last round goes too far.                                          *)
(***************************************************************************)
EXTENDS PolynomialDivision
=============================================================================
