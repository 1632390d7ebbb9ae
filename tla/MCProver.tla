------------------------------ MODULE MCProver ------------------------------
(***************************************************************************)
(* Small instances of PilFflonkProver: one or two polynomials of each      *)
(* stage, a public of each type as in the shipped fflonkinfo, and          *)
(* every circuit the control flow of the prover distinguishes.             *)
(***************************************************************************)
EXTENDS PilFflonkProver, TLC

MCF == {"f0", "f1", "f2", "f3", "f4", "f5", "f6"}
MCStageOf == [f \in MCF |-> CASE f = "f0" -> 0
                              [] f \in {"f1", "f2"} -> 1
                              [] f = "f3" -> 2
                              [] f \in {"f4", "f5"} -> 3
                              [] f = "f6" -> 4]
MCPublics == 0 :> [type |-> "imP", polId |-> 0] @@ 1 :> [type |-> "cmP", polId |-> 0]
MCConfs == ConfType
=============================================================================
