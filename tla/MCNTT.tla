------------------------------- MODULE MCNTT -------------------------------
(***************************************************************************)
(* Domains of up to eight rows, objects made for up to sixteen, any number *)
(* of phases, one to three columns in one or two blocks, modulo 17; and    *)
(* the call the prover makes, in place with three phases, of sixteen rows. *)
(* The transform is linear: each column of an input is a unit vector.      *)
(***************************************************************************)
EXTENDS NTT

MCCalls ==
  {c \in [maxPow : 0..4, domainPow : 0..3, nphase : 0..4, nblock : {0, 2}, ncols : {1, 3},
          inverse : BOOLEAN, inPlace : BOOLEAN, extension : {1, 2}] :
     /\ c.domainPow <= c.maxPow
     /\ c.extension <= 2 ^ c.domainPow
     /\ c.extension > 1 => ~c.inverse
     /\ c.nblock > 0 <=> c.ncols > 1}
  \cup [maxPow : {4}, domainPow : {4}, nphase : {3}, nblock : {1}, ncols : {1},
        inverse : BOOLEAN, inPlace : {TRUE}, extension : {1}]
=============================================================================
