----------------------------- MODULE FiatShamir -----------------------------
(***************************************************************************)
(* What a non-interactive proof promises, whatever computes it: the prover *)
(* says things (publics, commitments, evaluations) and draws challenges,   *)
(* and a challenge is a function of everything said before it was drawn.   *)
(* PilFflonkProver implements this specification.                          *)
(***************************************************************************)
EXTENDS Naturals

CONSTANTS Part,        \* everything a prover may ever say
          Challenge    \* the names of the challenges

VARIABLES said,    \* what this session's prover has said so far
          drawn    \* what each challenge of this session binds: {} if it was
                   \* not drawn yet, else {S} where S had been said

vars == <<said, drawn>>

Init == /\ said = {}
        /\ drawn = [k \in Challenge |-> {}]

\* A new proof starts from nothing: no challenge of an older one survives.
Start == /\ said' = {}
         /\ drawn' = [k \in Challenge |-> {}]

\* The prover adds to what it said; no challenge already drawn changes.
Say == /\ said' \in SUBSET Part
       /\ said \subseteq said'
       /\ UNCHANGED drawn

\* Challenges are drawn together, each bound to everything said so far.
Draw == \E K \in SUBSET {k \in Challenge : drawn[k] = {}} :
          /\ drawn' = [k \in Challenge |-> IF k \in K THEN {said} ELSE drawn[k]]
          /\ UNCHANGED said

Next == Start \/ Say \/ Draw

Spec == Init /\ [][Next]_vars
=============================================================================
