------------------------------ MODULE MCCircom ------------------------------
(***************************************************************************)
(* Three parallel subcomponents of two inputs, one thread counted at a     *)
(* time: the second and the third are started while the first may run, and *)
(* the component waits for a notification of any of the three.             *)
(***************************************************************************)
EXTENDS CircomParallel
=============================================================================
