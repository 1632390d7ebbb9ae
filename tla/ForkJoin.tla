------------------------------ MODULE ForkJoin ------------------------------
(***************************************************************************)
(* What a parallel circom component promises, whatever its threads,        *)
(* mutexes and condition variables: each subcomponent is computed once, at *)
(* most Limit of them at a time, and the component ends when all are.      *)
(* CircomParallel implements this specification.                           *)
(***************************************************************************)
EXTENDS FiniteSets, Naturals

CONSTANTS Child, Limit

VARIABLES parent,   \* "running", "done" or "aborted"
          working,  \* the subcomponents being computed
          computed  \* those that have been

vars == <<parent, working, computed>>

Init == parent = "running" /\ working = {} /\ computed = {}

Start(c) == /\ parent = "running"
            /\ c \notin working \cup computed
            /\ Cardinality(working) < Limit
            /\ working' = working \cup {c}
            /\ UNCHANGED <<parent, computed>>

Finish(c) == /\ parent = "running"
             /\ c \in working
             /\ working' = working \ {c}
             /\ computed' = computed \cup {c}
             /\ UNCHANGED parent

Join == /\ parent = "running"
        /\ computed = Child
        /\ parent' = "done"
        /\ UNCHANGED <<working, computed>>

\* A constraint of the circuit fails.
Abort == /\ parent = "running"
         /\ parent' = "aborted"
         /\ UNCHANGED <<working, computed>>

Next == (\E c \in Child : Start(c) \/ Finish(c)) \/ Join \/ Abort

Spec == Init /\ [][Next]_vars
Liveness == <>(parent # "running")
=============================================================================
