-------------------------- MODULE MCServerLifecycle --------------------------
(* TLC instances of ServerLifecycle.                                       *)
EXTENDS ServerLifecycle, TLC

(* Listeners and connections are interchangeable; used by the runs that    *)
(* check no liveness.                                                      *)
Symmetry == Permutations(Listeners) \cup Permutations(Conns)
=============================================================================
