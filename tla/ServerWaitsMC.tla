---------------------------- MODULE ServerWaitsMC --------------------------
(* A small instance of ServerWaits. *)
EXTENDS ServerWaits, ServerLoopMC, TLC

\* The clients are interchangeable.
Symmetry == Permutations({ann, bob})

=============================================================================
