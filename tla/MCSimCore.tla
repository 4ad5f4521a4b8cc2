------------------------------ MODULE MCSimCore ------------------------------
(* Instances of SimCore for TLC: workers and simulations are interchangeable. *)
EXTENDS SimCore, TLC

Symmetry == Permutations(Workers) \cup Permutations(Sims)

==============================================================================
