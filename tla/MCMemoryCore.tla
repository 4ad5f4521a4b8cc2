---------------------------- MODULE MCMemoryCore ----------------------------
(* Small instances of MemoryCore: two sightings as the demo and the tests have them. *)
EXTENDS MemoryCore, TLC

Sighting(kind, extraction, ttl) == [kind |-> kind, extraction |-> extraction, ttl |-> ttl]

\* The user's own word, good for a half-life; a guess that decays below the floor in
\* one, unless something corroborates it.
WordAndGuess == {Sighting("user_stated", 95, 1), Sighting("inferred", 70, Never)}

Symmetry == Permutations(Slots) \cup Permutations(Values) \cup Permutations(Learners)
=============================================================================
