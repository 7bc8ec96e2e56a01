--------------------------- MODULE MCSafetyWriter ---------------------------
(* Instances of SafetyWriter for TLC. *)
EXTENDS SafetyWriter, TLC

\* Processes are interchangeable, and so are slots and ballots.
Symmetry == Permutations(Writers) \cup Permutations(Slots) \cup Permutations(Ballots)
=============================================================================
