--------------------------- MODULE MC_OciRuntime ---------------------------
(***************************************************************************)
(* Two openings of a runtime with CA material, two sessions, two workers.  *)
(***************************************************************************)
EXTENDS OciRuntime, TLC

Symmetry == Permutations(Workers) \cup Permutations(Sessions)

=============================================================================
