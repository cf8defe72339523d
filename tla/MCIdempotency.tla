--------------------------- MODULE MCIdempotency ---------------------------
(* Instances of IdempotencyHistory for TLC. *)
EXTENDS IdempotencyHistory, TLC

Symmetry == Permutations(Keys) \cup Permutations(Requests) \cup Permutations(Workers)
=============================================================================
