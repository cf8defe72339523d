----------------------------- MODULE MCPractice -----------------------------
(* Instances of PracticeHistory for TLC. *)
EXTENDS PracticeHistory, TLC

Symmetry == Permutations(Users) \cup Permutations(SessionIds)
         \cup Permutations(Cards) \cup Permutations(Ratings)
         \cup Permutations(Workers)
=============================================================================
