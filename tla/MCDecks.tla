------------------------------ MODULE MCDecks ------------------------------
(* Instances of DecksHistory for TLC. *)
EXTENDS DecksHistory, TLC

Symmetry == Permutations(Users) \cup Permutations(Workers)
         \cup Permutations(Titles) \cup Permutations(Contents)
=============================================================================
