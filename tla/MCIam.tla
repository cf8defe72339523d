------------------------------- MODULE MCIam -------------------------------
(* Instances of IamHistory for TLC. *)
EXTENDS IamHistory, TLC

Symmetry == Permutations(UserIds) \cup Permutations(Workers)
         \cup Permutations(Emails) \cup Permutations(Names)
         \cup Permutations(Passwords)
=============================================================================
