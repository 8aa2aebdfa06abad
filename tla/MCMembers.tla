------------------------------ MODULE MCMembers ------------------------------
(* Small instances of Members: users are interchangeable. *)
EXTENDS Members, TLC

Symmetry == Permutations(Users)

=============================================================================
