--------------------------- MODULE MCOrganizations ---------------------------
(* Small instances of Organizations. *)
EXTENDS Organizations, TLC

Symmetry == Permutations(Users)

=============================================================================
