---------------------------- MODULE MCInvitations ----------------------------
(* Small instances of Invitations: calls and invitations are interchangeable. *)
EXTENDS Invitations, TLC

Symmetry == Permutations(Calls) \cup Permutations(Invites)

=============================================================================
