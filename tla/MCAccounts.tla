----------------------------- MODULE MCAccounts -----------------------------
(* Small instances of Accounts: calls and codes of one kind are interchangeable. *)
EXTENDS Accounts, TLC

Symmetry == Permutations(Calls) \cup Permutations(SignUpCodes) \cup Permutations(ResetCodes)

=============================================================================
