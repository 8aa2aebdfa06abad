---------------------------- MODULE OneTimeCode ----------------------------
(***************************************************************************)
(* What password reset promises ("the verification is one time use, even in *)
(* the failure cases"), without handlers, informers or failures: an issued  *)
(* code is claimed at most once, and only a claim sets a password, once.    *)
(***************************************************************************)
EXTENDS Naturals

CONSTANT Code

VARIABLES
    state,      \* unissued, valid, claimed, spent or void
    passwords   \* how many passwords it has set

Init ==
    /\ state = [c \in Code |-> "unissued"]
    /\ passwords = [c \in Code |-> 0]

Issue(c) ==
    /\ state[c] = "unissued"
    /\ state' = [state EXCEPT ![c] = "valid"]
    /\ UNCHANGED passwords

Claim(c) ==
    /\ state[c] = "valid"
    /\ state' = [state EXCEPT ![c] = "claimed"]
    /\ UNCHANGED passwords

SetPassword(c) ==
    /\ state[c] = "claimed"
    /\ state' = [state EXCEPT ![c] = "spent"]
    /\ passwords' = [passwords EXCEPT ![c] = @ + 1]

\* A claim that fails, or a restart, voids codes for good: they do not come back.
Void(S) ==
    /\ \A c \in S : state[c] \in {"valid", "claimed"}
    /\ state' = [c \in Code |-> IF c \in S THEN "void" ELSE state[c]]
    /\ UNCHANGED passwords

Next ==
    \/ \E c \in Code : Issue(c) \/ Claim(c) \/ SetPassword(c)
    \/ \E S \in SUBSET Code : Void(S)

Spec == Init /\ [][Next]_<<state, passwords>>

=============================================================================
