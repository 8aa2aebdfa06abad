------------------------------- MODULE MCGateway -------------------------------
(* Two processes; one handler is asked for while a process is starting *)
EXTENDS Gateway, TLC

MCEarly == {"ListClusterResource"}
Symmetry == Permutations(Procs)
=============================================================================
