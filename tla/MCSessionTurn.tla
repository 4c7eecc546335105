-------------------------- MODULE MCSessionTurn --------------------------
(* SessionTurn for TLC: requests are interchangeable. *)
EXTENDS SessionTurn, TLC

TaskSymmetry == Permutations(Tasks)
==========================================================================
