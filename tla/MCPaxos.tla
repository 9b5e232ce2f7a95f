------------------------------ MODULE MCPaxos -------------------------------
(* Two nodes, one caller each; a caller that failed may try again. *)
EXTENDS Paxos, TLC

CONSTANTS p1, p2, c1, c2

OwnCall == c1 :> p1 @@ c2 :> p2
FewAttempts == p1 :> 2 @@ p2 :> 2
ValueSymmetry == Permutations(Values)
=============================================================================
