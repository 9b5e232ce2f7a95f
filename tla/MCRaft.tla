------------------------------- MODULE MCRaft -------------------------------
(* Instances of Raft for TLC; the runners are interchangeable, and so are   *)
(* the other nodes.                                                        *)
EXTENDS Raft, TLC

NodeSymmetry == Permutations(Runners) \cup Permutations(Nodes \ Runners)
=============================================================================
