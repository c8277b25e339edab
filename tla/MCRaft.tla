------------------------------- MODULE MCRaft -------------------------------
(* Raft from an empty Cluster, for TLC. *)
EXTENDS RaftRefinement, TLC

MCZero == [i \in Node |-> 0]
MCNoVote == [i \in Node |-> NoNode]
MCEmptyLog == [i \in Node |-> <<>>]
MCSymmetry == Permutations(Node)

=============================================================================
