--------------------------- MODULE RaftRefinement ---------------------------
(***************************************************************************)
(* The Cluster that Raft describes implements one replicated log.          *)
(***************************************************************************)
EXTENDS RaftSafety

Committed(i) == Prefix(log[i], commitIndex[i])

\* The longest committed prefix that any Node knows.
Chosen ==
  Committed(CHOOSE i \in Node : \A j \in Node : commitIndex[j] <= commitIndex[i])

Abstract == INSTANCE ReplicatedLog WITH chosen <- Chosen, known <- [i \in Node |-> Committed(i)]

\* The Cluster is one replicated log: some Node extends it at its end, and every
\* Node learns longer and longer prefixes of it, through messages, Snapshots,
\* elections and restarts alike.
IsReplicatedLog == Abstract!Spec

=============================================================================
