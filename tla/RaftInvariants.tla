--------------------------- MODULE RaftInvariants ---------------------------
(***************************************************************************)
(* The inductive invariants behind the properties of RaftSafety.           *)
(***************************************************************************)
EXTENDS RaftSafety

(* Elections *)

\* A set of Nodes can be counted.
CountsAreNat == \A A \in SUBSET Node : Cardinality(A) \in Nat

\* Two quorums share a Node.  It follows from the size of a quorum, and the proofs
\* about steps take it as a hypothesis.
QuorumsMeet ==
  \A A, B \in SUBSET Node : Cardinality(A) >= quorum /\ Cardinality(B) >= quorum
                            => \E v \in Node : v \in A /\ v \in B

\* A ballot that was cast binds its voter: the voter still holds it, or has left
\* the term.
BallotsBind ==
  \A b \in ballots : \/ term[b[2]] > b[1]
                     \/ term[b[2]] = b[1] /\ votedFor[b[2]] = b[3]

\* No voter casts two ballots in one term.
OneBallot ==
  \A b, c \in ballots : b[1] = c[1] /\ b[2] = c[2] => b[3] = c[3]

\* A vote on its way was cast.
GrantsAreBallots ==
  \A m \in msgs : m.type = "VoteResponse" /\ m.granted => <<m.term, m.from, m.to>> \in ballots

\* The votes a Candidate counts were cast for it, in its term.
VotesAreBallots ==
  \A i \in Node : role[i] = "Candidate" => \A j \in votes[i] : <<term[i], j, i>> \in ballots

\* Behind every election stands a quorum of ballots.
ElectedByQuorum ==
  \A e \in elected : \E Q \in SUBSET Node : /\ Cardinality(Q) >= quorum
                                            /\ \A v \in Q : <<e[1], v, e[2]>> \in ballots

\* The inductive invariant behind ElectionSafety: ballots bind their voters, and
\* messages, candidates and Leaders rest on ballots that were cast.
ElectionInv ==
  /\ BallotsBind
  /\ OneBallot
  /\ GrantsAreBallots
  /\ VotesAreBallots
  /\ ElectedByQuorum

-----------------------------------------------------------------------------
(* Logs, in terms of a set C of chains: the logs that Leaders had when they *)
(* appended.                                                                *)

\* Every log is put together from chains, and no term in it exceeds the Node's.
LogsOK(C) ==
  \A i \in Node : /\ Rooted(log[i], C)
                  /\ \A k \in 1..Len(log[i]) : log[i][k].term <= term[i]

\* A term in which a chain ends was recovered, or has had a Leader.
RecoveredEntryTerm(t) ==
  \E i \in Node : \E k \in 1..Len(RecoveredLog[i]) : RecoveredLog[i][k].term = t

Owned(C) ==
  \A c \in C : \/ RecoveredEntryTerm(LastLogTerm(c))
               \/ \E l \in Node : <<LastLogTerm(c), l>> \in elected

\* A Candidate's term is new: it never led in it, and did not recover it.
CandidatesNew ==
  /\ \A e \in elected : term[e[2]] >= e[1]
  /\ \A i \in Node : role[i] = "Candidate" => /\ <<term[i], i>> \notin elected
                                              /\ term[i] > RecoveredTerm[i]

\* A Leader was elected; its log ends in its own term and holds every chain that does.
LeadersOwn(C) ==
  \A i \in Node : role[i] = "Leader" =>
    /\ <<term[i], i>> \in elected
    /\ log[i] \in C
    /\ LastLogTerm(log[i]) = term[i]
    /\ \A c \in C : LastLogTerm(c) = term[i] => StartsWith(log[i], c)

\* Captured and stored Snapshots hold prefixes of chains.
StoredOK(C) ==
  \A i \in Node : /\ Rooted(capture[i], C)
                  /\ \A f \in files[i] : Rooted(f, C)

\* The request or Snapshot m was cut from the log s of its Leader.
Carries(m, s) ==
  /\ m.type = "AppendEntries" =>
       /\ CutFrom(s, m.prevIndex, m.entries)
       /\ m.entries = <<>> => m.prevIndex = Len(s)
       /\ m.prevTerm = IF m.prevIndex = 0 THEN 0 ELSE s[m.prevIndex].term
  /\ m.type = "InstallSnapshot" => StartsWith(s, m.state)

\* Requests and Snapshots on their way were cut from chains of their term.
MsgsOK(C) ==
  \A m \in msgs : m.type \in {"AppendEntries", "InstallSnapshot"} =>
    \E s \in C : LastLogTerm(s) = m.term /\ Carries(m, s)

\* No Node falls back behind the term and vote it recovered.
RecoveredKept ==
  /\ \A i \in Node : term[i] >= RecoveredTerm[i]
  /\ \A i \in Node : RecoveredVote[i] # NoNode => <<RecoveredTerm[i], i, RecoveredVote[i]>> \in ballots
  /\ \A b \in ballots : b[1] >= RecoveredTerm[b[2]]

\* What is compacted is applied, and what is applied is committed.
AppliedIsCommitted ==
  \A i \in Node : base[i] <= lastApplied[i] /\ lastApplied[i] <= commitIndex[i]

\* The inductive invariant behind LogMatching and LogTermsAscend.
ChainInv(C) ==
  /\ C \in SUBSET Seq(Entry)
  /\ ChainsOK(C)
  /\ LogsOK(C)
  /\ Owned(C)
  /\ CandidatesNew
  /\ LeadersOwn(C)
  /\ StoredOK(C)
  /\ MsgsOK(C)
  /\ RecoveredKept

-----------------------------------------------------------------------------
(* Reads *)

\* The inductive invariant behind ReadReadyIsCurrent: the entry of its own term that
\* a Leader has committed is in its log.
ReadyOwnsCommit ==
  \A i \in Node : readReady[i] => /\ role[i] = "Leader"
                                  /\ lastApplied[i] = commitIndex[i]
                                  /\ commitIndex[i] > 0
                                  /\ commitIndex[i] <= Len(log[i])
                                  /\ log[i][commitIndex[i]].term = term[i]

-----------------------------------------------------------------------------
\* Everything that the steps of the Cluster preserve together.  The chains are not a
\* variable of the core: some set of them explains the state.
SafetyInv ==
  /\ TypeOK
  /\ ElectionInv
  /\ AppliedIsCommitted
  /\ ReadyOwnsCommit
  /\ \E C : ChainInv(C)

=============================================================================
