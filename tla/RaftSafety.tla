----------------------------- MODULE RaftSafety -----------------------------
(***************************************************************************)
(* What the consensus core promises, as properties of Raft.                *)
(***************************************************************************)
EXTENDS Raft, LogChains

Role == {"Follower", "PreCandidate", "Candidate", "Leader"}

Progress == [match : Nat, next : Nat, append : Nat, commit : Nat,
             snapshot : Nat, requests : Nat]

Message ==
  [type : {"PreVoteRequest", "VoteRequest"}, from : Node, to : Node, term : Nat,
   lastIndex : Nat, lastTerm : Nat]
  \cup [type : {"PreVoteResponse"}, from : Node, to : Node, term : Nat,
        currentTerm : Nat, granted : BOOLEAN]
  \cup [type : {"VoteResponse"}, from : Node, to : Node, term : Nat, granted : BOOLEAN]
  \cup [type : {"AppendEntries"}, from : Node, to : Node, term : Nat, request : Nat,
        prevIndex : Nat, prevTerm : Nat, entries : Seq(Entry), commit : Nat,
        read : Read \cup {0}]
  \cup [type : {"AppendEntriesResponse"}, from : Node, to : Node, term : Nat,
        request : Nat, success : BOOLEAN, match : Nat, conflictTerm : Nat,
        conflictIndex : Nat, read : Read \cup {0}]
  \cup [type : {"InstallSnapshot"}, from : Node, to : Node, term : Nat, request : Nat,
        state : Seq(Entry), offset : Nat]
  \cup [type : {"InstallSnapshotResponse"}, from : Node, to : Node, term : Nat,
        request : Nat, index : Nat, success : BOOLEAN, next : Nat, done : BOOLEAN]

\* Every variable of raft.Node and of its loop keeps its type and every message
\* has the fields of its kind.
TypeOK ==
  /\ role \in [Node -> Role]
  /\ term \in [Node -> Nat]
  /\ votedFor \in [Node -> Node \cup {NoNode}]
  /\ leaderID \in [Node -> Node \cup {NoNode}]
  /\ recentLeaderContact \in [Node -> BOOLEAN]
  /\ votes \in [Node -> SUBSET Node]
  /\ preVotes \in [Node -> SUBSET Node]
  /\ activePeers \in [Node -> SUBSET Node]
  /\ progress \in [Node -> [Node -> Progress]]
  /\ pendingReads \in [Node -> [Read -> SUBSET Node]]
  /\ readReady \in [Node -> BOOLEAN]
  /\ log \in [Node -> Seq(Entry)]
  /\ base \in [Node -> Nat]
  /\ commitIndex \in [Node -> Nat]
  /\ lastApplied \in [Node -> Nat]
  /\ capture \in [Node -> Seq(Entry)]
  /\ files \in [Node -> SUBSET Seq(Entry)]
  /\ incoming \in [Node -> [state : Seq(Entry), from : Node \cup {NoNode}, received : Nat]]
  /\ msgs \subseteq Message
  /\ ballots \subseteq Nat \X Node \X Node
  /\ elected \subseteq Nat \X Node
  /\ issued \in Seq([Node -> Nat])
  /\ served \subseteq [read : Read, index : Nat]
  /\ timeouts \in Nat
  /\ faults \in Nat

-----------------------------------------------------------------------------
(* A request of an earlier term is rejected with the receiver's term and no  *)
(* hint.  When its sender leads again in that very term, it goes back to the *)
(* start of the log, and the promises below that count a Follower's log then *)
(* fail.                                                                    *)

\* m answers a request of an earlier term, its receiver leads in the term it tells,
\* and would take it for the rejection of a request of its own.
TakesStaleRejection(m) ==
  /\ m.type = "AppendEntriesResponse"
  /\ ~m.success
  /\ m.conflictIndex = 0
  /\ role[m.to] = "Leader"
  /\ term[m.to] = m.term
  /\ progress[m.to][m.from].append \in {0, m.request}

\* The step takes no such answer.
NoStaleRejection == \A m \in msgs : TakesStaleRejection(m) => ~HandleAppendEntriesResponse(m)

-----------------------------------------------------------------------------

\* applyThrough and compactLog index the retained log by lastApplied - logBaseIndex
\* without a check: the compacted, applied and committed indexes stay in this
\* order through a received Snapshot that overtakes a local one, and back.
IndexesAreOrdered ==
  \A i \in Node : /\ base[i] <= lastApplied[i]
                  /\ lastApplied[i] <= commitIndex[i]
                  /\ commitIndex[i] <= Len(log[i])

\* No term ever has two Leaders, not even at different times or across a
\* restart of a voter (startElection, handleVoteRequest and the durable vote).
ElectionSafety == \A a, b \in elected : a[1] = b[1] => a[2] = b[2]

\* Two logs that hold an entry of the same term at the same index hold the same
\* entries up to it, whatever probes, conflict hints, truncations, Snapshots and
\* interrupted appends produced them.
LogMatching ==
  \A i, j \in Node :
    \A k \in 1..Smaller(Len(log[i]), Len(log[j])) :
      log[i][k].term = log[j][k].term => Agree(log[i], log[j], k)

\* Nodes never commit, and so never apply, different entries at one index.
StateMachineSafety ==
  \A i, j \in Node : Agree(log[i], log[j], Smaller(commitIndex[i], commitIndex[j]))

\* A Leader's log holds everything that any Node of its term or an earlier one
\* knows to be committed.
LeaderCompleteness ==
  \A i, j \in Node :
    role[i] = "Leader" /\ term[j] <= term[i] => Agree(log[i], log[j], commitIndex[j])

\* Every committed entry is in the durable log of a quorum, so that it survives
\* the loss of any minority (advanceLeaderCommit counts durable logs only).
CommittedOnQuorum ==
  \A i \in Node : \A k \in 1..commitIndex[i] :
    Cardinality({j \in Node : Len(log[j]) >= k /\ log[j][k] = log[i][k]}) >= quorum

\* What a Leader believes a peer holds, the peer's durable log does hold.  A
\* success tells the Follower's whole log length, entries included that the
\* request did not reach (handleAppendEntries), and is counted all the same: it is
\* right as long as the Leader never sends from before the point where the logs
\* part, which the hint of a rejection must not make it do (nextIndexFromConflict).
\* The rejection of a request of an earlier term does: see NoStaleRejection.
MatchIndexIsHeld ==
  \A i, j \in Node :
    role[i] = "Leader" /\ j # i /\ term[j] = term[i] =>
      Agree(log[i], log[j], progress[i][j].match)

\* A linearizable read is answered from a state that includes every entry
\* committed anywhere before the read was issued.
ReadsSeeCommitted ==
  \A s \in served : \A i \in Node : s.index >= issued[s.read][i]

\* A Leader that accepts reads has committed an entry of its own term and has
\* applied everything it has committed, which is what lets a read that a quorum
\* acknowledged complete in the step that confirms it.
ReadReadyIsCurrent ==
  \A i \in Node : readReady[i] => /\ role[i] = "Leader"
                                  /\ lastApplied[i] = commitIndex[i]
                                  /\ commitIndex[i] > 0
                                  /\ log[i][commitIndex[i]].term = term[i]

\* Along every log the terms never fall and never exceed the Node's own: the last
\* term, which votes compare, is the highest, also after a Snapshot that keeps the
\* suffix of the log it replaces.
LogTermsAscend ==
  \A i \in Node : \A k \in 1..Len(log[i]) :
    /\ log[i][k].term <= term[i]
    /\ k > 1 => log[i][k - 1].term <= log[i][k].term

\* A step never moves a commit index back or changes a committed entry: not a
\* truncation, a received Snapshot, a restart or a crash between WAL writes.
CommittedIsFinal ==
  [][\A i \in Node : /\ commitIndex'[i] >= commitIndex[i]
                     /\ Agree(log'[i], log[i], commitIndex[i])]_vars

\* Within a term a Node's vote is never withdrawn or given to another Node, and
\* its term never falls, across restarts and crashes in the middle of a step.
VoteIsFinal ==
  [][\A i \in Node : /\ term'[i] >= term[i]
                     /\ term'[i] = term[i] /\ votedFor[i] # NoNode
                          => votedFor'[i] = votedFor[i]]_vars

=============================================================================
