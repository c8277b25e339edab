------------------------ MODULE RaftReplicationProofs -----------------------
(***************************************************************************)
(* What the steps of the core do to logs, Snapshots and reads.  On a       *)
(* Follower, replication, Snapshots and restarts move the log along a      *)
(* chain of a Leader, and what is applied stays committed; a Leader        *)
(* extends its own chain, sends parts of it, and takes reads once an entry *)
(* of its term is committed.                                               *)
(***************************************************************************)
EXTENDS RaftSteps, RaftLogProofs

-----------------------------------------------------------------------------
(* Messages and steps *)

\* A vote request is of the type it is asked for.
LEMMA VoteRequestTypes == \A i, kind, t : \A x \in VoteRequestTo(i, kind, t) : x.type = kind
BY DEF VoteRequestTo

\* Every message has a sender, a receiver and a term.
LEMMA MessageHas == \A m \in Message : m.from \in Node /\ m.to \in Node /\ m.term \in Nat
BY DEF Message

\* Answers are no requests.
LEMMA ReplyStep ==
  ASSUME NEW m, NEW sent, Reply(m, sent),
         \A x \in sent : x.type \notin {"AppendEntries", "InstallSnapshot"}
  PROVE  SendStep
BY DEF Reply, SendStep

\* An answer to a request is none.
LEMMA AnswerStep ==
  ASSUME NEW m, NEW curTerm, NEW success, NEW a, NEW b,
         \/ Reply(m, {AppendEntriesResponse(m, curTerm, success, a, b)})
         \/ Reply(m, {SnapshotResponse(m, curTerm, success, a, b)})
  PROVE  SendStep
<1>1. /\ AppendEntriesResponse(m, curTerm, success, a, b).type = "AppendEntriesResponse"
      /\ SnapshotResponse(m, curTerm, success, a, b).type = "InstallSnapshotResponse"
  BY DEF AppendEntriesResponse, SnapshotResponse
<1>. QED  BY <1>1, ReplyStep

\* Nothing stored.
LEMMA StoredKept ==
  ASSUME capture' = capture, files' = files
  PROVE  StoreStep
BY DEF StoreStep

\* No ballot.
LEMMA BallotsKept ==
  ASSUME ballots' = ballots
  PROVE  BallotStep
BY DEF BallotStep

\* A Node that keeps its term, role and log.
LEMMA StillStep ==
  ASSUME TypeOK, NEW v \in Node, NEW C, UNCHANGED <<term, role, log, elected>>
  PROVE  NodeStep(v, C)
<1>1. term[v] \in Nat
  BY DEF TypeOK
<1>. QED  BY <1>1 DEF NodeStep

\* A Node that becomes or stays a Follower, and moves its log along a chain or not.
LEMMA FollowStep ==
  ASSUME TypeOK, NEW v \in Node, NEW C, NEW t \in Nat, t >= term[v],
         term' = [term EXCEPT ![v] = t], role' = [role EXCEPT ![v] = "Follower"],
         elected' = elected, \A u \in Node : u # v => log'[u] = log[u],
         \/ log'[v] = log[v]
         \/ \E s \in C : LastLogTerm(s) = t /\ Moved(log[v], s, log'[v])
  PROVE  NodeStep(v, C)
<1>1. /\ \A u \in Node : u # v => term'[u] = term[u] /\ role'[u] = role[u]
      /\ term'[v] = t /\ role'[v] = "Follower"
  BY Zenon DEF TypeOK
<1>. QED  BY <1>1 DEF NodeStep, FollowsChain

\* Contact with a Leader.
LEMMA FollowLeaderTurns ==
  ASSUME TypeOK, NEW i \in Node, NEW t \in Nat, t >= term[i], NEW leader, FollowLeader(i, t, leader)
  PROVE  term' = [term EXCEPT ![i] = t] /\ role' = [role EXCEPT ![i] = "Follower"]
<1>1. CASE t > term[i]
  BY <1>1, Zenon DEF FollowLeader, BecomeFollower, BecomeFollowerWith
<1>2. CASE ~(t > term[i])
  <2>1. term \in [Node -> Nat] /\ term' = term /\ role' = [role EXCEPT ![i] = "Follower"]
    BY <1>2, Zenon DEF FollowLeader, TypeOK
  <2>2. t = term[i]
    BY <1>2, <2>1
  <2>3. term = [term EXCEPT ![i] = term[i]]
    BY <2>1
  <2>. QED  BY <2>1, <2>2, <2>3, Zenon
<1>. QED  BY <1>1, <1>2

-----------------------------------------------------------------------------
(* What is applied is committed *)

\* A process starts from a Snapshot that is committed and that its log matches.
LEMMA NewestSnapshotFits ==
  ASSUME LeastElements, NEW i \in Node, commitIndex[i] \in Nat, NEW entries, NEW disk \in SUBSET Seq(Entry),
         NEW image, image = NewestSnapshot(i, entries, disk)
  PROVE  /\ image \in Seq(Entry) /\ Len(image) \in Nat
         /\ Len(image) <= commitIndex[i]
         /\ image # <<>> => image \in disk /\ Matches(entries, 0, Len(image), LastLogTerm(image))
<1>. DEFINE fits == {f \in disk : /\ Len(f) <= commitIndex[i]
                                  /\ Matches(entries, 0, Len(f), LastLogTerm(f))}
<1>1. CASE fits = {}
  <2>1. image = <<>>
    BY <1>1, Zenon DEF NewestSnapshot
  <2>. QED  BY <2>1, EmptySeq
<1>2. CASE fits # {}
  <2>. DEFINE lens == {Len(f) : f \in fits}
  <2>1. lens \in SUBSET Nat /\ lens # {} /\ \A n \in lens : n <= commitIndex[i]
    BY <1>2, LenProperties
  <2>2. Max(lens) \in lens /\ \A n \in lens : Max(lens) >= n
    BY <2>1, MaxIsGreatest, Zenon
  <2>3. \E f \in fits : \A g \in fits : Len(f) >= Len(g)
    BY <2>2, Zenon
  <2>4. image \in fits
    BY <1>2, <2>3, Zenon DEF NewestSnapshot
  <2>5. image \in Seq(Entry)
    BY <2>4, Zenon
  <2>. QED  BY <2>4, <2>5, LenProperties
<1>. QED  BY <1>1, <1>2

\* A Leader commits nothing new, or an entry of its term that a quorum acknowledged.
LEMMA LeaderCommitIs ==
  ASSUME LeastElements, TypeOK, NEW i \in Node, NEW prog, NEW k, k = LeaderCommit(i, prog)
  PROVE  \/ k = commitIndex[i]
         \/ /\ k \in (commitIndex[i] + 1)..Len(log[i])
            /\ TermAt(log[i], base[i], k) = term[i]
            /\ Cardinality({j \in Peers(i) : prog[j].match >= k}) + 1 >= quorum
<1>. DEFINE new == {x \in (commitIndex[i] + 1)..Len(log[i]) :
                      /\ TermAt(log[i], base[i], x) = term[i]
                      /\ Cardinality({j \in Peers(i) : prog[j].match >= x}) + 1 >= quorum}
            all == {commitIndex[i]} \cup new
<1>1. commitIndex[i] \in Nat /\ Len(log[i]) \in Nat
  BY LenProperties DEF TypeOK
<1>2. all \in SUBSET Nat /\ all # {}
  BY <1>1
<1>3. \A x \in all : x <= commitIndex[i] + Len(log[i])
  BY <1>1
<1>4. commitIndex[i] + Len(log[i]) \in Nat
  BY <1>1
<1>5. k = Max(all)
  BY Zenon DEF LeaderCommit
<1>. HIDE DEF all
<1>6. k \in all
  BY <1>2, <1>3, <1>4, <1>5, MaxIsGreatest, Zenon
<1>. QED  BY <1>6, Zenon DEF all

\* A restart applies everything that is committed, over a Snapshot within it.
LEMMA RecoverApplied ==
  ASSUME LeastElements, TypeOK, AppliedIsCommitted, NEW i \in Node, NEW t, NEW vote, NEW entries,
         NEW disk \in SUBSET Seq(Entry), NEW inFlight, Recover(i, t, vote, entries, disk, inFlight)
  PROVE  AppliedIsCommitted'
<1>. DEFINE image == NewestSnapshot(i, entries, disk)
<1>1. base \in [Node -> Nat] /\ commitIndex \in [Node -> Nat] /\ lastApplied \in [Node -> Nat]
  BY Zenon DEF TypeOK
<1>2. /\ base' = [base EXCEPT ![i] = Len(image)]
      /\ lastApplied' = [lastApplied EXCEPT ![i] = commitIndex[i]]
      /\ commitIndex' = commitIndex
  BY Zenon DEF Recover
<1>3. Len(image) \in Nat /\ Len(image) <= commitIndex[i]
  BY <1>1, NewestSnapshotFits, Zenon
<1>. HIDE DEF image
<1>. QED  BY <1>1, <1>2, <1>3 DEF AppliedIsCommitted

\* Received messages.
LEMMA ReceiveApplied ==
  ASSUME LeastElements, TypeOK, TypeOK', AppliedIsCommitted, NEW m \in msgs, Receive(m)
  PROVE  AppliedIsCommitted'
<1>. DEFINE i == m.to
<1>1. /\ base \in [Node -> Nat] /\ commitIndex \in [Node -> Nat] /\ lastApplied \in [Node -> Nat]
      /\ log \in [Node -> Seq(Entry)] /\ files \in [Node -> SUBSET Seq(Entry)]
      /\ m \in Message /\ i \in Node /\ commitIndex'[i] \in Nat
  BY MessageHas, Zenon DEF TypeOK
<1>2. CASE UNCHANGED logVars
  BY <1>2, Zenon DEF logVars, AppliedIsCommitted
<1>3. CASE HandleVoteResponse(m)
  <2>1. base' = base /\ commitIndex' = commitIndex /\ lastApplied' = lastApplied
    BY <1>3, Zenon DEF HandleVoteResponse, StepDown, logVars
  <2>. QED  BY <2>1, Zenon DEF AppliedIsCommitted
<1>4. CASE HandleAppendEntries(m)
  <2>. DEFINE last == Len(Merge(i, m).kept \o Merge(i, m).added)
              commit == FollowerCommit(i, m.commit, last)
  <2>1. CASE /\ commitIndex' = [commitIndex EXCEPT ![i] = commit]
             /\ lastApplied' = [lastApplied EXCEPT ![i] = commit]
             /\ base' = base
    <3>1. commit \in Nat
      BY <1>1, <2>1, Zenon
    <3>2. commit >= commitIndex[i]
      <4>. DEFINE b == Smaller(m.commit, last)
      <4>1. commit = IF commitIndex[i] > b THEN commitIndex[i] ELSE b
        BY Zenon DEF FollowerCommit, Larger
      <4>. HIDE DEF b, commit
      <4>. QED  BY <1>1, <3>1, <4>1
    <3>. HIDE DEF commit
    <3>. QED  BY <1>1, <2>1, <3>1, <3>2 DEF AppliedIsCommitted
  <2>. QED  BY <1>2, <1>4, <2>1, Zenon DEF HandleAppendEntries
<1>5. CASE HandleAppendEntriesResponse(m)
  <2>1. CASE StepDown(m, m.term)
    BY <1>2, <2>1, Zenon DEF StepDown
  <2>2. CASE ~StepDown(m, m.term)
    <3>1. \E prog : LET commit == LeaderCommit(i, prog)
                        applied == IF commit > commitIndex[i] THEN commit ELSE lastApplied[i]
                    IN /\ commitIndex' = [commitIndex EXCEPT ![i] = commit]
                       /\ lastApplied' = [lastApplied EXCEPT ![i] = applied]
                       /\ base' = base
      BY <1>5, <2>2, Zenon DEF HandleAppendEntriesResponse
    <3>2. PICK prog : LET commit == LeaderCommit(i, prog)
                          applied == IF commit > commitIndex[i] THEN commit ELSE lastApplied[i]
                      IN /\ commitIndex' = [commitIndex EXCEPT ![i] = commit]
                         /\ lastApplied' = [lastApplied EXCEPT ![i] = applied]
                         /\ base' = base
      BY <3>1, Zenon
    <3>. DEFINE commit == LeaderCommit(i, prog)
    <3>3. commit = commitIndex[i] \/ commit \in (commitIndex[i] + 1)..Len(log[i])
      BY <1>1, LeaderCommitIs, Zenon
    <3>4. commit \in Nat /\ commit >= commitIndex[i]
      BY <1>1, <3>3, LenProperties
    <3>. HIDE DEF commit
    <3>. QED  BY <1>1, <3>2, <3>4 DEF AppliedIsCommitted, commit
  <2>. QED  BY <2>1, <2>2
<1>6. CASE HandleInstallSnapshot(m)
  <2>. DEFINE index == Len(m.state)
  <2>1. CASE /\ base' = [base EXCEPT ![i] = index]
             /\ commitIndex' = [commitIndex EXCEPT ![i] = SnapshotCommit(i, index)]
             /\ lastApplied' = [lastApplied EXCEPT ![i] = index]
    <3>1. index \in Nat
      BY <1>1, <1>6, LenProperties DEF HandleInstallSnapshot, Message
    <3>. HIDE DEF index
    <3>2. base'[i] = index /\ lastApplied'[i] = index /\ commitIndex'[i] = Larger(commitIndex[i], index)
      BY <1>1, <2>1, Zenon DEF SnapshotCommit
    <3>3. \A u \in Node : u # i => base'[u] = base[u] /\ lastApplied'[u] = lastApplied[u]
                                   /\ commitIndex'[u] = commitIndex[u]
      BY <1>1, <2>1, Zenon
    <3>4. commitIndex[i] \in Nat
      BY <1>1, Zenon
    <3>5. index <= index /\ index <= Larger(commitIndex[i], index)
      BY <3>1, <3>4, LargerBounds, Reflexive, Zenon
    <3>. QED  BY <3>2, <3>3, <3>5, Zenon DEF AppliedIsCommitted
  <2>. QED  BY <1>2, <1>6, <2>1, Zenon DEF HandleInstallSnapshot
<1>7. CASE CrashInAppendEntries(m)
  BY <1>1, <1>7, RecoverApplied, Zenon DEF CrashInAppendEntries
<1>8. CASE CrashInInstallSnapshot(m)
  <2>1. m.state \in Seq(Entry)
    BY <1>1, <1>8, SMTT(30) DEF CrashInInstallSnapshot, Message
  <2>2. files[i] \cup {m.state} \in SUBSET Seq(Entry)
    BY <1>1, <2>1
  <2>. QED  BY <1>1, <1>8, <2>2, RecoverApplied, Zenon DEF CrashInInstallSnapshot
<1>9. CASE \/ HandlePreVoteRequest(m) \/ HandlePreVoteResponse(m) \/ HandleVoteRequest(m)
           \/ HandleInstallSnapshotResponse(m)
  <2>1. UNCHANGED logVars
    BY <1>9, Zenon DEF HandlePreVoteRequest, HandlePreVoteResponse, HandleVoteRequest,
         HandleInstallSnapshotResponse, StepDown
  <2>. QED  BY <1>2, <2>1
<1>. QED  BY <1>3, <1>4, <1>5, <1>6, <1>7, <1>8, <1>9, Zenon DEF Receive

\* No step compacts what is not applied, or applies what is not committed.
LEMMA NextApplied ==
  ASSUME LeastElements, TypeOK, TypeOK', AppliedIsCommitted, [Next]_vars
  PROVE  AppliedIsCommitted'
<1>1. /\ base \in [Node -> Nat] /\ commitIndex \in [Node -> Nat] /\ lastApplied \in [Node -> Nat]
      /\ capture \in [Node -> Seq(Entry)] /\ files \in [Node -> SUBSET Seq(Entry)]
  BY Zenon DEF TypeOK
<1>2. CASE UNCHANGED <<base, commitIndex, lastApplied>>
  BY <1>2, Zenon DEF AppliedIsCommitted
<1>3. CASE \E m \in msgs : m.to \in Up /\ Receive(m)
  BY <1>3, ReceiveApplied
<1>4. ASSUME NEW i \in Up, Local(i)  PROVE AppliedIsCommitted'
  <2>1. i \in Node
    BY NodeAssumption
  <2>2. CASE FinishSnapshot(i)
    <3>1. Len(capture[i]) \in Nat
      BY <1>1, <2>1, LenProperties
    <3>2. /\ commitIndex' = commitIndex /\ lastApplied' = lastApplied
          /\ \/ base' = [base EXCEPT ![i] = base[i]]
             \/ base' = [base EXCEPT ![i] = Len(capture[i])] /\ Len(capture[i]) <= lastApplied[i]
      BY <2>2, Zenon DEF FinishSnapshot
    <3>. QED  BY <1>1, <2>1, <3>1, <3>2, Zenon DEF AppliedIsCommitted
  <2>3. CASE Restart(i)
    BY <1>1, <2>1, <2>3, RecoverApplied, Zenon DEF Restart
  <2>4. CASE ~FinishSnapshot(i) /\ ~Restart(i)
    <3>1. UNCHANGED <<base, commitIndex, lastApplied>>
      BY <1>4, <2>4, Zenon DEF Local, StartPreVote, CheckQuorum, Propose, ConfirmRead, HeartbeatRound,
           StartSnapshot, SaveSnapshot, logVars
    <3>. QED  BY <1>2, <3>1
  <2>. QED  BY <2>2, <2>3, <2>4
<1>5. CASE UNCHANGED vars
  BY <1>2, <1>5, Zenon DEF vars, logVars
<1>. QED  BY <1>3, <1>4, <1>5 DEF Next

-----------------------------------------------------------------------------
(* Restarts *)

\* What a Node recovers is the log it has on disk, whichever Snapshot it starts from.
LEMMA RecoveredLogIs ==
  ASSUME LeastElements, TypeOK, NEW C \in SUBSET Seq(Entry), ChainsOK(C), NEW i \in Node,
         NEW entries \in Seq(Entry), Rooted(entries, C),
         NEW disk \in SUBSET Seq(Entry), \A f \in disk : Rooted(f, C),
         NEW image, image = NewestSnapshot(i, entries, disk)
  PROVE  /\ image \in Seq(Entry) /\ Len(image) \in Nat /\ Len(image) <= commitIndex[i]
         /\ Len(image) <= Len(entries)
         /\ image \o SubSeq(entries, Len(image) + 1, Len(entries)) = entries
<1>1. commitIndex[i] \in Nat /\ Len(entries) \in Nat
  BY LenProperties DEF TypeOK
<1>2. /\ image \in Seq(Entry) /\ Len(image) \in Nat /\ Len(image) <= commitIndex[i]
      /\ image # <<>> => image \in disk /\ Matches(entries, 0, Len(image), LastLogTerm(image))
  BY <1>1, NewestSnapshotFits, Zenon
<1>3. StartsWith(entries, image)
  <2>1. CASE image = <<>>
    BY <1>1, <2>1 DEF StartsWith
  <2>2. CASE image # <<>>
    <3>1. Len(image) # 0
      BY <1>2, <2>2, EmptySeq
    <3>2. Len(image) <= Len(entries) /\ TermAt(entries, 0, Len(image)) = LastLogTerm(image)
      BY <1>2, <2>2, <3>1, Zenon DEF Matches
    <3>3. Rooted(image, C) /\ 0 \in Nat
      BY <1>2, <2>2
    <3>. QED  BY <1>2, <3>2, <3>3, BoundaryMatches, Zenon
  <2>. QED  BY <2>1, <2>2
<1>4. Len(image) <= Len(entries)
  BY <1>3, Zenon DEF StartsWith
<1>. QED  BY <1>2, <1>3, <1>4, PrefixRestored, Zenon

\* A log that moved along a chain is rooted.
LEMMA MovedRooted ==
  ASSUME NEW C \in SUBSET Seq(Entry), ChainsOK(C), NEW old, Rooted(old, C), NEW new \in Seq(Entry),
         NEW s \in C, Moved(old, s, new)
  PROVE  Rooted(new, C)
<1>1. s \in Seq(Entry) /\ Rooted(s, C)
  BY Zenon DEF ChainsOK
<1>2. new = old \/ StartsWith(s, new)
  BY Zenon DEF Moved
<1>. QED  BY <1>1, <1>2, RootedPrefix, Zenon

\* It recovers that log.
LEMMA RecoverIs ==
  ASSUME LeastElements, TypeOK, NEW C, ChainInv(C), NEW i \in Node, NEW t, NEW vote, NEW entries,
         RecoveringStep(i, t, entries, C),
         NEW disk, \A f \in disk : f \in files[i] \/ \E m \in msgs : m.type = "InstallSnapshot" /\ f = m.state,
         NEW inFlight, inFlight \subseteq msgs, Recover(i, t, vote, entries, disk, inFlight)
  PROVE  /\ ChainStep(i, C)
         /\ log' = [log EXCEPT ![i] = entries]
         /\ base'[i] \in Nat /\ base'[i] <= commitIndex[i] /\ base'[i] <= Len(entries)
         /\ \A u \in Node : u # i => base'[u] = base[u]
<1>. DEFINE image == NewestSnapshot(i, entries, disk)
<1>1. /\ C \in SUBSET Seq(Entry) /\ ChainsOK(C) /\ Rooted(log[i], C)
      /\ \A f \in files[i] : Rooted(f, C)
  BY Zenon DEF ChainInv, LogsOK, StoredOK
<1>2. /\ t \in Nat /\ t >= term[i] /\ entries \in Seq(Entry)
      /\ entries = log[i] \/ \E s \in C : LastLogTerm(s) = t /\ Moved(log[i], s, entries)
  BY DEF RecoveringStep
<1>3. Rooted(entries, C)
  <2>1. CASE entries = log[i]
    BY <1>1, <2>1
  <2>2. CASE \E s \in C : LastLogTerm(s) = t /\ Moved(log[i], s, entries)
    BY <1>1, <1>2, <2>2, MovedRooted, Zenon
  <2>. QED  BY <1>2, <2>1, <2>2, SMTT(30)
<1>4. ASSUME NEW f \in disk  PROVE f \in Seq(Entry) /\ Rooted(f, C)
  <2>1. CASE f \in files[i]
    <3>1. files[i] \in SUBSET Seq(Entry)
      BY Zenon DEF TypeOK
    <3>. QED  BY <1>1, <2>1, <3>1
  <2>2. ASSUME NEW m \in msgs, m.type = "InstallSnapshot", f = m.state  PROVE f \in Seq(Entry) /\ Rooted(f, C)
    <3>1. f \in Seq(Entry)
      <4>1. m \in Message
        BY DEF TypeOK
      <4>. QED  BY <2>2, <4>1, SMTT(30) DEF Message
    <3>2. PICK s \in C : StartsWith(s, f)
      BY <2>2, Zenon DEF ChainInv, MsgsOK, Carries
    <3>3. s \in Seq(Entry) /\ Rooted(s, C)
      BY <1>1, Zenon DEF ChainsOK
    <3>. QED  BY <3>1, <3>2, <3>3, RootedPrefix, Zenon
  <2>. QED  BY <2>1, <2>2, SMTT(30)
<1>5. disk \in SUBSET Seq(Entry) /\ \A f \in disk : Rooted(f, C)
  BY <1>4, Zenon
<1>6. /\ Len(image) \in Nat /\ Len(image) <= commitIndex[i] /\ Len(image) <= Len(entries)
      /\ image \o SubSeq(entries, Len(image) + 1, Len(entries)) = entries
  <2>1. image = NewestSnapshot(i, entries, disk)
    OBVIOUS
  <2>2. entries \in Seq(Entry) /\ C \in SUBSET Seq(Entry) /\ ChainsOK(C)
    BY <1>1, <1>2
  <2>. HIDE DEF image
  <2>. QED  BY <1>3, <1>5, <2>1, <2>2, RecoveredLogIs, SMTT(30)
<1>7. /\ term' = [term EXCEPT ![i] = t] /\ role' = [role EXCEPT ![i] = "Follower"]
      /\ log' = [log EXCEPT ![i] = image \o SubSeq(entries, Len(image) + 1, Len(entries))]
      /\ base' = [base EXCEPT ![i] = Len(image)]
      /\ capture' = [capture EXCEPT ![i] = <<>>]
      /\ files' = [files EXCEPT ![i] = disk]
      /\ msgs' = inFlight
      /\ UNCHANGED <<elected, ballots>>
  BY Zenon DEF Recover, BecomeFollowerWith
<1>. HIDE DEF image
<1>8. log' = [log EXCEPT ![i] = entries]
  BY <1>6, <1>7, Zenon
<1>9. /\ log'[i] = entries /\ \A u \in Node : u # i => log'[u] = log[u]
      /\ base'[i] = Len(image) /\ \A u \in Node : u # i => base'[u] = base[u]
      /\ capture'[i] = <<>> /\ \A u \in Node : u # i => capture'[u] = capture[u]
      /\ files'[i] = disk /\ \A u \in Node : u # i => files'[u] = files[u]
  BY <1>7, <1>8, ZenonT(40) DEF TypeOK
<1>10. NodeStep(i, C)
  BY <1>2, <1>7, <1>9, FollowStep, ZenonT(40)
<1>11. SendStep
  BY <1>7 DEF SendStep
<1>12. StoreStep
  <2>. SUFFICES ASSUME NEW u \in Node
                PROVE  /\ \/ capture'[u] \in {capture[u], <<>>}
                          \/ StartsWith(log[u], capture'[u])
                       /\ \A f \in files'[u] : \/ f \in files[u]
                                               \/ f = capture[u]
                                               \/ \E m \in msgs : m.type = "InstallSnapshot" /\ f = m.state
    BY SMTT(30) DEF StoreStep
  <2>1. CASE u = i
    BY <1>9, <2>1, SMTT(30)
  <2>2. CASE u # i
    BY <1>9, <2>2
  <2>. QED  BY <2>1, <2>2, SMTT(30)
<1>13. ChainStep(i, C)
  BY <1>7, <1>10, <1>11, <1>12, BallotsKept, Zenon DEF ChainStep
<1>. QED  BY <1>6, <1>8, <1>9, <1>13

\* A restart recovers the log the Node had.
LEMMA RestartIs ==
  ASSUME TypeOK, NEW C, NEW i \in Node, Restart(i)
  PROVE  RecoveringStep(i, term[i], log[i], C)
<1>1. term[i] \in Nat /\ log[i] \in Seq(Entry)
  BY DEF TypeOK
<1>. QED  BY <1>1 DEF RecoveringStep

-----------------------------------------------------------------------------
(* Replication *)

\* A request that matches moves the log along the chain it was cut from.
LEMMA MergeIs ==
  ASSUME LeastElements, TypeOK, AppliedIsCommitted, NEW C, ChainInv(C), NEW m \in msgs, m.type = "AppendEntries",
         PrevMatches(m.to, m), Merge(m.to, m).ok, NEW n \in 0..Len(Merge(m.to, m).added)
  PROVE  /\ Written(m.to, m, n) \in Seq(Entry)
         /\ \E s \in C : MergedInto(m.to, m, s, n, Written(m.to, m, n))
<1>. DEFINE i == m.to
            add == EntriesToAppend(log[i], base[i], commitIndex[i], m.prevIndex, m.entries)
            cut == IF add.truncateFrom = 0 THEN log[i] ELSE TruncateLog(log[i], add.truncateFrom)
            new == Written(i, m, n)
<1>1. m \in Message /\ i \in Node
  BY MessageHas, SMTT(30) DEF TypeOK
<1>2. m.prevIndex \in Nat /\ m.prevTerm \in Nat /\ m.entries \in Seq(Entry) /\ m.term \in Nat
  BY <1>1 DEF Message
<1>3. /\ log[i] \in Seq(Entry) /\ base[i] \in Nat /\ commitIndex[i] \in Nat /\ lastApplied[i] \in Nat
      /\ C \in SUBSET Seq(Entry) /\ ChainsOK(C) /\ Rooted(log[i], C)
  BY <1>1, Zenon DEF TypeOK, ChainInv, LogsOK
<1>4. base[i] <= commitIndex[i]
  BY <1>1, <1>3 DEF AppliedIsCommitted
<1>5. PICK s \in C : LastLogTerm(s) = m.term /\ Carries(m, s)
  BY Zenon DEF ChainInv, MsgsOK
<1>6. /\ CutFrom(s, m.prevIndex, m.entries)
      /\ m.prevTerm = IF m.prevIndex = 0 THEN 0 ELSE s[m.prevIndex].term
  BY <1>5, Zenon DEF Carries
<1>7. s \in Seq(Entry) /\ Rooted(s, C)
  BY <1>3, Zenon DEF ChainsOK
<1>8. Matches(log[i], base[i], m.prevIndex, IF m.prevIndex = 0 THEN 0 ELSE s[m.prevIndex].term)
  <2>1. Matches(log[i], base[i], m.prevIndex, m.prevTerm)
    BY Zenon DEF PrevMatches
  <2>. QED  BY <1>6, <2>1
<1>9. Merge(i, m) = [ok |-> add.ok, kept |-> cut, added |-> add.entries]
  BY Zenon DEF Merge
<1>10. add.ok /\ n \in 0..Len(add.entries)
  BY <1>9
<1>11. new = MergedLog(log[i], add, n) /\ Merge(i, m).added = add.entries
  <2>1. Merge(i, m).kept = cut /\ Merge(i, m).added = add.entries
    BY <1>9
  <2>. HIDE DEF add
  <2>. QED  BY <2>1, Zenon DEF Written, MergedLog
<1>12. MergeReady(Entry, C, log[i], s, base[i], commitIndex[i], m.prevIndex, m.entries)
  BY <1>2, <1>3, <1>4, <1>6, <1>7, <1>8, ZenonT(40) DEF MergeReady
<1>13. add = EntriesToAppend(log[i], base[i], commitIndex[i], m.prevIndex, m.entries)
  OBVIOUS
<1>. HIDE DEF add, new
<1>14. MergeDone(Entry, log[i], s, commitIndex[i], n = Len(add.entries), m.prevIndex + Len(m.entries), new)
  <2>1. MergeDone(Entry, log[i], s, commitIndex[i], n = Len(add.entries), m.prevIndex + Len(m.entries),
                  MergedLog(log[i], add, n))
    <3>. HIDE DEF i
    <3>. QED  BY <1>10, <1>12, <1>13, MergeFollows
  <2>. QED  BY <1>11, <2>1, ZenonT(40)
<1>15. new \in Seq(Entry) /\ MergedInto(i, m, s, n, new)
  BY <1>5, <1>11, <1>14, Zenon DEF MergedInto, MergeDone
<1>. QED  BY <1>15, SMTT(30) DEF new

\* With all of the entries written, the log is the merged one.
LEMMA WrittenAll ==
  ASSUME LeastElements, TypeOK, NEW m \in msgs, m.type = "AppendEntries"
  PROVE  /\ Len(Merge(m.to, m).added) \in Nat
         /\ Written(m.to, m, Len(Merge(m.to, m).added)) = Merge(m.to, m).kept \o Merge(m.to, m).added
<1>. DEFINE i == m.to
            add == EntriesToAppend(log[i], base[i], commitIndex[i], m.prevIndex, m.entries)
<1>1. m \in Message /\ i \in Node
  BY MessageHas DEF TypeOK
<1>2. m.prevIndex \in Nat /\ m.entries \in Seq(Entry)
  BY <1>1 DEF Message
<1>3. log[i] \in Seq(Entry) /\ base[i] \in Nat /\ commitIndex[i] \in Nat
  BY <1>1, Zenon DEF TypeOK
<1>4. add \in [ok : BOOLEAN, truncateFrom : 0..Len(log[i]), entries : Seq(Entry)]
  BY <1>2, <1>3, EntriesToAppendType, Zenon
<1>5. Merge(i, m).added = add.entries
  BY DEF Merge
<1>. HIDE DEF add
<1>6. add.entries \in Seq(Entry)
  BY <1>4
<1>7. SubSeq(add.entries, 1, Len(add.entries)) = add.entries
  BY <1>6, SubSeqFull, Zenon
<1>. QED  BY <1>5, <1>6, <1>7, LenProperties, Zenon DEF Written

\* A request to append.
LEMMA AppendEntriesChain ==
  ASSUME LeastElements, TypeOK, AppliedIsCommitted, NEW C, ChainInv(C), NEW m \in msgs, HandleAppendEntries(m)
  PROVE  ChainStep(m.to, C)
<1>. DEFINE i == m.to
            merged == Merge(i, m).kept \o Merge(i, m).added
<1>1. m \in Message /\ i \in Node /\ m.term \in Nat /\ m.type = "AppendEntries"
  BY MessageHas DEF TypeOK, HandleAppendEntries
<1>2. \E curTerm, success, a, b : Reply(m, {AppendEntriesResponse(m, curTerm, success, a, b)})
  BY Zenon DEF HandleAppendEntries
<1>3. SendStep
  BY <1>2, AnswerStep, Zenon
<1>4. UNCHANGED <<capture, files, ballots, elected>>
  BY Zenon DEF HandleAppendEntries, snapshotVars, historyVars
<1>5. NodeStep(i, C)
  <2>1. CASE UNCHANGED <<hardVars, electionVars, logVars>>
    <3>1. UNCHANGED <<term, role, log>>
      BY <2>1, Zenon DEF hardVars, electionVars, logVars
    <3>. QED  BY <1>1, <1>4, <3>1, StillStep, Zenon
  <2>2. CASE m.term >= term[i] /\ FollowLeader(i, m.term, m.from) /\ UNCHANGED logVars
    <3>1. log' = log
      BY <2>2, Zenon DEF logVars
    <3>2. term' = [term EXCEPT ![i] = m.term] /\ role' = [role EXCEPT ![i] = "Follower"]
      BY <1>1, <2>2, FollowLeaderTurns, Zenon
    <3>. QED  BY <1>1, <1>4, <2>2, <3>1, <3>2, FollowStep, Zenon
  <2>3. CASE /\ m.term >= term[i] /\ PrevMatches(i, m) /\ Merge(i, m).ok
             /\ FollowLeader(i, m.term, m.from) /\ log' = [log EXCEPT ![i] = merged]
    <3>1. term' = [term EXCEPT ![i] = m.term] /\ role' = [role EXCEPT ![i] = "Follower"]
      BY <1>1, <2>3, FollowLeaderTurns, Zenon
    <3>. DEFINE n == Len(Merge(i, m).added)
    <3>0. n \in Nat /\ Written(i, m, n) = merged
      BY <1>1, WrittenAll, Zenon
    <3>2. n \in 0..n /\ Written(i, m, n) = merged
      BY <3>0
    <3>. HIDE DEF n
    <3>3. PICK s \in C : MergedInto(i, m, s, n, Written(i, m, n))
      BY <1>1, <2>3, <3>2, MergeIs, Zenon DEF n
    <3>. HIDE DEF merged
    <3>4. LastLogTerm(s) = m.term /\ Moved(log[i], s, merged)
      BY <3>2, <3>3, Zenon DEF MergedInto
    <3>5. log'[i] = merged /\ \A u \in Node : u # i => log'[u] = log[u]
      BY <1>1, <2>3, ZenonT(40) DEF TypeOK
    <3>6. \E x \in C : LastLogTerm(x) = m.term /\ Moved(log[i], x, log'[i])
      BY <3>4, <3>5
    <3>. QED  BY <1>1, <1>4, <2>3, <3>1, <3>5, <3>6, FollowStep, Zenon
  <2>. QED  BY <2>1, <2>2, <2>3, Zenon DEF HandleAppendEntries
<1>. QED  BY <1>3, <1>4, <1>5, StoredKept, BallotsKept, ZenonT(40) DEF ChainStep

\* A crash between the WAL writes of a request to append.
LEMMA CrashInAppendIs ==
  ASSUME LeastElements, TypeOK, AppliedIsCommitted, NEW C, ChainInv(C), NEW m \in msgs, CrashInAppendEntries(m)
  PROVE  /\ m.type = "AppendEntries" /\ m.to \in Node
         /\ \E entries : /\ RecoveringStep(m.to, m.term, entries, C)
                         /\ Recover(m.to, m.term, VoteIn(m.to, m.term), entries, files[m.to], msgs \ {m})
                         /\ \/ entries = log[m.to]
                            \/ \E n \in 0..Len(Merge(m.to, m).added) : \E s \in C :
                                 MergedInto(m.to, m, s, n, entries)
<1>. DEFINE i == m.to
<1>1. m \in Message /\ i \in Node /\ m.term \in Nat /\ m.type = "AppendEntries"
  BY MessageHas DEF TypeOK, CrashInAppendEntries
<1>2. m.term >= term[i] /\ PrevMatches(i, m) /\ Merge(i, m).ok
  BY Zenon DEF CrashInAppendEntries
<1>3. PICK entries \in {log[i]} \cup {Written(i, m, n) : n \in 0..Len(Merge(i, m).added)} :
         Recover(i, m.term, VoteIn(i, m.term), entries, files[i], msgs \ {m})
  BY Zenon DEF CrashInAppendEntries, Written
<1>4. CASE entries = log[i]
  <2>1. log[i] \in Seq(Entry)
    BY <1>1, Zenon DEF TypeOK
  <2>. QED  BY <1>1, <1>2, <1>3, <1>4, <2>1, Zenon DEF RecoveringStep
<1>5. ASSUME NEW n \in 0..Len(Merge(i, m).added), entries = Written(i, m, n)
      PROVE  /\ RecoveringStep(i, m.term, entries, C)
             /\ \E s \in C : MergedInto(i, m, s, n, entries)
  <2>1. PICK s \in C : Written(i, m, n) \in Seq(Entry) /\ MergedInto(i, m, s, n, Written(i, m, n))
    BY <1>1, <1>2, MergeIs, Zenon
  <2>2. entries \in Seq(Entry) /\ MergedInto(i, m, s, n, entries)
    BY <1>5, <2>1
  <2>3. LastLogTerm(s) = m.term /\ Moved(log[i], s, entries)
    BY <2>2, Zenon DEF MergedInto
  <2>. QED  BY <1>1, <1>2, <2>2, <2>3, Zenon DEF RecoveringStep
<1>. QED  BY <1>1, <1>3, <1>4, <1>5, ZenonT(40)

-----------------------------------------------------------------------------
(* Snapshots *)

\* A complete Snapshot moves the log along the chain it was cut from, or nowhere.
LEMMA InstallIs ==
  ASSUME TypeOK, NEW C, ChainInv(C), NEW m \in msgs, m.type = "InstallSnapshot",
         Len(m.state) > base[m.to],
         NEW new, new = (IF RetainSuffix(m.to, m.state)
                           THEN m.state \o SubSeq(log[m.to], Len(m.state) + 1, Len(log[m.to]))
                           ELSE m.state)
  PROVE  new \in Seq(Entry) /\ \E s \in C : InstalledInto(m.to, m, s, new)
<1>. DEFINE i == m.to
            f == m.state
            keep == Len(f) <= Len(log[i]) /\ TermAt(log[i], base[i], Len(f)) = LastLogTerm(f)
<1>1. m \in Message /\ i \in Node
  BY MessageHas, SMTT(30) DEF TypeOK
<1>2. f \in Seq(Entry)
  BY <1>1 DEF Message
<1>3. /\ log[i] \in Seq(Entry) /\ base[i] \in Nat
      /\ C \in SUBSET Seq(Entry) /\ ChainsOK(C) /\ Rooted(log[i], C)
  BY <1>1, Zenon DEF TypeOK, ChainInv, LogsOK
<1>4. PICK s \in C : LastLogTerm(s) = m.term /\ StartsWith(s, f)
  BY Zenon DEF ChainInv, MsgsOK, Carries
<1>5. s \in Seq(Entry) /\ Rooted(s, C)
  BY <1>3, Zenon DEF ChainsOK
<1>6. base[i] < Len(f)
  BY <1>2, <1>3, LenProperties, SMTT(30)
<1>7. RetainSuffix(i, f) <=> keep
  BY DEF RetainSuffix
<1>8. /\ keep => StartsWith(log[i], f) /\ f \o SubSeq(log[i], Len(f) + 1, Len(log[i])) = log[i]
      /\ ~keep => ~StartsWith(log[i], f) /\ Moved(log[i], s, f)
  BY <1>2, <1>3, <1>4, <1>5, <1>6, InstallFollows, Zenon
<1>. HIDE DEF keep
<1>9. CASE keep
  <2>1. RetainSuffix(i, f) /\ StartsWith(log[i], f) /\ new = log[i]
    BY <1>7, <1>8, <1>9, Zenon
  <2>. QED  BY <1>3, <1>4, <2>1, Zenon DEF InstalledInto
<1>10. CASE ~keep
  <2>1. ~RetainSuffix(i, f) /\ ~StartsWith(log[i], f) /\ new = f /\ Moved(log[i], s, new)
    BY <1>7, <1>8, <1>10
  <2>. QED  BY <1>2, <1>4, <2>1, ZenonT(40) DEF InstalledInto
<1>. QED  BY <1>9, <1>10, Zenon

\* The chunk of a Snapshot.
LEMMA InstallSnapshotChain ==
  ASSUME TypeOK, NEW C, ChainInv(C), NEW m \in msgs, HandleInstallSnapshot(m)
  PROVE  ChainStep(m.to, C)
<1>. DEFINE i == m.to
            index == Len(m.state)
            new == IF RetainSuffix(i, m.state)
                     THEN m.state \o SubSeq(log[i], index + 1, Len(log[i]))
                     ELSE m.state
<1>1. m \in Message /\ i \in Node /\ m.term \in Nat /\ m.type = "InstallSnapshot"
  BY MessageHas, Zenon DEF TypeOK, HandleInstallSnapshot
<1>2. \E curTerm, success, a, b : Reply(m, {SnapshotResponse(m, curTerm, success, a, b)})
  BY Zenon DEF HandleInstallSnapshot
<1>3. SendStep
  BY <1>2, AnswerStep, Zenon
<1>4. UNCHANGED <<capture, ballots, elected>>
  BY Zenon DEF HandleInstallSnapshot, historyVars
<1>5. StoreStep
  <2>1. files' = [files EXCEPT ![i] = files[i] \cup {m.state}] \/ files' = [files EXCEPT ![i] = files[i]]
    BY Zenon DEF HandleInstallSnapshot
  <2>2. files \in [Node -> SUBSET Seq(Entry)]
    BY Zenon DEF TypeOK
  <2>3. /\ \A u \in Node : u # i => files'[u] = files[u]
        /\ files'[i] = files[i] \cup {m.state} \/ files'[i] = files[i]
    BY <1>1, <2>1, <2>2, Zenon
  <2>. QED  BY <1>1, <1>4, <2>3 DEF StoreStep
<1>6. NodeStep(i, C)
  <2>1. CASE UNCHANGED <<hardVars, electionVars, logVars>>
    <3>1. UNCHANGED <<term, role, log>>
      BY <2>1, Zenon DEF hardVars, electionVars, logVars
    <3>. QED  BY <1>1, <1>4, <3>1, StillStep, Zenon
  <2>2. CASE m.term >= term[i] /\ FollowLeader(i, m.term, m.from) /\ UNCHANGED logVars
    <3>1. log' = log
      BY <2>2, Zenon DEF logVars
    <3>2. term' = [term EXCEPT ![i] = m.term] /\ role' = [role EXCEPT ![i] = "Follower"]
      BY <1>1, <2>2, FollowLeaderTurns, Zenon
    <3>. QED  BY <1>1, <1>4, <2>2, <3>1, <3>2, FollowStep, Zenon
  <2>3. CASE /\ m.term >= term[i] /\ index > base[i]
             /\ FollowLeader(i, m.term, m.from) /\ log' = [log EXCEPT ![i] = new]
    <3>1. term' = [term EXCEPT ![i] = m.term] /\ role' = [role EXCEPT ![i] = "Follower"]
      BY <1>1, <2>3, FollowLeaderTurns, Zenon
    <3>2. PICK s \in C : InstalledInto(i, m, s, new)
      BY <1>1, <2>3, InstallIs, Zenon
    <3>. HIDE DEF new
    <3>3. LastLogTerm(s) = m.term /\ (new = log[i] \/ Moved(log[i], s, new))
      BY <3>2, Zenon DEF InstalledInto
    <3>5. log'[i] = new /\ \A u \in Node : u # i => log'[u] = log[u]
      BY <1>1, <2>3, Zenon DEF TypeOK
    <3>6. \/ log'[i] = log[i]
          \/ \E x \in C : LastLogTerm(x) = m.term /\ Moved(log[i], x, log'[i])
      BY <3>3, <3>5
    <3>. QED  BY <1>1, <1>4, <2>3, <3>1, <3>5, <3>6, FollowStep, Zenon
  <2>. QED  BY <2>1, <2>2, <2>3, Zenon DEF HandleInstallSnapshot
<1>. QED  BY <1>3, <1>4, <1>5, <1>6, BallotsKept, ZenonT(40) DEF ChainStep

\* So does a crash in the middle of a received Snapshot.
LEMMA CrashInInstallIs ==
  ASSUME TypeOK, NEW C, NEW m \in msgs, CrashInInstallSnapshot(m)
  PROVE  /\ m.type = "InstallSnapshot" /\ m.to \in Node
         /\ \E t : /\ RecoveringStep(m.to, t, log[m.to], C)
                   /\ Recover(m.to, t, VoteIn(m.to, t), log[m.to], files[m.to] \cup {m.state}, msgs \ {m})
<1>1. m \in Message /\ m.to \in Node /\ m.term \in Nat /\ m.type = "InstallSnapshot"
  BY MessageHas DEF TypeOK, CrashInInstallSnapshot
<1>2. term[m.to] \in Nat /\ log[m.to] \in Seq(Entry)
  BY <1>1, Zenon DEF TypeOK
<1>3. PICK t \in {term[m.to], m.term} :
         Recover(m.to, t, VoteIn(m.to, t), log[m.to], files[m.to] \cup {m.state}, msgs \ {m})
  BY Zenon DEF CrashInInstallSnapshot
<1>4. m.term >= term[m.to]
  BY Zenon DEF CrashInInstallSnapshot
<1>5. t \in Nat /\ t >= term[m.to]
  BY <1>1, <1>2, <1>4
<1>6. RecoveringStep(m.to, t, log[m.to], C)
  BY <1>2, <1>5, ZenonT(40) DEF RecoveringStep
<1>. QED  BY <1>1, <1>3, <1>6, Zenon

-----------------------------------------------------------------------------
(* Reads on a Follower *)

\* Such a step keeps what reads rely on.
LEMMA ReadyStays ==
  ASSUME ReadyOwnsCommit, NEW C, NEW v \in Node, ChainStep(v, C), ReadyStep(v)
  PROVE  ReadyOwnsCommit'
<1>1. \A u \in Node : u # v => term'[u] = term[u] /\ role'[u] = role[u] /\ log'[u] = log[u]
  BY Zenon DEF ChainStep, NodeStep
<1>. SUFFICES ASSUME NEW u \in Node, readReady'[u]
              PROVE  /\ role'[u] = "Leader"
                     /\ lastApplied'[u] = commitIndex'[u]
                     /\ commitIndex'[u] > 0
                     /\ commitIndex'[u] <= Len(log'[u])
                     /\ log'[u][commitIndex'[u]].term = term'[u]
  BY Zenon DEF ReadyOwnsCommit
<1>2. /\ readReady'[u] = readReady[u] /\ role'[u] = role[u] /\ term'[u] = term[u]
      /\ log'[u] = log[u] /\ commitIndex'[u] = commitIndex[u] /\ lastApplied'[u] = lastApplied[u]
  BY <1>1, Zenon DEF ReadyStep
<1>3. /\ role[u] = "Leader" /\ lastApplied[u] = commitIndex[u] /\ commitIndex[u] > 0
      /\ commitIndex[u] <= Len(log[u]) /\ log[u][commitIndex[u]].term = term[u]
  BY <1>2, Zenon DEF ReadyOwnsCommit
<1>. QED  BY <1>2, <1>3

\* The steps that take no read, or leave the Leader as it was.
LEMMA ReadyReceive ==
  ASSUME TypeOK, NEW m \in msgs, m.to \in Node,
         \/ HandlePreVoteRequest(m) \/ HandlePreVoteResponse(m) \/ HandleVoteRequest(m)
         \/ HandleAppendEntries(m) \/ StepDown(m, m.term) \/ HandleInstallSnapshot(m) \/ HandleInstallSnapshotResponse(m)
         \/ CrashInAppendEntries(m) \/ CrashInInstallSnapshot(m)
  PROVE  ReadyStep(m.to)
<1>. DEFINE i == m.to
<1>0. readReady \in [Node -> BOOLEAN] /\ commitIndex \in [Node -> Nat] /\ lastApplied \in [Node -> Nat]
  BY Zenon DEF TypeOK
<1>1. CASE UNCHANGED <<readReady, role, term, log, commitIndex, lastApplied>>
  BY <1>1, Zenon DEF ReadyStep
<1>2. CASE readReady' = [readReady EXCEPT ![i] = FALSE] /\ UNCHANGED <<commitIndex, lastApplied>>
  BY <1>0, <1>2, Zenon DEF ReadyStep
<1>3. CASE /\ readReady' = [readReady EXCEPT ![i] = FALSE]
           /\ \E a, b : commitIndex' = [commitIndex EXCEPT ![i] = a] /\ lastApplied' = [lastApplied EXCEPT ![i] = b]
  BY <1>0, <1>3, Zenon DEF ReadyStep
<1>4. \A t, l : BecomeFollower(i, t, l) => readReady' = [readReady EXCEPT ![i] = FALSE]
  BY Zenon DEF BecomeFollower, BecomeFollowerWith
<1>5. \A t, l : FollowLeader(i, t, l) => readReady' = [readReady EXCEPT ![i] = FALSE]
  BY <1>4, Zenon DEF FollowLeader
<1>6. \A t : StepDown(m, t) => readReady' = [readReady EXCEPT ![i] = FALSE] /\ UNCHANGED <<commitIndex, lastApplied>>
  BY <1>4, Zenon DEF StepDown, logVars
<1>7. ASSUME NEW t, NEW vote, NEW entries, NEW disk, Recover(i, t, vote, entries, disk, msgs \ {m})
      PROVE  ReadyStep(i)
  <2>1. /\ readReady' = [readReady EXCEPT ![i] = FALSE]
        /\ commitIndex' = commitIndex /\ lastApplied' = [lastApplied EXCEPT ![i] = commitIndex[i]]
    BY <1>7, Zenon DEF Recover, BecomeFollowerWith
  <2>. QED  BY <1>0, <2>1, Zenon DEF ReadyStep
<1>8. CASE HandlePreVoteRequest(m)
  <2>1. UNCHANGED <<readReady, role, term, log, commitIndex, lastApplied>>
    BY <1>8, Zenon DEF HandlePreVoteRequest, hardVars, electionVars, leaderVars, logVars
  <2>. QED  BY <1>1, <2>1, Zenon
<1>9. CASE HandlePreVoteResponse(m)
  <2>1. \/ readReady' = [readReady EXCEPT ![i] = FALSE] /\ UNCHANGED <<commitIndex, lastApplied>>
        \/ UNCHANGED <<readReady, role, term, log, commitIndex, lastApplied>>
    BY <1>6, <1>9, Zenon DEF HandlePreVoteResponse, StartElection, hardVars, logVars
  <2>. QED  BY <1>1, <1>2, <2>1, Zenon
<1>10. CASE HandleVoteRequest(m)
  <2>1. \/ readReady' = [readReady EXCEPT ![i] = FALSE] /\ UNCHANGED <<commitIndex, lastApplied>>
        \/ UNCHANGED <<readReady, role, term, log, commitIndex, lastApplied>>
    BY <1>4, <1>10, Zenon DEF HandleVoteRequest, electionVars, leaderVars, logVars
  <2>. QED  BY <1>1, <1>2, <2>1, Zenon
<1>12. CASE HandleAppendEntries(m)
  <2>1. \/ UNCHANGED <<readReady, role, term, log, commitIndex, lastApplied>>
        \/ readReady' = [readReady EXCEPT ![i] = FALSE] /\ UNCHANGED <<commitIndex, lastApplied>>
        \/ /\ readReady' = [readReady EXCEPT ![i] = FALSE]
           /\ \E a, b : commitIndex' = [commitIndex EXCEPT ![i] = a] /\ lastApplied' = [lastApplied EXCEPT ![i] = b]
    BY <1>5, <1>12, Zenon DEF HandleAppendEntries, hardVars, electionVars, leaderVars, logVars
  <2>. QED  BY <1>1, <1>2, <1>3, <2>1, Zenon
<1>13. CASE HandleInstallSnapshot(m)
  <2>1. \/ UNCHANGED <<readReady, role, term, log, commitIndex, lastApplied>>
        \/ readReady' = [readReady EXCEPT ![i] = FALSE] /\ UNCHANGED <<commitIndex, lastApplied>>
        \/ /\ readReady' = [readReady EXCEPT ![i] = FALSE]
           /\ \E a, b : commitIndex' = [commitIndex EXCEPT ![i] = a] /\ lastApplied' = [lastApplied EXCEPT ![i] = b]
    BY <1>5, <1>13, Zenon DEF HandleInstallSnapshot, hardVars, electionVars, leaderVars, logVars
  <2>. QED  BY <1>1, <1>2, <1>3, <2>1, Zenon
<1>14. CASE HandleInstallSnapshotResponse(m)
  <2>1. \/ readReady' = [readReady EXCEPT ![i] = FALSE] /\ UNCHANGED <<commitIndex, lastApplied>>
        \/ UNCHANGED <<readReady, role, term, log, commitIndex, lastApplied>>
    BY <1>6, <1>14, Zenon DEF HandleInstallSnapshotResponse, hardVars, electionVars, logVars
  <2>. QED  BY <1>1, <1>2, <2>1, Zenon
<1>15. CASE CrashInAppendEntries(m)
  BY <1>7, <1>15, Zenon DEF CrashInAppendEntries
<1>16. CASE CrashInInstallSnapshot(m)
  BY <1>7, <1>16, Zenon DEF CrashInInstallSnapshot
<1>17. CASE StepDown(m, m.term)
  BY <1>2, <1>6, <1>17, Zenon
<1>. QED  BY <1>8, <1>9, <1>10, <1>12, <1>13, <1>14, <1>15, <1>16, <1>17, Zenon

-----------------------------------------------------------------------------
(* What a Leader sends *)

\* A chunk carries a prefix of the log.
LEMMA ChunkCarries ==
  ASSUME TypeOK, NEW i \in Node, NEW j, NEW request, NEW offset,
         NEW entries \in Seq(Entry), StartsWith(entries, log[i])
  PROVE  Carries(SnapshotChunk(i, j, request, offset), entries)
<1>. DEFINE m == SnapshotChunk(i, j, request, offset)
            n == Smaller(base[i], Len(log[i]))
<1>1. log[i] \in Seq(Entry) /\ base[i] \in Nat /\ Len(log[i]) \in Nat
  BY LenProperties DEF TypeOK
<1>2. n \in 0..Len(log[i])
  BY <1>1 DEF Smaller
<1>. HIDE DEF n
<1>3. SubSeq(log[i], 1, n) \in Seq(Entry) /\ StartsWith(log[i], SubSeq(log[i], 1, n))
  BY <1>1, <1>2, FirstEntries, Zenon
<1>4. StartsWith(entries, SubSeq(log[i], 1, n))
  BY <1>1, <1>3, StartsWithTrans, Zenon
<1>5. m.type = "InstallSnapshot" /\ m.state = SubSeq(log[i], 1, n)
  BY ZenonT(40) DEF SnapshotChunk, Prefix, n
<1>. HIDE DEF m
<1>6. Carries(m, entries)
  BY <1>4, <1>5 DEF Carries
<1>. QED  BY <1>6, Zenon DEF m

\* A batch is cut from the log, and is empty only at its end.
LEMMA BatchCut ==
  ASSUME NEW entries \in Seq(Entry), NEW next \in 1..(Len(entries) + 1)
  PROVE  /\ CutFrom(entries, next - 1, EntriesBatch(entries, next))
         /\ EntriesBatch(entries, next) = <<>> => next - 1 = Len(entries)
<1>. DEFINE n == Smaller(Len(entries), next + MaxBatch - 1)
            batch == EntriesBatch(entries, next)
<1>1. Len(entries) \in Nat /\ next \in Nat \ {0} /\ MaxBatch \in Nat \ {0}
  BY LenProperties, MaxBatchAssumption
<1>2. n \in Int /\ n <= Len(entries) /\ n >= next - 1 /\ (next <= Len(entries) => n >= next)
  BY <1>1 DEF Smaller
<1>3. batch = SubSeq(entries, next, n)
  BY DEF EntriesBatch
<1>. HIDE DEF n, batch
<1>4. /\ batch \in Seq(Entry)
      /\ Len(batch) = IF next <= n THEN n - next + 1 ELSE 0
      /\ \A k \in 1..(n - next + 1) : batch[k] = entries[next + k - 1]
  BY <1>1, <1>2, <1>3, SubSeqType, SMTT(30)
<1>5. Len(batch) = n - next + 1
  BY <1>1, <1>2, <1>4, SMTT(30)
<1>6. CutFrom(entries, next - 1, batch)
  BY <1>1, <1>2, <1>4, <1>5, SMTT(30) DEF CutFrom
<1>7. batch = <<>> => next - 1 = Len(entries)
  BY <1>1, <1>2, <1>5, EmptySeq, SMTT(30)
<1>. QED  BY <1>6, <1>7 DEF batch

\* What is sent to one peer.
LEMMA SendToSends ==
  ASSUME TypeOK, NEW i \in Node, NEW j, NEW p \in Progress, NEW entries \in Seq(Entry),
         StartsWith(entries, log[i]), NEW commit \in Nat, NEW read,
         NEW out, out = SendAppendEntriesTo(i, j, p, entries, commit, read)
  PROVE  /\ \A m \in out.sent : Sent(i, j, p, entries, commit, m)
         /\ ProgressKept(i, p, entries, out.progress)
<1>. DEFINE next == NextFor(p, entries)
            id   == p.requests + 1
            ae   == [type |-> "AppendEntries", from |-> i, to |-> j,
                     term |-> term[i], request |-> id, prevIndex |-> next - 1,
                     prevTerm |-> TermAt(entries, base[i], next - 1),
                     entries |-> EntriesBatch(entries, next),
                     commit |-> commit, read |-> read]
            is   == SnapshotChunk(i, j, id, 0)
<1>1. /\ p.next \in Nat /\ p.requests \in Nat /\ p.append \in Nat /\ p.snapshot \in Nat
      /\ p.match \in Nat /\ p.commit \in Nat
      /\ p = [match |-> p.match, next |-> p.next, append |-> p.append, commit |-> p.commit,
              snapshot |-> p.snapshot, requests |-> p.requests]
  BY SMTT(30) DEF Progress
<1>2. Len(entries) \in Nat /\ base[i] \in Nat
  BY LenProperties, SMTT(30) DEF TypeOK
<1>3. next \in 1..(Len(entries) + 1) /\ next \in Nat /\ next - 1 \in Nat
  BY <1>1, <1>2 DEF NextFor
<1>4. id \in Nat /\ id >= 1
  BY <1>1
<1>5. \/ out = [progress |-> p, sent |-> {}]
      \/ /\ next <= base[i]
         /\ out = [progress |-> [p EXCEPT !.snapshot = id, !.requests = id], sent |-> {is}]
      \/ /\ next > base[i]
         /\ out = [progress |-> [p EXCEPT !.append = id, !.commit = commit, !.requests = id],
                   sent |-> {ae}]
  BY <1>1, <1>2, <1>3, SMTT(30) DEF SendAppendEntriesTo, NextFor
<1>6. /\ is.from = i /\ is.to = j /\ is.term = term[i] /\ is.type = "InstallSnapshot"
      /\ is.state = Prefix(log[i], base[i]) /\ is.request = id
  BY DEF SnapshotChunk
<1>7. Carries(is, entries)
  BY ChunkCarries, Zenon
<1>8. next > base[i] => Carries(ae, entries)
  <2>. DEFINE batch == EntriesBatch(entries, next)
  <2>. HIDE DEF next, batch
  <2>1. CutFrom(entries, next - 1, batch) /\ (batch = <<>> => next - 1 = Len(entries))
    BY <1>3, BatchCut, ZenonT(40) DEF batch
  <2>2. next > base[i] => TermAt(entries, base[i], next - 1) =
                            IF next - 1 = 0 THEN 0 ELSE entries[next - 1].term
    BY <1>2, <1>3 DEF TermAt
  <2>3. /\ ae.type = "AppendEntries" /\ ae.prevIndex = next - 1 /\ ae.entries = batch
        /\ ae.prevTerm = TermAt(entries, base[i], next - 1)
    BY ZenonT(40) DEF batch
  <2>. HIDE DEF ae
  <2>. QED  BY <2>1, <2>2, <2>3 DEF Carries
<1>9. /\ ae.from = i /\ ae.to = j /\ ae.term = term[i] /\ ae.type = "AppendEntries"
      /\ ae.prevIndex + 1 = next /\ ae.commit = commit
  <2>. HIDE DEF next
  <2>. QED  BY <1>3, SMTT(30)
<1>. HIDE DEF ae, is, next
<1>10. Sent(i, j, p, entries, commit, is) \/ next > base[i]
  BY <1>2, <1>3, <1>4, <1>6, <1>7, SMTT(30) DEF Sent, next
<1>11. Sent(i, j, p, entries, commit, ae) \/ next <= base[i]
  BY <1>2, <1>3, <1>8, <1>9, SMTT(30) DEF Sent, next
<1>12. CASE out = [progress |-> p, sent |-> {}]
  BY <1>12 DEF ProgressKept
<1>13. CASE next <= base[i] /\ out = [progress |-> [p EXCEPT !.snapshot = id, !.requests = id], sent |-> {is}]
  <2>1. \A m \in out.sent : Sent(i, j, p, entries, commit, m)
    BY <1>2, <1>3, <1>10, <1>13, SMTT(30)
  <2>2. ProgressKept(i, p, entries, [p EXCEPT !.snapshot = id, !.requests = id])
    <3>1. [p EXCEPT !.snapshot = id, !.requests = id] \in Progress
      BY <1>4, Zenon DEF Progress
    <3>. QED  BY <1>1, <1>13, <3>1, SMTT(30) DEF ProgressKept, next
  <2>. QED  BY <1>13, <2>1, <2>2, SMTT(30)
<1>14. CASE /\ next > base[i]
            /\ out = [progress |-> [p EXCEPT !.append = id, !.commit = commit, !.requests = id],
                      sent |-> {ae}]
  <2>1. \A m \in out.sent : Sent(i, j, p, entries, commit, m)
    BY <1>2, <1>3, <1>11, <1>14, SMTT(30)
  <2>2. ProgressKept(i, p, entries, [p EXCEPT !.append = id, !.commit = commit, !.requests = id])
    <3>1. [p EXCEPT !.append = id, !.commit = commit, !.requests = id] \in Progress
      BY <1>4, Zenon DEF Progress
    <3>. QED  BY <1>1, <3>1 DEF ProgressKept
  <2>. QED  BY <1>14, <2>1, <2>2
<1>. QED  BY <1>5, <1>12, <1>13, <1>14, ZenonT(40)

\* What is sent to every peer.
LEMMA SendAllSends ==
  ASSUME TypeOK, NEW i \in Node, NEW prog \in [Node -> Progress], NEW entries \in Seq(Entry),
         StartsWith(entries, log[i]), NEW commit \in Nat, NEW read, NEW reads,
         NEW out, out = SendAppendEntries(i, prog, entries, commit, read, reads)
  PROVE  /\ \A m \in out.sent : \E j \in Node : Sent(i, j, prog[j], entries, commit, m)
         /\ \A j \in Node : ProgressKept(i, prog[j], entries, out.progress[j])
<1>. DEFINE rd(j) == IF read # 0 THEN read ELSE PendingReadFor(reads, j)
            one(j) == SendAppendEntriesTo(i, j, prog[j], entries, commit, rd(j))
            all == [j \in Peers(i) |-> one(j)]
<1>1. out = [progress |-> [j \in Node |-> IF j = i THEN prog[i] ELSE all[j].progress],
             sent |-> UNION {all[j].sent : j \in Peers(i)}]
  BY DEF SendAppendEntries
<1>2. ASSUME NEW j \in Peers(i)
      PROVE  /\ j \in Node /\ j # i
             /\ \A m \in all[j].sent : Sent(i, j, prog[j], entries, commit, m)
             /\ ProgressKept(i, prog[j], entries, all[j].progress)
  <2>1. j \in Node /\ j # i /\ prog[j] \in Progress /\ all[j] = one(j)
    BY DEF Peers
  <2>. HIDE DEF rd, all
  <2>2. /\ \A m \in one(j).sent : Sent(i, j, prog[j], entries, commit, m)
        /\ ProgressKept(i, prog[j], entries, one(j).progress)
    BY <2>1, SendToSends, Zenon
  <2>. QED  BY <2>1, <2>2, Zenon
<1>. DEFINE kept == [j \in Node |-> IF j = i THEN prog[i] ELSE all[j].progress]
            sent == UNION {all[j].sent : j \in Peers(i)}
<1>. HIDE DEF all, kept, sent
<1>0. out.progress = kept /\ out.sent = sent
  <2>1. out = [progress |-> kept, sent |-> sent]
    BY <1>1, Zenon DEF kept, sent
  <2>. QED  BY <2>1
<1>3. \A m \in out.sent : \E j \in Node : Sent(i, j, prog[j], entries, commit, m)
  <2>1. out.sent = UNION {all[j].sent : j \in Peers(i)}
    BY <1>0, Zenon DEF sent
  <2>. QED  BY <1>2, <2>1, Zenon
<1>4. ASSUME NEW j \in Node  PROVE ProgressKept(i, prog[j], entries, out.progress[j])
  <2>1. out.progress[j] = IF j = i THEN prog[i] ELSE all[j].progress
    BY <1>0, Zenon DEF kept
  <2>2. CASE j = i
    BY <2>1, <2>2 DEF ProgressKept
  <2>3. CASE j # i
    <3>1. j \in Peers(i)
      BY <2>3, SMTT(30) DEF Peers
    <3>. QED  BY <1>2, <2>1, <2>3, <3>1, Zenon
  <2>. QED  BY <2>2, <2>3, Zenon
<1>. QED  BY <1>3, <1>4, ZenonT(40)

\* A send that fails, or is only recorded, moves no index.
LEMMA FailedKeeps ==
  ASSUME NEW i, NEW p, NEW entries, NEW q, ProgressKept(i, p, entries, q), NEW lost
  PROVE  ProgressKept(i, p, entries, HandleAppendEntriesFailed(q, lost))
<1>. DEFINE failed(id) == \E m \in lost : m.request = id
            r == HandleAppendEntriesFailed(q, lost)
<1>1. /\ q \in Progress /\ q.match = p.match /\ q.next = p.next
      /\ q.snapshot = p.snapshot \/ NextFor(p, entries) <= base[i] \/ q.snapshot = 0
  BY DEF ProgressKept
<1>2. \E a, k \in Nat : \E s \in {0, q.snapshot} : r = [q EXCEPT !.append = a, !.commit = k, !.snapshot = s]
  <2>1. r = [q EXCEPT !.append   = IF failed(q.append) THEN 0 ELSE q.append,
                      !.commit   = IF failed(q.append) THEN 0 ELSE q.commit,
                      !.snapshot = IF failed(q.snapshot) THEN 0 ELSE q.snapshot]
    BY DEF HandleAppendEntriesFailed
  <2>. HIDE DEF failed, r
  <2>2. q.append \in Nat /\ q.commit \in Nat
    BY <1>1 DEF Progress
  <2>3. /\ (IF failed(q.append) THEN 0 ELSE q.append) \in Nat
        /\ (IF failed(q.append) THEN 0 ELSE q.commit) \in Nat
        /\ (IF failed(q.snapshot) THEN 0 ELSE q.snapshot) \in {0, q.snapshot}
    BY <2>2
  <2>. QED  BY <2>1, <2>3, Zenon
<1>. HIDE DEF r
<1>3. r \in Progress /\ r.match = q.match /\ r.next = q.next /\ r.snapshot \in {0, q.snapshot}
  <2>1. PICK a \in Nat, k \in Nat : \E s \in {0, q.snapshot} :
               r = [q EXCEPT !.append = a, !.commit = k, !.snapshot = s]
    BY <1>2, Zenon
  <2>2. PICK s \in {0, q.snapshot} : r = [q EXCEPT !.append = a, !.commit = k, !.snapshot = s]
    BY <2>1, Zenon
  <2>3. s \in Nat
    BY <1>1 DEF Progress
  <2>4. r \in Progress
    BY <1>1, <2>2, <2>3, Zenon DEF Progress
  <2>5. q = [match |-> q.match, next |-> q.next, append |-> q.append, commit |-> q.commit,
             snapshot |-> q.snapshot, requests |-> q.requests]
    BY <1>1 DEF Progress
  <2>. QED  BY <2>2, <2>4, <2>5
<1>. QED  BY <1>1, <1>3, SMTT(30) DEF ProgressKept, r

\* A Leader's sends, some of them in vain.
LEMMA SendFromSends ==
  ASSUME TypeOK, NEW i \in Node, NEW prog, NEW entries, NEW commit,
         NEW out, NEW inFlight, inFlight \subseteq msgs, SendFrom(i, out, inFlight),
         \A m \in out.sent : \E j \in Node : Sent(i, j, prog[j], entries, commit, m),
         \A j \in Node : ProgressKept(i, prog[j], entries, out.progress[j])
  PROVE  LeaderSends(i, prog, entries, commit)
<1>1. PICK failed :
        /\ msgs' = inFlight \cup out.sent
        /\ progress' = [progress EXCEPT ![i] = [j \in Node |->
             HandleAppendEntriesFailed(out.progress[j],
                                       {m \in out.sent : m.to = j /\ j \in failed})]]
  BY Zenon DEF SendFrom
<1>2. progress \in [Node -> [Node -> Progress]]
  BY Zenon DEF TypeOK
<1>3. /\ \A u \in Node : u # i => progress'[u] = progress[u]
      /\ progress'[i] = [j \in Node |-> HandleAppendEntriesFailed(out.progress[j],
                                          {m \in out.sent : m.to = j /\ j \in failed})]
  BY <1>1, <1>2, Zenon
<1>4. ASSUME NEW j \in Node  PROVE ProgressKept(i, prog[j], entries, progress'[i][j])
  <2>1. progress'[i][j] = HandleAppendEntriesFailed(out.progress[j],
                            {m \in out.sent : m.to = j /\ j \in failed})
    BY <1>3, Zenon
  <2>. QED  BY <2>1, FailedKeeps, Zenon
<1>5. \A m \in msgs' : m \in msgs \/ \E j \in Node : Sent(i, j, prog[j], entries, commit, m)
  BY <1>1, Zenon
<1>. QED  BY <1>3, <1>4, <1>5, Zenon DEF LeaderSends

\* Requests and Snapshots that Leader i sends from its new log are a step's sends.
LEMMA SendsStep ==
  ASSUME NEW i \in Node, NEW prog, NEW commit, LeaderSends(i, prog, log'[i], commit),
         role'[i] = "Leader", term'[i] = term[i]
  PROVE  SendStep
<1>2. ASSUME NEW m \in msgs', m \notin msgs
      PROVE  role'[m.from] = "Leader" /\ term'[m.from] = m.term /\ Carries(m, log'[m.from])
  <2>1. m.from = i /\ m.term = term[i] /\ Carries(m, log'[i])
    BY <1>2, Zenon DEF LeaderSends, Sent
  <2>. QED  BY <2>1
<1>. QED  BY <1>2, Zenon DEF SendStep

-----------------------------------------------------------------------------
(* Votes, proposals and responses *)

\* The progress a Leader keeps for a peer.
LEMMA ProgressHas ==
  ASSUME TypeOK, NEW i \in Node
  PROVE  progress[i] \in [Node -> Progress] /\ \A j \in Node : progress[i][j] \in Progress
<1>1. progress \in [Node -> [Node -> Progress]]
  BY Zenon DEF TypeOK
<1>. QED  BY <1>1, Zenon

\* A response of a higher term.
LEMMA StepDownChain ==
  ASSUME TypeOK, NEW C, NEW m \in msgs, NEW t \in Nat, StepDown(m, t)
  PROVE  ChainStep(m.to, C)
<1>1. m.to \in Node /\ term[m.to] \in Nat
  BY MessageHas DEF TypeOK
<1>2. /\ term' = [term EXCEPT ![m.to] = t] /\ role' = [role EXCEPT ![m.to] = "Follower"]
      /\ UNCHANGED <<log, elected, capture, files, ballots>> /\ Reply(m, {}) /\ t > term[m.to]
  BY Zenon DEF StepDown, BecomeFollower, BecomeFollowerWith, logVars, snapshotVars, historyVars
<1>3. NodeStep(m.to, C)
  <2>1. t >= term[m.to]
    BY <1>1, <1>2, SMTT(30)
  <2>. QED  BY <1>1, <1>2, <2>1, FollowStep, Zenon
<1>4. SendStep
  BY <1>2, ReplyStep
<1>. QED  BY <1>2, <1>3, <1>4, StoredKept, BallotsKept, ZenonT(40) DEF ChainStep

\* Pre-votes and votes.
LEMMA VotingChain ==
  ASSUME TypeOK, TypeOK', NEW C, NEW m \in msgs,
         HandlePreVoteRequest(m) \/ HandlePreVoteResponse(m) \/ HandleVoteRequest(m)
  PROVE  ChainStep(m.to, C)
<1>. DEFINE i == m.to
<1>1. m \in Message /\ i \in Node /\ term[i] \in Nat /\ m.term \in Nat
  BY MessageHas DEF TypeOK
<1>2. CASE HandlePreVoteRequest(m)
  <2>1. UNCHANGED <<term, role, log, elected, capture, files, ballots>>
    BY <1>2, Zenon DEF HandlePreVoteRequest, hardVars, electionVars, logVars, snapshotVars, historyVars
  <2>2. SendStep
    <3>1. PICK g : Reply(m, {[type |-> "PreVoteResponse", from |-> i, to |-> m.from,
                              term |-> m.term, currentTerm |-> term[i], granted |-> g]})
      BY <1>2, Zenon DEF HandlePreVoteRequest
    <3>. QED  BY <3>1, ReplyStep
  <2>. QED  BY <1>1, <2>1, <2>2, StillStep, StoredKept, BallotsKept, ZenonT(40) DEF ChainStep
<1>3. CASE HandlePreVoteResponse(m)
  <2>0. m.currentTerm \in Nat
    BY <1>1, <1>3, Zenon DEF HandlePreVoteResponse, Message
  <2>1. CASE StepDown(m, m.currentTerm)
    BY <2>0, <2>1, StepDownChain, ZenonT(40)
  <2>2. CASE Reply(m, {}) /\ UNCHANGED <<hardVars, role, ballots>> /\ UNCHANGED <<logVars, snapshotVars, elected>>
    <3>1. UNCHANGED <<term, role, log, elected, capture, files, ballots>>
      BY <2>2, Zenon DEF hardVars, logVars, snapshotVars
    <3>2. SendStep
      BY <2>2, ReplyStep
    <3>. QED  BY <1>1, <3>1, <3>2, StillStep, StoredKept, BallotsKept, Zenon DEF ChainStep
  <2>3. CASE StartElection(m) /\ UNCHANGED <<logVars, snapshotVars, elected>>
    <3>1. /\ UNCHANGED <<log, elected, capture, files>>
          /\ role' = [role EXCEPT ![i] = "Candidate"]
          /\ term' = [term EXCEPT ![i] = term[i] + 1]
          /\ ballots' = ballots \cup {<<term[i] + 1, i, i>>}
          /\ Reply(m, VoteRequestTo(i, "VoteRequest", term[i] + 1))
      BY <2>3, Zenon DEF StartElection, logVars, snapshotVars
    <3>2. NodeStep(i, C)
      <4>1. /\ \A u \in Node : u # i => term'[u] = term[u] /\ role'[u] = role[u]
            /\ term'[i] = term[i] + 1 /\ role'[i] = "Candidate"
        BY <1>1, <3>1, Zenon DEF TypeOK
      <4>2. term[i] + 1 >= term[i]
        BY <1>1, Successor, Above, Zenon
      <4>3. log' = log /\ elected' = elected /\ "Candidate" # "Leader"
        BY <3>1, Zenon
      <4>. QED  BY <4>1, <4>2, <4>3, Zenon DEF NodeStep
    <3>3. SendStep
      <4>1. \A x \in VoteRequestTo(i, "VoteRequest", term[i] + 1) : x.type = "VoteRequest"
        BY VoteRequestTypes, Zenon
      <4>. QED  BY <3>1, <4>1, ReplyStep, Zenon
    <3>4. BallotStep
      BY <1>1, <3>1 DEF BallotStep
    <3>. QED  BY <3>1, <3>2, <3>3, <3>4, StoredKept, Zenon DEF ChainStep
  <2>. QED  BY <1>3, <2>1, <2>2, <2>3, Zenon DEF HandlePreVoteResponse
<1>4. CASE HandleVoteRequest(m)
  <2>1. /\ UNCHANGED <<log, elected, capture, files>>
        /\ \/ m.term > term[i] /\ term' = [term EXCEPT ![i] = m.term] /\ role' = [role EXCEPT ![i] = "Follower"]
           \/ UNCHANGED <<term, role>>
    BY <1>4, Zenon DEF HandleVoteRequest, BecomeFollower, BecomeFollowerWith, electionVars,
         logVars, snapshotVars
  <2>2. \E g : Reply(m, {[type |-> "VoteResponse", from |-> i, to |-> m.from,
                          term |-> Larger(term[i], m.term), granted |-> g]})
    BY <1>4, Zenon DEF HandleVoteRequest
  <2>3. ballots' = ballots \/ (ballots' = ballots \cup {<<m.term, i, m.from>>} /\ m.term >= term[i])
    BY <1>4, Zenon DEF HandleVoteRequest
  <2>4. NodeStep(i, C)
    <3>1. CASE m.term > term[i] /\ term' = [term EXCEPT ![i] = m.term] /\ role' = [role EXCEPT ![i] = "Follower"]
      <4>1. m.term >= term[i]
        BY <1>1, <3>1
      <4>. QED  BY <1>1, <2>1, <3>1, <4>1, FollowStep, Zenon
    <3>2. CASE UNCHANGED <<term, role>>
      BY <1>1, <2>1, <3>2, StillStep, ZenonT(40)
    <3>. QED  BY <2>1, <3>1, <3>2
  <2>5. SendStep
    <3>1. PICK g : Reply(m, {[type |-> "VoteResponse", from |-> i, to |-> m.from,
                              term |-> Larger(term[i], m.term), granted |-> g]})
      BY <2>2, Zenon
    <3>. QED  BY <3>1, ReplyStep
  <2>6. BallotStep
    <3>1. <<m.term, i, m.from>>[1] = m.term /\ <<m.term, i, m.from>>[2] = i
      BY Zenon
    <3>. QED  BY <2>3, <3>1, Zenon DEF BallotStep
  <2>. QED  BY <2>1, <2>4, <2>5, <2>6, StoredKept, Zenon DEF ChainStep
<1>. QED  BY <1>2, <1>3, <1>4, ZenonT(40)

\* A Leader that appends an entry of its term to its log and sends.
LEMMA AppendingStep ==
  ASSUME TypeOK, NEW C, NEW i \in Node, NEW e \in Entry, e.term = term[i],
         role'[i] = "Leader", \A u \in Node : u # i => role'[u] = role[u], term' = term,
         log' = [log EXCEPT ![i] = Append(log[i], e)],
         \/ role[i] = "Leader" /\ elected' = elected
         \/ role[i] = "Candidate" /\ elected' = elected \cup {<<term[i], i>>}
  PROVE  NodeStep(i, C)
<1>1. log \in [Node -> Seq(Entry)] /\ term[i] \in Nat
  BY Zenon DEF TypeOK
<1>2. log'[i] = Append(log[i], e) /\ \A u \in Node : u # i => log'[u] = log[u]
  BY <1>1, Zenon
<1>3. AppendsOwn(i)
  BY <1>2, Zenon DEF AppendsOwn
<1>. QED  BY <1>1, <1>2, <1>3, SMTT(30) DEF NodeStep

\* It is typed, and holds nothing of its peers.
LEMMA FreshProgressIs ==
  ASSUME TypeOK, NEW i \in Node
  PROVE  /\ FreshProgress(i) \in [Node -> Progress]
         /\ \A j \in Node : /\ FreshProgress(i)[j].match = 0
                            /\ FreshProgress(i)[j].next = Len(log[i]) + 2
                            /\ FreshProgress(i)[j].snapshot = 0
<1>. DEFINE n == Len(Append(log[i], [term |-> term[i], cmd |-> NoOp])) + 1
            fresh(j) == [ForgetProgress(i)[j] EXCEPT !.next = n]
<1>1. n = Len(log[i]) + 2 /\ n \in Nat
  <2>1. log[i] \in Seq(Entry) /\ [term |-> term[i], cmd |-> NoOp] \in Entry
    BY Zenon DEF TypeOK, Entry
  <2>2. Len(log[i]) \in Nat /\ Len(Append(log[i], [term |-> term[i], cmd |-> NoOp])) = Len(log[i]) + 1
    BY <2>1, AppendProperties, LenProperties, SMTT(30)
  <2>. QED  BY <2>2
<1>. HIDE DEF n
<1>2. ASSUME NEW j \in Node
      PROVE  fresh(j) \in Progress /\ fresh(j).match = 0 /\ fresh(j).next = n /\ fresh(j).snapshot = 0
  <2>0. progress[i][j] \in Progress
    BY ProgressHas, Zenon
  <2>1. progress[i][j].requests \in Nat
    BY <2>0 DEF Progress
  <2>2. ForgetProgress(i)[j] = [match |-> 0, next |-> 0, append |-> 0, commit |-> 0,
                                snapshot |-> 0, requests |-> progress[i][j].requests]
    BY DEF ForgetProgress, NoProgress
  <2>. QED  BY <1>1, <2>1, <2>2, SMTT(30) DEF Progress
<1>3. FreshProgress(i) = [j \in Node |-> fresh(j)]
  BY DEF FreshProgress, n
<1>. HIDE DEF fresh
<1>. QED  BY <1>1, <1>2, <1>3, SMTT(30)

\* The first step of a Leader.
LEMMA BecomeLeaderIs ==
  ASSUME TypeOK, NEW m \in msgs, BecomeLeader(m), commitIndex' = commitIndex
  PROVE  LeaderSends(m.to, FreshProgress(m.to),
                     Append(log[m.to], [term |-> term[m.to], cmd |-> NoOp]), commitIndex[m.to])
<1>. DEFINE i == m.to
            e == [term |-> term[i], cmd |-> NoOp]
            entries == Append(log[i], e)
            out == SendAppendEntries(i, FreshProgress(i), entries, commitIndex[i], 0, pendingReads[i])
<1>1. m \in Message /\ i \in Node /\ term[i] \in Nat /\ log[i] \in Seq(Entry) /\ commitIndex[i] \in Nat
  BY MessageHas DEF TypeOK
<1>2. SendFrom(i, out, msgs \ {m})
  BY Zenon DEF BecomeLeader, FreshProgress
<1>3. e \in Entry
  BY <1>1, SMTT(30) DEF Entry
<1>4. entries \in Seq(Entry) /\ StartsWith(entries, log[i])
  BY <1>1, <1>3, AppendProperties, LenProperties, SMTT(30) DEF StartsWith
<1>5. FreshProgress(i) \in [Node -> Progress]
  BY <1>1, FreshProgressIs, Zenon
<1>. HIDE DEF entries
<1>6. /\ \A x \in out.sent : \E j \in Node : Sent(i, j, FreshProgress(i)[j], entries, commitIndex[i], x)
      /\ \A j \in Node : ProgressKept(i, FreshProgress(i)[j], entries, out.progress[j])
  BY <1>1, <1>4, <1>5, SendAllSends, Zenon
<1>. HIDE DEF out
<1>7. msgs \ {m} \subseteq msgs
  OBVIOUS
<1>8. LeaderSends(i, FreshProgress(i), entries, commitIndex[i])
  BY <1>1, <1>2, <1>6, <1>7, SendFromSends, Zenon
<1>. QED  BY <1>8, SMTT(30) DEF entries

\* Votes, and the first step of a Leader.
LEMMA VoteResponseChain ==
  ASSUME TypeOK, TypeOK', NEW C, NEW m \in msgs, HandleVoteResponse(m)
  PROVE  ChainStep(m.to, C)
<1>. DEFINE i == m.to
<1>1. m \in Message /\ i \in Node /\ term[i] \in Nat /\ m.term \in Nat /\ log[i] \in Seq(Entry)
  BY MessageHas DEF TypeOK
<1>2. CASE StepDown(m, m.term)
  BY <1>1, <1>2, StepDownChain, Zenon
<1>3. CASE Reply(m, {}) /\ UNCHANGED <<hardVars, role, log, elected, snapshotVars, ballots>>
  <2>1. UNCHANGED <<term, role, log, elected, capture, files, ballots>>
    BY <1>3, Zenon DEF hardVars, snapshotVars
  <2>2. SendStep
    BY <1>3, ReplyStep
  <2>. QED  BY <1>1, <2>1, <2>2, StillStep, StoredKept, BallotsKept, Zenon DEF ChainStep
<1>4. CASE /\ BecomeLeader(m) /\ role[i] = "Candidate"
           /\ UNCHANGED <<hardVars, snapshotVars, ballots, commitIndex>>
  <2>. DEFINE e == [term |-> term[i], cmd |-> NoOp]
              entries == Append(log[i], e)
  <2>1. /\ role' = [role EXCEPT ![i] = "Leader"]
        /\ log' = [log EXCEPT ![i] = entries]
        /\ elected' = elected \cup {<<term[i], i>>}
        /\ UNCHANGED <<term, capture, files, ballots>>
    BY <1>4, Zenon DEF BecomeLeader, hardVars, snapshotVars
  <2>2. e \in Entry /\ e.term = term[i]
    BY <1>1 DEF Entry
  <2>3. LeaderSends(i, FreshProgress(i), entries, commitIndex[i])
    BY <1>4, BecomeLeaderIs, Zenon
  <2>. HIDE DEF e, entries
  <2>6. role'[i] = "Leader" /\ log'[i] = entries /\ \A u \in Node : u # i => role'[u] = role[u]
    BY <1>1, <2>1, Zenon DEF TypeOK
  <2>7. NodeStep(i, C)
    BY <1>1, <1>4, <2>1, <2>2, <2>6, AppendingStep, ZenonT(40) DEF entries
  <2>8. SendStep
    <3>1. term'[i] = term[i]
      BY <2>1, Zenon
    <3>2. LeaderSends(i, FreshProgress(i), log'[i], commitIndex[i])
      BY <2>3, <2>6
    <3>. QED  BY <1>1, <2>6, <3>1, <3>2, SendsStep, ZenonT(40)
  <2>. QED  BY <2>1, <2>7, <2>8, StoredKept, BallotsKept, Zenon DEF ChainStep
<1>. QED  BY <1>2, <1>3, <1>4, ZenonT(40) DEF HandleVoteResponse

\* A Leader that only sends.
LEMMA LeaderSendsChain ==
  ASSUME TypeOK, NEW C, NEW i \in Node, role[i] = "Leader", NEW prog, NEW commit,
         UNCHANGED <<term, role, log, elected, capture, files, ballots>>,
         LeaderSends(i, prog, log[i], commit)
  PROVE  ChainStep(i, C)
<1>1. role'[i] = "Leader" /\ term'[i] = term[i] /\ log'[i] = log[i]
  BY SMTT(30)
<1>2. LeaderSends(i, prog, log'[i], commit)
  BY <1>1
<1>3. SendStep
  BY <1>1, <1>2, SendsStep, Zenon
<1>4. UNCHANGED <<term, role, log, elected>> /\ capture' = capture /\ files' = files /\ ballots' = ballots
  OBVIOUS
<1>. QED  BY <1>3, <1>4, StillStep, StoredKept, BallotsKept, ZenonT(40) DEF ChainStep

\* A log begins with itself.
LEMMA StartsWithItself ==
  ASSUME NEW s, Len(s) \in Nat
  PROVE  StartsWith(s, s)
BY DEF StartsWith

\* Sends to every peer.
LEMMA SendAllLeads ==
  ASSUME TypeOK, NEW i \in Node, NEW prog \in [Node -> Progress], NEW entries \in Seq(Entry),
         StartsWith(entries, log[i]), NEW commit \in Nat, NEW read, NEW reads,
         NEW inFlight, inFlight \subseteq msgs,
         SendFrom(i, SendAppendEntries(i, prog, entries, commit, read, reads), inFlight)
  PROVE  LeaderSends(i, prog, entries, commit)
<1>. DEFINE out == SendAppendEntries(i, prog, entries, commit, read, reads)
<1>1. /\ \A x \in out.sent : \E j \in Node : Sent(i, j, prog[j], entries, commit, x)
      /\ \A j \in Node : ProgressKept(i, prog[j], entries, out.progress[j])
  BY SendAllSends, Zenon
<1>2. SendFrom(i, out, inFlight)
  OBVIOUS
<1>. HIDE DEF out
<1>. QED  BY <1>1, <1>2, SendFromSends, Zenon

\* Proposals, reads and heartbeats.
LEMMA LeadingIs ==
  ASSUME TypeOK, NEW i \in Node
  PROVE  /\ \A cmd : Propose(i, cmd) =>
              LeaderSends(i, progress[i], Append(log[i], [term |-> term[i], cmd |-> cmd]), commitIndex[i])
              \/ cmd \notin Command
         /\ ConfirmRead(i) => LeaderSends(i, progress[i], log[i], commitIndex[i])
         /\ HeartbeatRound(i) => LeaderSends(i, IdleProgress(i), log[i], commitIndex[i])
<1>1. log[i] \in Seq(Entry) /\ commitIndex[i] \in Nat /\ term[i] \in Nat
  BY DEF TypeOK
<1>2. progress[i] \in [Node -> Progress] /\ StartsWith(log[i], log[i]) /\ msgs \subseteq msgs
  BY <1>1, ProgressHas, StartsWithItself, LenProperties, ZenonT(40)
<1>3. ASSUME NEW cmd \in Command, Propose(i, cmd)
      PROVE  LeaderSends(i, progress[i], Append(log[i], [term |-> term[i], cmd |-> cmd]), commitIndex[i])
  <2>. DEFINE e == [term |-> term[i], cmd |-> cmd]
              entries == Append(log[i], e)
  <2>1. e \in Entry
    BY <1>1, Zenon DEF Entry
  <2>2. entries \in Seq(Entry) /\ StartsWith(entries, log[i])
    BY <1>1, <2>1, AppendProperties, LenProperties, SMTT(30) DEF StartsWith
  <2>3. SendFrom(i, SendAppendEntries(i, progress[i], entries, commitIndex[i], 0, pendingReads[i]), msgs)
    BY <1>3, Zenon DEF Propose
  <2>. HIDE DEF entries
  <2>4. LeaderSends(i, progress[i], entries, commitIndex[i])
    BY <1>1, <1>2, <2>2, <2>3, SendAllLeads, Zenon
  <2>. QED  BY <2>4 DEF entries
<1>4. ASSUME ConfirmRead(i)  PROVE LeaderSends(i, progress[i], log[i], commitIndex[i])
  <2>1. PICK r, reads :
          SendFrom(i, SendAppendEntries(i, progress[i], log[i], commitIndex[i], r, reads), msgs)
    BY <1>4, Zenon DEF ConfirmRead
  <2>. QED  BY <1>1, <1>2, <2>1, SendAllLeads, Zenon
<1>5. ASSUME HeartbeatRound(i)  PROVE LeaderSends(i, IdleProgress(i), log[i], commitIndex[i])
  <2>1. SendFrom(i, SendAppendEntries(i, IdleProgress(i), log[i], commitIndex[i], 0, pendingReads[i]), msgs)
    BY <1>5, Zenon DEF HeartbeatRound, IdleProgress
  <2>2. ASSUME NEW j \in Node  PROVE [progress[i][j] EXCEPT !.append = 0, !.commit = 0] \in Progress
    BY ProgressHas, Zenon DEF Progress
  <2>3. IdleProgress(i) \in [Node -> Progress]
    BY <2>2, Zenon DEF IdleProgress
  <2>. QED  BY <1>1, <1>2, <2>1, <2>3, SendAllLeads, Zenon
<1>. QED  BY <1>3, <1>4, <1>5, ZenonT(40)

\* Steps of a Node that no message triggers.
LEMMA LocalChain ==
  ASSUME TypeOK, TypeOK', NEW C, NEW i \in Node,
         \/ StartPreVote(i) \/ CheckQuorum(i) \/ ConfirmRead(i) \/ HeartbeatRound(i)
         \/ StartSnapshot(i) \/ SaveSnapshot(i) \/ FinishSnapshot(i)
         \/ \E cmd \in Command : Propose(i, cmd)
  PROVE  ChainStep(i, C)
<1>1. log[i] \in Seq(Entry) /\ commitIndex[i] \in Nat /\ term[i] \in Nat
  BY DEF TypeOK
<1>2. CASE StartPreVote(i)
  <2>1. /\ role' = [role EXCEPT ![i] = "PreCandidate"]
        /\ Send(VoteRequestTo(i, "PreVoteRequest", term[i] + 1))
        /\ UNCHANGED <<term, log, elected, capture, files, ballots>>
    BY <1>2, ZenonT(40) DEF StartPreVote, hardVars, logVars, snapshotVars
  <2>2. NodeStep(i, C)
    <3>1. role'[i] = "PreCandidate" /\ \A u \in Node : u # i => role'[u] = role[u]
      BY <2>1, ZenonT(40) DEF TypeOK
    <3>2. term' = term /\ log' = log /\ elected' = elected
      BY <2>1, ZenonT(40)
    <3>3. term[i] >= term[i]
      BY <1>1, NotAboveItself, Zenon
    <3>4. role'[i] # "Candidate" /\ role'[i] # "Leader"
      BY <3>1, Zenon
    <3>. QED  BY <3>1, <3>2, <3>3, <3>4, Zenon DEF NodeStep
  <2>3. SendStep
    <3>1. \A x \in VoteRequestTo(i, "PreVoteRequest", term[i] + 1) : x.type = "PreVoteRequest"
      BY VoteRequestTypes, Zenon
    <3>. QED  BY <2>1, <3>1, ZenonT(40) DEF Send, SendStep
  <2>. QED  BY <2>1, <2>2, <2>3, StoredKept, BallotsKept, Zenon DEF ChainStep
<1>3. CASE CheckQuorum(i)
  <2>1. UNCHANGED <<msgs, log, elected, capture, files, ballots>>
    BY <1>3, Zenon DEF CheckQuorum, logVars, snapshotVars
  <2>2. \/ UNCHANGED <<term, role>>
        \/ term' = [term EXCEPT ![i] = term[i]] /\ role' = [role EXCEPT ![i] = "Follower"]
    BY <1>3, Zenon DEF CheckQuorum, BecomeFollower, BecomeFollowerWith, electionVars
  <2>3. NodeStep(i, C)
    <3>1. CASE UNCHANGED <<term, role>>
      BY <2>1, <3>1, StillStep, Zenon
    <3>2. CASE term' = [term EXCEPT ![i] = term[i]] /\ role' = [role EXCEPT ![i] = "Follower"]
      <4>1. term[i] >= term[i]
        BY <1>1, NotAboveItself, Zenon
      <4>. QED  BY <1>1, <2>1, <3>2, <4>1, FollowStep, ZenonT(40)
    <3>. QED  BY <2>2, <3>1, <3>2, Zenon
  <2>4. SendStep
    BY <2>1, Zenon DEF SendStep
  <2>. QED  BY <2>1, <2>3, <2>4, StoredKept, BallotsKept, Zenon DEF ChainStep
<1>4. CASE ConfirmRead(i)
  <2>1. role[i] = "Leader" /\ UNCHANGED <<term, role, log, elected, capture, files, ballots>>
    BY <1>4, Zenon DEF ConfirmRead, hardVars, electionVars, logVars, snapshotVars
  <2>. QED  BY <1>4, <2>1, LeadingIs, LeaderSendsChain, Zenon
<1>5. CASE HeartbeatRound(i)
  <2>1. role[i] = "Leader" /\ UNCHANGED <<term, role, log, elected, capture, files, ballots>>
    BY <1>5, Zenon DEF HeartbeatRound, hardVars, electionVars, logVars, snapshotVars
  <2>. QED  BY <1>5, <2>1, LeadingIs, LeaderSendsChain, Zenon
<1>6. CASE StartSnapshot(i) \/ SaveSnapshot(i) \/ FinishSnapshot(i)
  <2>1. UNCHANGED <<msgs, term, role, log, elected, ballots>>
    BY <1>6, Zenon DEF StartSnapshot, SaveSnapshot, FinishSnapshot, hardVars, electionVars, logVars, historyVars
  <2>2. capture \in [Node -> Seq(Entry)] /\ files \in [Node -> SUBSET Seq(Entry)] /\ lastApplied[i] \in Nat
    BY Zenon DEF TypeOK
  <2>3. StoreStep
    <3>1. CASE StartSnapshot(i)
      <4>1. capture' = [capture EXCEPT ![i] = Prefix(log[i], lastApplied[i])] /\ files' = files
        BY <3>1, Zenon DEF StartSnapshot
      <4>2. StartsWith(log[i], Prefix(log[i], lastApplied[i]))
        <5>1. Smaller(lastApplied[i], Len(log[i])) \in 0..Len(log[i])
          BY <1>1, <2>2, LenProperties, SmallerInRange, Zenon
        <5>. QED  BY <1>1, <5>1, FirstEntries, Zenon DEF Prefix
      <4>3. /\ \A u \in Node : u # i => capture'[u] = capture[u]
            /\ capture'[i] = Prefix(log[i], lastApplied[i])
        BY <2>2, <4>1, Zenon
      <4>. QED  BY <4>1, <4>2, <4>3, Zenon DEF StoreStep
    <3>2. CASE SaveSnapshot(i)
      <4>1. files' = [files EXCEPT ![i] = files[i] \cup {capture[i]}] /\ capture' = capture
        BY <3>2, Zenon DEF SaveSnapshot
      <4>2. /\ \A u \in Node : u # i => files'[u] = files[u]
            /\ files'[i] = files[i] \cup {capture[i]}
        BY <2>2, <4>1, ZenonT(40)
      <4>. QED  BY <4>1, <4>2, Zenon DEF StoreStep
    <3>3. CASE FinishSnapshot(i)
      <4>1. capture' = [capture EXCEPT ![i] = <<>>] /\ files' = files
        BY <3>3, Zenon DEF FinishSnapshot
      <4>2. capture'[i] = <<>> /\ \A u \in Node : u # i => capture'[u] = capture[u]
        BY <2>2, <4>1, ZenonT(40)
      <4>. QED  BY <4>1, <4>2, Zenon DEF StoreStep
    <3>. QED  BY <1>6, <3>1, <3>2, <3>3, Zenon
  <2>4. SendStep
    BY <2>1 DEF SendStep
  <2>. QED  BY <2>1, <2>3, <2>4, StillStep, BallotsKept, Zenon DEF ChainStep
<1>7. ASSUME NEW cmd \in Command, Propose(i, cmd)  PROVE ChainStep(i, C)
  <2>. DEFINE e == [term |-> term[i], cmd |-> cmd]
              entries == Append(log[i], e)
  <2>1. /\ role[i] = "Leader"
        /\ log' = [log EXCEPT ![i] = entries]
        /\ UNCHANGED <<term, role, elected, capture, files, ballots>>
    BY <1>7, ZenonT(40) DEF Propose, hardVars, electionVars, snapshotVars
  <2>2. e \in Entry /\ e.term = term[i]
    BY <1>1, Zenon DEF Entry
  <2>3. LeaderSends(i, progress[i], entries, commitIndex[i])
    BY <1>7, LeadingIs, Zenon
  <2>. HIDE DEF e, entries
  <2>4. role'[i] = "Leader" /\ term'[i] = term[i] /\ log'[i] = entries /\ \A u \in Node : u # i => role'[u] = role[u]
    BY <2>1, Zenon DEF TypeOK
  <2>5. NodeStep(i, C)
    BY <2>1, <2>2, <2>4, AppendingStep, Zenon DEF entries
  <2>6. SendStep
    <3>1. LeaderSends(i, progress[i], log'[i], commitIndex[i])
      BY <2>3, <2>4, Zenon
    <3>. QED  BY <2>4, <3>1, SendsStep, ZenonT(40)
  <2>. QED  BY <2>1, <2>5, <2>6, StoredKept, BallotsKept, Zenon DEF ChainStep
<1>. QED  BY <1>2, <1>3, <1>4, <1>5, <1>6, <1>7, ZenonT(40)

\* The progress of the peer that answered, and of the others.
LEMMA ResponseProgressIs ==
  ASSUME LeastElements, TypeOK, NEW m \in msgs, m.type = "AppendEntriesResponse"
  PROVE  /\ ResponseProgress(m) \in [Node -> Progress]
         /\ ResponseMatch(m) \in Nat /\ ResponseNext(m) \in Nat
         /\ \A u \in Node : u # m.from => ResponseProgress(m)[u] = progress[m.to][u]
         /\ ResponseProgress(m)[m.from].match = ResponseMatch(m)
         /\ ResponseProgress(m)[m.from].next = ResponseNext(m)
         /\ ResponseProgress(m)[m.from].snapshot = progress[m.to][m.from].snapshot
<1>. DEFINE i == m.to
            j == m.from
            p == progress[i][j]
            idle == [p EXCEPT !.append = 0, !.commit = 0, !.match = ResponseMatch(m), !.next = ResponseNext(m)]
<1>1. m \in Message /\ i \in Node /\ j \in Node
  BY MessageHas, ZenonT(40) DEF TypeOK
<1>2. m.match \in Nat /\ m.conflictTerm \in Nat /\ m.conflictIndex \in Nat
  BY <1>1 DEF Message
<1>3. log[i] \in Seq(Entry) /\ base[i] \in Nat
  BY <1>1, Zenon DEF TypeOK
<1>4. progress[i] \in [Node -> Progress] /\ p \in Progress
  BY <1>1, ProgressHas, Zenon
<1>5. ResponseMatch(m) \in Nat
  <2>1. p.match \in Nat
    BY <1>4 DEF Progress
  <2>. HIDE DEF p
  <2>. QED  BY <1>2, <2>1, ZenonT(40) DEF ResponseMatch, Larger, p
<1>6. ResponseNext(m) \in Nat
  <2>1. NextIndexFromConflict(log[i], base[i], m.conflictTerm, m.conflictIndex) \in 1..(Len(log[i]) + 1)
    BY <1>2, <1>3, NextIndexFromConflictType, ZenonT(40)
  <2>2. NextIndexFromConflict(log[i], base[i], m.conflictTerm, m.conflictIndex) \in Nat
    BY <1>3, <2>1, LenProperties, SMTT(30)
  <2>3. ResponseMatch(m) + 1 \in Nat
    BY <1>5
  <2>. QED  BY <2>2, <2>3, Zenon DEF ResponseNext
<1>. HIDE DEF p
<1>7. idle \in Progress
  BY <1>4, <1>5, <1>6, Zenon DEF Progress
<1>8. idle.match = ResponseMatch(m) /\ idle.next = ResponseNext(m) /\ idle.snapshot = p.snapshot
  <2>1. p = [match |-> p.match, next |-> p.next, append |-> p.append, commit |-> p.commit,
             snapshot |-> p.snapshot, requests |-> p.requests]
    BY <1>4 DEF Progress
  <2>. QED  BY <2>1, ZenonT(40)
<1>9. ResponseProgress(m) = [progress[i] EXCEPT ![j] = idle]
  BY DEF ResponseProgress, p
<1>. HIDE DEF idle
<1>10. /\ ResponseProgress(m) \in [Node -> Progress] /\ ResponseProgress(m)[j] = idle
       /\ \A u \in Node : u # j => ResponseProgress(m)[u] = progress[i][u]
  BY <1>1, <1>4, <1>7, <1>9, ZenonT(40)
<1>. QED  BY <1>5, <1>6, <1>8, <1>10, Zenon DEF p

\* A Leader counts a response, commits what it can and sends what is due.
LEMMA AppendResponseIs ==
  ASSUME LeastElements, TypeOK, NEW m \in msgs, HandleAppendEntriesResponse(m), ~StepDown(m, m.term)
  PROVE  /\ m.type = "AppendEntriesResponse" /\ m.to \in Node
         /\ role[m.to] = "Leader" /\ m.term = term[m.to]
         /\ progress[m.to][m.from].append \in {0, m.request}
         /\ commitIndex' = [commitIndex EXCEPT ![m.to] = LeaderCommit(m.to, ResponseProgress(m))]
         /\ LeaderSends(m.to, ResponseProgress(m), log[m.to], LeaderCommit(m.to, ResponseProgress(m)))
         /\ UNCHANGED <<hardVars, role, log, base, elected, capture, files, ballots>>
<1>. DEFINE i == m.to
            j == m.from
            p == progress[i][j]
            idle == [p EXCEPT !.append = 0, !.commit = 0, !.match = ResponseMatch(m), !.next = ResponseNext(m)]
            prog == ResponseProgress(m)
            commit == LeaderCommit(i, prog)
            read   == PendingReadFor(pendingReads[i], j)
            one    == SendAppendEntriesTo(i, j, idle, log[i], commitIndex[i], read)
            all    == SendAppendEntries(i, prog, log[i], commit, 0, pendingReads[i])
<1>1. /\ m.type = "AppendEntriesResponse" /\ role[i] = "Leader" /\ m.term = term[i]
      /\ p.append \in {0, m.request}
      /\ commitIndex' = [commitIndex EXCEPT ![i] = commit]
      /\ UNCHANGED <<hardVars, role, log, base, elected, capture, files, ballots>>
  BY Zenon DEF HandleAppendEntriesResponse, ResponseProgress, ResponseNext, ResponseMatch,
       electionVars, snapshotVars
<1>2. \E out : /\ SendFrom(i, out, msgs \ {m})
               /\ \/ commit > commitIndex[i] /\ out = all
                  \/ /\ ~(commit > commitIndex[i])
                     /\ \/ out = [progress |-> [prog EXCEPT ![j] = one.progress], sent |-> one.sent]
                        \/ out = [progress |-> prog, sent |-> {}]
  BY ZenonT(40) DEF HandleAppendEntriesResponse, ResponseProgress, ResponseNext, ResponseMatch
<1>3. m \in Message /\ i \in Node /\ j \in Node
  BY MessageHas DEF TypeOK
<1>4. log[i] \in Seq(Entry) /\ commitIndex[i] \in Nat /\ base[i] \in Nat
  BY <1>3, Zenon DEF TypeOK
<1>5. StartsWith(log[i], log[i]) /\ msgs \ {m} \subseteq msgs
  BY <1>4, StartsWithItself, LenProperties, Zenon
<1>6. prog \in [Node -> Progress] /\ prog[j] = idle
  <2>1. prog \in [Node -> Progress]
    BY <1>1, ResponseProgressIs, Zenon
  <2>2. progress[i] \in [Node -> Progress]
    BY <1>3, ProgressHas, Zenon
  <2>. HIDE DEF p
  <2>3. prog[j] = idle
    BY <1>3, <2>2, Zenon DEF ResponseProgress, p
  <2>. QED  BY <2>1, <2>3, SMTT(30)
<1>. HIDE DEF prog, idle
<1>7. commit \in Nat /\ (~(commit > commitIndex[i]) => commit = commitIndex[i])
  <2>1. \/ commit = commitIndex[i]
        \/ commit \in (commitIndex[i] + 1)..Len(log[i])
    BY <1>3, LeaderCommitIs, ZenonT(40)
  <2>. HIDE DEF commit
  <2>2. Len(log[i]) \in Nat
    BY <1>4, LenProperties, ZenonT(40)
  <2>. QED  BY <1>4, <2>1, <2>2, StaysOrRises, InRange, Zenon
<1>. HIDE DEF commit, read
<1>8. PICK out : /\ SendFrom(i, out, msgs \ {m})
                 /\ \/ commit > commitIndex[i] /\ out = all
                    \/ /\ ~(commit > commitIndex[i])
                       /\ \/ out = [progress |-> [prog EXCEPT ![j] = one.progress], sent |-> one.sent]
                          \/ out = [progress |-> prog, sent |-> {}]
  BY <1>2 DEF prog, commit, idle, read
<1>9. LeaderSends(i, prog, log[i], commit)
  <2>1. CASE out = all
    BY <1>3, <1>4, <1>5, <1>6, <1>7, <1>8, <2>1, SendAllLeads, ZenonT(40)
  <2>2. \A u \in Node : ProgressKept(i, prog[u], log[i], prog[u])
    BY <1>6, Zenon DEF ProgressKept
  <2>3. CASE out = [progress |-> prog, sent |-> {}] /\ commit = commitIndex[i]
    <3>1. out.progress = prog /\ out.sent = {}
      BY <2>3, Zenon
    <3>. QED  BY <1>3, <1>5, <1>8, <2>2, <3>1, SendFromSends, ZenonT(40)
  <2>4. CASE out = [progress |-> [prog EXCEPT ![j] = one.progress], sent |-> one.sent] /\ commit = commitIndex[i]
    <3>1. /\ \A x \in one.sent : Sent(i, j, idle, log[i], commitIndex[i], x)
          /\ ProgressKept(i, idle, log[i], one.progress)
      <4>1. idle \in Progress
        BY <1>3, <1>6, Zenon
      <4>. QED  BY <1>3, <1>4, <1>5, <4>1, SendToSends, Zenon
    <3>. HIDE DEF one
    <3>2. out.progress = [prog EXCEPT ![j] = one.progress] /\ out.sent = one.sent
      BY <2>4, ZenonT(40)
    <3>3. \A u \in Node : ProgressKept(i, prog[u], log[i], out.progress[u])
      <4>1. out.progress[j] = one.progress /\ \A u \in Node : u # j => out.progress[u] = prog[u]
        BY <1>3, <1>6, <3>2, Zenon
      <4>. QED  BY <1>6, <2>2, <3>1, <4>1, SMTT(30)
    <3>4. \A x \in out.sent : \E u \in Node : Sent(i, u, prog[u], log[i], commit, x)
      BY <1>3, <1>6, <2>4, <3>1, <3>2, Zenon
    <3>. QED  BY <1>3, <1>5, <1>8, <3>3, <3>4, SendFromSends, Zenon
  <2>. QED  BY <1>7, <1>8, <2>1, <2>3, <2>4, Zenon
<1>. QED  BY <1>1, <1>3, <1>9, Zenon DEF prog, commit

\* A Leader counts a response to a Snapshot and sends what is due.
LEMMA SnapshotResponseIs ==
  ASSUME TypeOK, NEW m \in msgs, HandleInstallSnapshotResponse(m), ~StepDown(m, m.term)
  PROVE  /\ m.type = "InstallSnapshotResponse" /\ m.to \in Node
         /\ role[m.to] = "Leader" /\ m.term = term[m.to]
         /\ progress[m.to][m.from].snapshot = m.request
         /\ SnapshotProgress(m) \in [Node -> Progress]
         /\ LeaderSends(m.to, SnapshotProgress(m), log[m.to], commitIndex[m.to])
         /\ UNCHANGED <<hardVars, role, logVars, elected, capture, files, ballots>>
<1>. DEFINE i == m.to
            j == m.from
            p == progress[i][j]
            idle == [p EXCEPT !.snapshot = 0]
            done == [idle EXCEPT !.match = Larger(p.match, m.index), !.next = m.index + 1]
            q == IF ~m.success THEN idle ELSE IF ~m.done THEN p ELSE done
            prog == SnapshotProgress(m)
            read == PendingReadFor(pendingReads[i], j)
            more == SendAppendEntriesTo(i, j, done, log[i], commitIndex[i], read)
            chunk == SnapshotChunk(i, j, m.request, m.next)
            out == IF ~m.success THEN [progress |-> idle, sent |-> {}]
                   ELSE IF ~m.done THEN [progress |-> p, sent |-> {chunk}]
                   ELSE more
            sends == [progress |-> [progress[i] EXCEPT ![j] = out.progress], sent |-> out.sent]
<1>1. /\ m.type = "InstallSnapshotResponse" /\ role[i] = "Leader" /\ m.term = term[i]
      /\ p.snapshot = m.request
      /\ SendFrom(i, sends, msgs \ {m})
      /\ UNCHANGED <<hardVars, role, logVars, elected, capture, files, ballots>>
  BY Zenon DEF HandleInstallSnapshotResponse, electionVars, snapshotVars
<1>3. m \in Message /\ i \in Node /\ j \in Node
  BY MessageHas DEF TypeOK
<1>4. log[i] \in Seq(Entry) /\ commitIndex[i] \in Nat
  BY <1>3, Zenon DEF TypeOK
<1>5. StartsWith(log[i], log[i]) /\ msgs \ {m} \subseteq msgs
  BY <1>4, StartsWithItself, LenProperties, Zenon
<1>6. progress[i] \in [Node -> Progress] /\ p \in Progress
  BY <1>3, ProgressHas, ZenonT(40)
<1>7. m.index \in Nat /\ m.index + 1 \in Nat
  BY <1>1, <1>3 DEF Message
<1>8. prog = [progress[i] EXCEPT ![j] = q]
  BY DEF SnapshotProgress
<1>. HIDE DEF p, prog
<1>9. Larger(p.match, m.index) \in Nat
  BY <1>6, <1>7 DEF Progress, Larger
<1>10. idle \in Progress
  BY <1>6, Zenon DEF Progress
<1>. HIDE DEF idle
<1>11. done \in Progress
  BY <1>7, <1>9, <1>10, Zenon DEF Progress
<1>. HIDE DEF done
<1>12. q \in Progress
  BY <1>6, <1>10, <1>11, SMTT(30)
<1>13. prog \in [Node -> Progress] /\ prog[j] = q /\ \A u \in Node : u # j => prog[u] = progress[i][u]
  BY <1>3, <1>6, <1>8, <1>12, Zenon
<1>14. (\A x \in out.sent : Sent(i, j, q, log[i], commitIndex[i], x)) /\ ProgressKept(i, q, log[i], out.progress)
  <2>1. CASE ~m.success
    <3>1. out.progress = idle /\ out.sent = {} /\ q = idle
      BY <2>1, Zenon
    <3>. QED  BY <1>10, <3>1, ZenonT(40) DEF ProgressKept
  <2>2. CASE m.success /\ ~m.done
    <3>1. out.progress = p /\ out.sent = {chunk} /\ q = p
      BY <2>2, Zenon
    <3>2. Carries(chunk, log[i])
      BY <1>3, <1>4, <1>5, ChunkCarries, Zenon
    <3>3. /\ chunk.from = i /\ chunk.to = j /\ chunk.term = term[i] /\ chunk.type = "InstallSnapshot"
          /\ chunk.state = Prefix(log[i], base[i]) /\ chunk.request = p.snapshot
      BY <1>1, Zenon DEF SnapshotChunk
    <3>. HIDE DEF chunk
    <3>4. Sent(i, j, p, log[i], commitIndex[i], chunk)
      BY <3>2, <3>3, Zenon DEF Sent
    <3>5. ProgressKept(i, p, log[i], p)
      BY <1>6, ZenonT(40) DEF ProgressKept
    <3>. QED  BY <3>1, <3>4, <3>5, ZenonT(40)
  <2>3. CASE m.success /\ m.done
    <3>1. out = more /\ q = done
      BY <2>3, Zenon
    <3>2. (\A x \in more.sent : Sent(i, j, done, log[i], commitIndex[i], x)) /\ ProgressKept(i, done, log[i], more.progress)
      BY <1>3, <1>4, <1>5, <1>11, SendToSends, ZenonT(40)
    <3>. HIDE DEF more
    <3>. QED  BY <3>1, <3>2, Zenon
  <2>. QED  BY <2>1, <2>2, <2>3, Zenon
<1>. HIDE DEF out, q
<1>15. sends.progress = [progress[i] EXCEPT ![j] = out.progress] /\ sends.sent = out.sent
  BY SMTT(30)
<1>. HIDE DEF sends
<1>16. \A x \in sends.sent : \E u \in Node : Sent(i, u, prog[u], log[i], commitIndex[i], x)
  BY <1>3, <1>13, <1>14, <1>15, Zenon
<1>17. \A u \in Node : ProgressKept(i, prog[u], log[i], sends.progress[u])
  <2>1. sends.progress[j] = out.progress /\ \A u \in Node : u # j => sends.progress[u] = progress[i][u]
    BY <1>3, <1>6, <1>15, Zenon
  <2>2. \A u \in Node : u # j => ProgressKept(i, prog[u], log[i], prog[u])
    BY <1>13, Zenon DEF ProgressKept
  <2>. QED  BY <1>13, <1>14, <2>1, <2>2, ZenonT(40)
<1>18. LeaderSends(i, prog, log[i], commitIndex[i])
  BY <1>1, <1>3, <1>5, <1>16, <1>17, SendFromSends, Zenon
<1>. QED  BY <1>1, <1>3, <1>13, <1>18, Zenon DEF prog, p

\* Responses to a Leader.
LEMMA ResponseChain ==
  ASSUME LeastElements, TypeOK, NEW C, NEW m \in msgs,
         HandleAppendEntriesResponse(m) \/ HandleInstallSnapshotResponse(m)
  PROVE  ChainStep(m.to, C)
<1>1. m.term \in Nat
  BY MessageHas DEF TypeOK
<1>2. CASE StepDown(m, m.term)
  BY <1>1, <1>2, StepDownChain, Zenon
<1>3. CASE ~StepDown(m, m.term) /\ HandleAppendEntriesResponse(m)
  <2>1. /\ m.to \in Node /\ role[m.to] = "Leader"
        /\ LeaderSends(m.to, ResponseProgress(m), log[m.to], LeaderCommit(m.to, ResponseProgress(m)))
        /\ UNCHANGED <<term, role, log, elected, capture, files, ballots>>
    BY <1>3, AppendResponseIs, Zenon DEF hardVars
  <2>. QED  BY <2>1, LeaderSendsChain, Zenon
<1>4. CASE ~StepDown(m, m.term) /\ HandleInstallSnapshotResponse(m)
  <2>1. /\ m.to \in Node /\ role[m.to] = "Leader"
        /\ LeaderSends(m.to, SnapshotProgress(m), log[m.to], commitIndex[m.to])
        /\ UNCHANGED <<term, role, log, elected, capture, files, ballots>>
    BY <1>4, SnapshotResponseIs, Zenon DEF hardVars, logVars
  <2>. QED  BY <2>1, LeaderSendsChain, Zenon
<1>. QED  BY <1>2, <1>3, <1>4, ZenonT(40)

\* A message is handled by the Node it is sent to.
LEMMA ReceiveChain ==
  ASSUME LeastElements, TypeOK, TypeOK', AppliedIsCommitted, NEW C, ChainInv(C), NEW m \in msgs, Receive(m)
  PROVE  m.to \in Node /\ ChainStep(m.to, C)
<1>1. m.to \in Node /\ msgs \ {m} \subseteq msgs
  BY MessageHas DEF TypeOK
<1>2. CASE HandlePreVoteRequest(m) \/ HandlePreVoteResponse(m) \/ HandleVoteRequest(m)
  BY <1>1, <1>2, VotingChain, Zenon
<1>3. CASE HandleVoteResponse(m)
  BY <1>1, <1>3, VoteResponseChain, Zenon
<1>4. CASE HandleAppendEntries(m)
  BY <1>1, <1>4, AppendEntriesChain, Zenon
<1>5. CASE HandleAppendEntriesResponse(m) \/ HandleInstallSnapshotResponse(m)
  BY <1>1, <1>5, ResponseChain, Zenon
<1>6. CASE HandleInstallSnapshot(m)
  BY <1>1, <1>6, InstallSnapshotChain, Zenon
<1>7. CASE CrashInAppendEntries(m)
  <2>1. PICK entries :
           /\ RecoveringStep(m.to, m.term, entries, C)
           /\ Recover(m.to, m.term, VoteIn(m.to, m.term), entries, files[m.to], msgs \ {m})
    BY <1>7, CrashInAppendIs, ZenonT(40)
  <2>2. \A f \in files[m.to] : f \in files[m.to] \/ \E x \in msgs : x.type = "InstallSnapshot" /\ f = x.state
    BY Zenon
  <2>. QED  BY <1>1, <2>1, <2>2, RecoverIs, Zenon
<1>8. CASE CrashInInstallSnapshot(m)
  <2>1. PICK t :
           /\ RecoveringStep(m.to, t, log[m.to], C)
           /\ Recover(m.to, t, VoteIn(m.to, t), log[m.to], files[m.to] \cup {m.state}, msgs \ {m})
    BY <1>8, CrashInInstallIs, Zenon
  <2>2. m.type = "InstallSnapshot"
    BY <1>8, CrashInInstallIs, Zenon
  <2>3. \A f \in files[m.to] \cup {m.state} :
           f \in files[m.to] \/ \E x \in msgs : x.type = "InstallSnapshot" /\ f = x.state
    BY <2>2, Zenon
  <2>. QED  BY <1>1, <2>1, <2>3, RecoverIs, Zenon
<1>. QED  BY <1>1, <1>2, <1>3, <1>4, <1>5, <1>6, <1>7, <1>8, ZenonT(40) DEF Receive

\* The other steps are a Node's own.
LEMMA LocalIsChain ==
  ASSUME LeastElements, TypeOK, TypeOK', NEW C, ChainInv(C), NEW i \in Up, Local(i)
  PROVE  i \in Node /\ ChainStep(i, C)
<1>1. i \in Node
  BY NodeAssumption
<1>2. CASE \/ StartPreVote(i) \/ CheckQuorum(i) \/ ConfirmRead(i) \/ HeartbeatRound(i)
           \/ StartSnapshot(i) \/ SaveSnapshot(i) \/ FinishSnapshot(i)
           \/ \E cmd \in Command : Propose(i, cmd)
  BY <1>1, <1>2, LocalChain, Zenon
<1>3. CASE Restart(i)
  <2>1. RecoveringStep(i, term[i], log[i], C)
    BY <1>1, <1>3, RestartIs, ZenonT(40)
  <2>2. Recover(i, term[i], votedFor[i], log[i], files[i], msgs)
    BY <1>3, Zenon DEF Restart
  <2>3. /\ msgs \subseteq msgs
        /\ \A f \in files[i] : f \in files[i] \/ \E x \in msgs : x.type = "InstallSnapshot" /\ f = x.state
    OBVIOUS
  <2>4. ChainStep(i, C)
    BY <1>1, <2>1, <2>2, <2>3, RecoverIs, Zenon
  <2>. QED  BY <1>1, <2>4
<1>. QED  BY <1>1, <1>2, <1>3, Zenon DEF Local

\* Every step of the Cluster is a step of one Node.
LEMMA NextIsChainStep ==
  ASSUME LeastElements, TypeOK, TypeOK', AppliedIsCommitted, NEW C, ChainInv(C), Next
  PROVE  \E v \in Node : ChainStep(v, C)
BY ReceiveChain, LocalIsChain, Zenon DEF Next

-----------------------------------------------------------------------------
(* Reads on a Leader *)

\* A Candidate that counts a vote takes no read.
LEMMA ReadyCandidate ==
  ASSUME TypeOK, ReadyOwnsCommit, NEW m \in msgs, m.to \in Node,
         HandleVoteResponse(m), ~StepDown(m, m.term)
  PROVE  ReadyStep(m.to)
<1>. DEFINE i == m.to
<1>0. readReady \in [Node -> BOOLEAN] /\ commitIndex \in [Node -> Nat] /\ lastApplied \in [Node -> Nat]
  BY ZenonT(40) DEF TypeOK
<1>1. ~readReady[i]
  <2>1. role[i] = "Candidate"
    BY Zenon DEF HandleVoteResponse
  <2>. QED  BY <2>1, Zenon DEF ReadyOwnsCommit
<1>2. UNCHANGED <<commitIndex, lastApplied>>
  BY Zenon DEF HandleVoteResponse, StepDown, logVars
<1>3. readReady' = [readReady EXCEPT ![i] = FALSE] \/ readReady' = readReady
  BY Zenon DEF HandleVoteResponse, StepDown, BecomeFollower, BecomeFollowerWith, BecomeLeader
<1>. QED  BY <1>0, <1>1, <1>2, <1>3, ZenonT(40) DEF ReadyStep

\* A Leader that has applied the NoOp of its term has committed an entry of its term.
LEMMA ReadyResponse ==
  ASSUME LeastElements, TypeOK, AppliedIsCommitted, ReadyOwnsCommit, NEW m \in msgs,
         HandleAppendEntriesResponse(m), ~StepDown(m, m.term)
  PROVE  ReadyOwnsCommit'
<1>. DEFINE i == m.to
            prog == ResponseProgress(m)
            commit == LeaderCommit(i, prog)
            applied == IF commit > commitIndex[i] THEN commit ELSE lastApplied[i]
            ready == AppliesOwnNoOp(i, applied)
<1>1. /\ i \in Node /\ role[i] = "Leader"
      /\ commitIndex' = [commitIndex EXCEPT ![i] = commit]
      /\ UNCHANGED <<term, role, log>>
  BY AppendResponseIs, Zenon DEF hardVars
<1>2. /\ lastApplied' = [lastApplied EXCEPT ![i] = applied]
      /\ readReady' = [readReady EXCEPT ![i] = readReady[i] \/ ready]
  BY Zenon DEF HandleAppendEntriesResponse, ResponseProgress, ResponseNext, ResponseMatch
<1>3. /\ readReady \in [Node -> BOOLEAN] /\ commitIndex \in [Node -> Nat] /\ lastApplied \in [Node -> Nat]
      /\ base[i] \in Nat /\ log[i] \in Seq(Entry) /\ term[i] \in Nat
  BY <1>1, Zenon DEF TypeOK
<1>4. \/ commit = commitIndex[i]
      \/ /\ commit \in (commitIndex[i] + 1)..Len(log[i])
         /\ TermAt(log[i], base[i], commit) = term[i]
  BY <1>1, LeaderCommitIs, Zenon
<1>. HIDE DEF commit
<1>5. Len(log[i]) \in Nat /\ base[i] <= lastApplied[i] /\ lastApplied[i] <= commitIndex[i]
  BY <1>1, <1>3, LenProperties, Zenon DEF AppliedIsCommitted
<1>6. commit \in Nat /\ commit >= commitIndex[i] /\ applied \in Nat
  <2>1. commitIndex[i] \in Nat /\ lastApplied[i] \in Nat
    BY <1>1, <1>3, Zenon
  <2>2. commit = commitIndex[i] \/ commit \in (commitIndex[i] + 1)..Len(log[i])
    BY <1>4, Zenon
  <2>3. commit \in Nat /\ commit >= commitIndex[i]
    BY <1>5, <2>1, <2>2, StaysOrRises, Zenon
  <2>. QED  BY <2>1, <2>3, Zenon
<1>7. /\ \A u \in Node : u # i => /\ readReady'[u] = readReady[u]
                                  /\ commitIndex'[u] = commitIndex[u]
                                  /\ lastApplied'[u] = lastApplied[u]
      /\ commitIndex'[i] = commit /\ lastApplied'[i] = applied
      /\ readReady'[i] => readReady[i] \/ ready
  BY <1>1, <1>2, <1>3, Zenon
<1>8. ready => applied > lastApplied[i]
  <2>1. ASSUME ready  PROVE \E k \in (lastApplied[i] + 1)..applied : TRUE
    BY <2>1, Zenon DEF AppliesOwnNoOp
  <2>. HIDE DEF ready, applied
  <2>2. lastApplied[i] \in Nat
    BY <1>1, <1>3, Zenon
  <2>. QED  BY <1>6, <2>1, <2>2, RangeEnds, Zenon
<1>. HIDE DEF ready
<1>9. ASSUME readReady'[i]
      PROVE  /\ applied = commit /\ commit > 0 /\ commit <= Len(log[i]) /\ log[i][commit].term = term[i]
  <2>1. CASE commit > commitIndex[i]
    <3>1. commit <= Len(log[i]) /\ TermAt(log[i], base[i], commit) = term[i] /\ commit > base[i] /\ commit > 0
      <4>1. commit \in (commitIndex[i] + 1)..Len(log[i]) /\ TermAt(log[i], base[i], commit) = term[i]
        BY <1>1, <1>3, <1>4, <2>1, NotAboveItself, ZenonT(40)
      <4>2. commitIndex[i] \in Nat /\ lastApplied[i] \in Nat /\ base[i] \in Nat
        BY <1>1, <1>3, Zenon
      <4>3. base[i] <= commitIndex[i]
        BY <1>5, <4>2, Transitive, Zenon
      <4>. QED  BY <1>5, <4>1, <4>2, <4>3, InRange, ZenonT(40)
    <3>2. log[i][commit].term = term[i]
      BY <1>3, <1>5, <1>6, <3>1, TermAtInside, ZenonT(40)
    <3>. QED  BY <2>1, <3>1, <3>2, Zenon
  <2>2. CASE ~(commit > commitIndex[i])
    <3>1. commit = commitIndex[i] /\ applied = lastApplied[i]
      <4>1. commitIndex[i] \in Nat
        BY <1>1, <1>3, Zenon
      <4>. QED  BY <1>4, <1>5, <2>2, <4>1, InRange, ZenonT(40)
    <3>2. readReady[i]
      BY <1>1, <1>3, <1>7, <1>8, <1>9, <3>1, NotAboveItself, ZenonT(40)
    <3>. QED  BY <1>1, <3>1, <3>2, Zenon DEF ReadyOwnsCommit
  <2>. QED  BY <2>1, <2>2, Zenon
<1>. HIDE DEF applied
<1>10. ASSUME NEW u \in Node, readReady'[u]
       PROVE  /\ role'[u] = "Leader"
              /\ lastApplied'[u] = commitIndex'[u]
              /\ commitIndex'[u] > 0
              /\ commitIndex'[u] <= Len(log'[u])
              /\ log'[u][commitIndex'[u]].term = term'[u]
  <2>1. CASE u = i
    BY <1>1, <1>7, <1>9, <1>10, <2>1, ZenonT(40)
  <2>2. CASE u # i
    <3>1. /\ readReady'[u] = readReady[u] /\ commitIndex'[u] = commitIndex[u]
          /\ lastApplied'[u] = lastApplied[u]
      BY <1>7, <2>2, SMTT(30)
    <3>2. /\ role[u] = "Leader" /\ lastApplied[u] = commitIndex[u] /\ commitIndex[u] > 0
          /\ commitIndex[u] <= Len(log[u]) /\ log[u][commitIndex[u]].term = term[u]
      BY <1>10, <3>1, Zenon DEF ReadyOwnsCommit
    <3>. QED  BY <1>1, <3>1, <3>2, ZenonT(40)
  <2>. QED  BY <2>1, <2>2, Zenon
<1>. QED  BY <1>10, Zenon DEF ReadyOwnsCommit

\* A Leader that proposes keeps its committed entries.
LEMMA ReadyPropose ==
  ASSUME TypeOK, ReadyOwnsCommit, NEW i \in Node, NEW cmd \in Command, Propose(i, cmd)
  PROVE  ReadyOwnsCommit'
<1>. DEFINE e == [term |-> term[i], cmd |-> cmd]
<1>1. log' = [log EXCEPT ![i] = Append(log[i], e)] /\ UNCHANGED <<readReady, role, term, commitIndex, lastApplied>>
  BY Zenon DEF Propose, hardVars, electionVars
<1>2. log \in [Node -> Seq(Entry)] /\ commitIndex[i] \in Nat /\ e \in Entry
  BY ZenonT(40) DEF TypeOK, Entry
<1>. HIDE DEF e
<1>3. /\ \A u \in Node : u # i => log'[u] = log[u]
      /\ Len(log'[i]) = Len(log[i]) + 1 /\ Len(log[i]) \in Nat
      /\ \A k \in 1..Len(log[i]) : log'[i][k] = log[i][k]
  <2>1. log'[i] = Append(log[i], e) /\ \A u \in Node : u # i => log'[u] = log[u]
    BY <1>1, <1>2, ZenonT(40)
  <2>. QED  BY <1>2, <2>1, AppendProperties, LenProperties, SMTT(30)
<1>4. ASSUME NEW u \in Node, readReady[u]
      PROVE  commitIndex[u] <= Len(log'[u]) /\ log'[u][commitIndex[u]] = log[u][commitIndex[u]]
  <2>1. commitIndex[u] > 0 /\ commitIndex[u] <= Len(log[u])
    BY <1>4, Zenon DEF ReadyOwnsCommit
  <2>2. CASE u = i
    <3>1. commitIndex[i] \in 1..Len(log[i])
      BY <1>2, <1>3, <2>1, <2>2, SMTT(30)
    <3>. QED  BY <1>2, <1>3, <2>1, <2>2, <3>1, SMTT(30)
  <2>3. CASE u # i
    BY <1>3, <2>1, <2>3, ZenonT(40)
  <2>. QED  BY <2>2, <2>3
<1>5. ASSUME NEW u \in Node, readReady'[u]
      PROVE  /\ role'[u] = "Leader"
             /\ lastApplied'[u] = commitIndex'[u]
             /\ commitIndex'[u] > 0
             /\ commitIndex'[u] <= Len(log'[u])
             /\ log'[u][commitIndex'[u]].term = term'[u]
  <2>1. readReady[u]
    BY <1>1, <1>5
  <2>2. /\ role[u] = "Leader" /\ lastApplied[u] = commitIndex[u] /\ commitIndex[u] > 0
        /\ log[u][commitIndex[u]].term = term[u]
    BY <2>1, Zenon DEF ReadyOwnsCommit
  <2>3. commitIndex[u] <= Len(log'[u]) /\ log'[u][commitIndex[u]] = log[u][commitIndex[u]]
    BY <1>4, <2>1
  <2>4. UNCHANGED <<role, term, commitIndex, lastApplied>>
    BY <1>1
  <2>. QED  BY <2>2, <2>3, <2>4, Zenon
<1>. QED  BY <1>5, Zenon DEF ReadyOwnsCommit

\* The other steps of a Node.
LEMMA ReadyLocal ==
  ASSUME TypeOK, ReadyOwnsCommit, NEW i \in Node,
         \/ StartPreVote(i) \/ CheckQuorum(i) \/ ConfirmRead(i) \/ HeartbeatRound(i)
         \/ StartSnapshot(i) \/ SaveSnapshot(i) \/ FinishSnapshot(i) \/ Restart(i)
  PROVE  ReadyStep(i)
<1>0. readReady \in [Node -> BOOLEAN] /\ commitIndex \in [Node -> Nat] /\ lastApplied \in [Node -> Nat]
  BY Zenon DEF TypeOK
<1>1. CASE StartPreVote(i)
  <2>1. ~readReady[i]
    BY <1>1, Zenon DEF StartPreVote, ReadyOwnsCommit
  <2>2. UNCHANGED <<readReady, commitIndex, lastApplied>>
    BY <1>1, Zenon DEF StartPreVote, leaderVars, logVars
  <2>. QED  BY <2>1, <2>2, Zenon DEF ReadyStep
<1>2. CASE CheckQuorum(i)
  <2>1. /\ UNCHANGED <<commitIndex, lastApplied>>
        /\ \/ readReady' = [readReady EXCEPT ![i] = FALSE]
           \/ UNCHANGED <<readReady, term, role, log>>
    BY <1>2, Zenon DEF CheckQuorum, BecomeFollower, BecomeFollowerWith, electionVars, logVars
  <2>. QED  BY <1>0, <2>1, Zenon DEF ReadyStep
<1>3. CASE ConfirmRead(i) \/ HeartbeatRound(i) \/ StartSnapshot(i) \/ SaveSnapshot(i) \/ FinishSnapshot(i)
  <2>1. UNCHANGED <<readReady, role, term, log, commitIndex, lastApplied>>
    BY <1>3, Zenon DEF ConfirmRead, HeartbeatRound, StartSnapshot, SaveSnapshot, FinishSnapshot,
         hardVars, electionVars, leaderVars, logVars
  <2>. QED  BY <2>1, Zenon DEF ReadyStep
<1>4. CASE Restart(i)
  <2>1. /\ readReady' = [readReady EXCEPT ![i] = FALSE]
        /\ commitIndex' = commitIndex /\ lastApplied' = [lastApplied EXCEPT ![i] = commitIndex[i]]
    BY <1>4, Zenon DEF Restart, Recover, BecomeFollowerWith
  <2>. QED  BY <1>0, <2>1, Zenon DEF ReadyStep
<1>. QED  BY <1>1, <1>2, <1>3, <1>4, SMTT(30)

\* No step lets a Leader take reads before it has committed in its own term.
LEMMA NextReady ==
  ASSUME LeastElements, TypeOK, TypeOK', AppliedIsCommitted, ReadyOwnsCommit, NEW C, ChainInv(C), [Next]_vars
  PROVE  ReadyOwnsCommit'
<1>1. ASSUME NEW m \in msgs, Receive(m)  PROVE ReadyOwnsCommit'
  <2>1. m.to \in Node /\ ChainStep(m.to, C)
    BY <1>1, ReceiveChain, Zenon
  <2>2. CASE HandleAppendEntriesResponse(m) /\ ~StepDown(m, m.term)
    BY <2>2, ReadyResponse, Zenon
  <2>3. CASE HandleVoteResponse(m) /\ ~StepDown(m, m.term)
    BY <2>1, <2>3, ReadyCandidate, ReadyStays, Zenon
  <2>4. CASE \/ HandlePreVoteRequest(m) \/ HandlePreVoteResponse(m) \/ HandleVoteRequest(m)
             \/ HandleAppendEntries(m) \/ StepDown(m, m.term) \/ HandleInstallSnapshot(m)
             \/ HandleInstallSnapshotResponse(m)
             \/ CrashInAppendEntries(m) \/ CrashInInstallSnapshot(m)
    BY <2>1, <2>4, ReadyReceive, ReadyStays, Zenon
  <2>. QED  BY <1>1, <2>2, <2>3, <2>4, Zenon DEF Receive
<1>2. ASSUME NEW i \in Up, Local(i)  PROVE ReadyOwnsCommit'
  <2>1. i \in Node /\ ChainStep(i, C)
    BY <1>2, LocalIsChain, Zenon
  <2>2. CASE \E cmd \in Command : Propose(i, cmd)
    BY <2>1, <2>2, ReadyPropose, Zenon
  <2>3. CASE \/ StartPreVote(i) \/ CheckQuorum(i) \/ ConfirmRead(i) \/ HeartbeatRound(i)
             \/ StartSnapshot(i) \/ SaveSnapshot(i) \/ FinishSnapshot(i) \/ Restart(i)
    BY <2>1, <2>3, ReadyLocal, ReadyStays, Zenon
  <2>. QED  BY <1>2, <2>2, <2>3, Zenon DEF Local
<1>3. CASE UNCHANGED vars
  <2>1. UNCHANGED <<readReady, role, term, log, commitIndex, lastApplied>>
    BY <1>3, Zenon DEF vars, hardVars, electionVars, leaderVars, logVars
  <2>. QED  BY <2>1, Zenon DEF ReadyOwnsCommit
<1>. QED  BY <1>1, <1>2, <1>3, Zenon DEF Next

=============================================================================
