---------------------------- MODULE RaftSteps ------------------------------
(***************************************************************************)
(* What the steps of the consensus core do to logs, chains and progress:   *)
(* the vocabulary of the proofs.                                           *)
(***************************************************************************)
EXTENDS RaftInvariants

\* Leader v appends an entry of its term.
AppendsOwn(v) ==
  /\ role'[v] = "Leader"
  /\ term'[v] = term[v]
  /\ \E e \in Entry : e.term = term[v] /\ log'[v] = Append(log[v], e)

\* Follower v moves its log along a chain of its Leader.
FollowsChain(v, C) ==
  /\ role'[v] = "Follower"
  /\ \E s \in C : LastLogTerm(s) = term'[v] /\ Moved(log[v], s, log'[v])

\* A step of Node v, as the logs, terms and roles of the Cluster see it.
NodeStep(v, C) ==
  /\ \A u \in Node : u # v => term'[u] = term[u] /\ role'[u] = role[u] /\ log'[u] = log[u]
  /\ term'[v] >= term[v]
  /\ log'[v] = log[v] \/ AppendsOwn(v) \/ FollowsChain(v, C)
  /\ role'[v] = "Candidate" => \/ role[v] = "Candidate" /\ term'[v] = term[v]
                               \/ term'[v] = term[v] + 1
  /\ \/ /\ elected' = elected
        /\ role'[v] = "Leader" => role[v] = "Leader" /\ term'[v] = term[v]
     \/ /\ elected' = elected \cup {<<term[v], v>>}
        /\ role[v] = "Candidate"
        /\ AppendsOwn(v)

\* Requests and Snapshots are sent by Leaders, from their logs.
SendStep ==
  \A m \in msgs' : m.type \in {"AppendEntries", "InstallSnapshot"} =>
    \/ m \in msgs
    \/ /\ role'[m.from] = "Leader"
       /\ term'[m.from] = m.term
       /\ Carries(m, log'[m.from])

\* Captures are prefixes of the log, files are captures or received Snapshots.
StoreStep ==
  \A i \in Node :
    /\ \/ capture'[i] \in {capture[i], <<>>}
       \/ StartsWith(log[i], capture'[i])
    /\ \A f \in files'[i] : \/ f \in files[i]
                            \/ f = capture[i]
                            \/ \E m \in msgs : m.type = "InstallSnapshot" /\ f = m.state

\* Ballots are cast in the voter's term or a later one, and never withdrawn.
BallotStep ==
  /\ ballots \subseteq ballots'
  /\ \A b \in ballots' : b \in ballots \/ b[1] >= term[b[2]]

\* All of the above.
ChainStep(v, C) == NodeStep(v, C) /\ SendStep /\ StoreStep /\ BallotStep

\* D is C and the chain that the step of Node v makes, if it makes one.
Grown(v, C, D) ==
  /\ D \in SUBSET Seq(Entry)
  /\ C \subseteq D
  /\ \A d \in D : d \in C \/ (d = log'[v] /\ AppendsOwn(v))
  /\ AppendsOwn(v) => log'[v] \in D

\* The index from which a Leader with this log sends to a peer with progress p.
NextFor(p, entries) ==
  IF p.next = 0 \/ p.next > Len(entries) + 1 THEN Len(entries) + 1 ELSE p.next

\* Leader i, with the log `entries`, sends m to peer j, which has progress p.
Sent(i, j, p, entries, commit, m) ==
  /\ m.from = i /\ m.to = j /\ m.term = term[i]
  /\ Carries(m, entries)
  /\ \/ /\ m.type = "AppendEntries"
        /\ NextFor(p, entries) > base[i]
        /\ m.prevIndex + 1 = NextFor(p, entries)
        /\ m.commit = commit
     \/ /\ m.type = "InstallSnapshot"
        /\ m.state = Prefix(log[i], base[i])
        /\ \/ NextFor(p, entries) <= base[i] /\ m.request >= 1
           \/ m.request = p.snapshot

\* Sending moves no index, and marks a transfer only when there is one.
ProgressKept(i, p, entries, q) ==
  /\ q \in Progress
  /\ q.match = p.match
  /\ q.next = p.next
  /\ q.snapshot = p.snapshot \/ NextFor(p, entries) <= base[i] \/ q.snapshot = 0

\* Leader i, with the log `entries`, sends to its peers, whose progress was `prog`.
LeaderSends(i, prog, entries, commit) ==
  /\ \A m \in msgs' : \/ m \in msgs
                       \/ \E j \in Node : Sent(i, j, prog[j], entries, commit, m)
  /\ \A j \in Node : ProgressKept(i, prog[j], entries, progress'[i][j])
  /\ \A u \in Node : u # i => progress'[u] = progress[u]

\* The progress a new Leader starts with.
FreshProgress(i) ==
  [j \in Node |-> [ForgetProgress(i)[j] EXCEPT !.next = Len(Append(log[i], [term |-> term[i], cmd |-> NoOp])) + 1]]

\* The progress of a Leader whose response deadline has passed.
IdleProgress(i) == [j \in Node |-> [progress[i][j] EXCEPT !.append = 0, !.commit = 0]]

\* The progress of a Leader that has counted the response m to a request to append.
ResponseMatch(m) ==
  IF m.success THEN Larger(progress[m.to][m.from].match, m.match) ELSE progress[m.to][m.from].match

ResponseNext(m) ==
  IF m.success THEN ResponseMatch(m) + 1
  ELSE NextIndexFromConflict(log[m.to], base[m.to], m.conflictTerm, m.conflictIndex)

ResponseProgress(m) ==
  [progress[m.to] EXCEPT ![m.from] =
     [progress[m.to][m.from] EXCEPT !.append = 0, !.commit = 0,
                                    !.match = ResponseMatch(m), !.next = ResponseNext(m)]]

\* The progress of a Leader that has counted the response m to a Snapshot.
SnapshotProgress(m) ==
  LET p == progress[m.to][m.from]
      idle == [p EXCEPT !.snapshot = 0]
  IN [progress[m.to] EXCEPT ![m.from] =
        IF ~m.success THEN idle
        ELSE IF ~m.done THEN p
        ELSE [idle EXCEPT !.match = Larger(p.match, m.index), !.next = m.index + 1]]

\* A process that starts again, with the log it had or one that moved along a chain.
RecoveringStep(i, t, entries, C) ==
  /\ t \in Nat /\ t >= term[i]
  /\ entries \in Seq(Entry)
  /\ entries = log[i] \/ \E s \in C : LastLogTerm(s) = t /\ Moved(log[i], s, entries)

\* The log of a Node that has written n of the entries it takes from request m.
Written(i, m, n) == Merge(i, m).kept \o SubSeq(Merge(i, m).added, 1, n)

\* What such a log has in common with the log it was, and with the chain s.
MergedInto(i, m, s, n, new) ==
  /\ LastLogTerm(s) = m.term
  /\ Carries(m, s)
  /\ Moved(log[i], s, new)
  /\ \A k \in 1..commitIndex[i] : k <= Len(log[i]) => k <= Len(new) /\ new[k] = log[i][k]
  /\ n = Len(Merge(i, m).added) =>
       /\ m.prevIndex + Len(m.entries) <= Len(new)
       /\ \A x \in 1..(m.prevIndex + Len(m.entries)) : new[x] = s[x]

\* A received Snapshot: the log holds it already, or moves along the chain.
InstalledInto(i, m, s, new) ==
  /\ LastLogTerm(s) = m.term
  /\ StartsWith(s, m.state)
  /\ IF RetainSuffix(i, m.state)
       THEN StartsWith(log[i], m.state) /\ new = log[i]
       ELSE ~StartsWith(log[i], m.state) /\ new = m.state /\ Moved(log[i], s, new)

\* The prefixes of the recovered logs.
RecoveredChains ==
  UNION {{SubSeq(RecoveredLog[i], 1, k) : k \in 1..Len(RecoveredLog[i])} : i \in Node}

\* Node v steps: what reads look at is as it was, or no read is taken.
ReadyStep(v) ==
  /\ \A u \in Node : u # v => /\ readReady'[u] = readReady[u]
                              /\ commitIndex'[u] = commitIndex[u]
                              /\ lastApplied'[u] = lastApplied[u]
  /\ \/ ~readReady'[v]
     \/ /\ readReady'[v] = readReady[v] /\ role'[v] = role[v] /\ term'[v] = term[v]
        /\ log'[v] = log[v] /\ commitIndex'[v] = commitIndex[v] /\ lastApplied'[v] = lastApplied[v]

=============================================================================
