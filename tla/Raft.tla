-------------------------------- MODULE Raft --------------------------------
(***************************************************************************)
(* The consensus core (internal/raft) under its runtime (internal/node).   *)
(*                                                                         *)
(* raftRuntime.step runs one event to the end: raft.Node.Step, then every  *)
(* WAL write it asked for together with the completion event of that write *)
(* and only then the sends and applications.  One action below is one such *)
(* step: the handler, its persistence completions and its sends.  Between  *)
(* steps the durable state of a Node therefore equals its volatile term,   *)
(* vote, log and commit index; the durable state in the middle of a step   *)
(* is seen only by a crash (CrashIn...).                                   *)
(*                                                                         *)
(* `msgs` holds the messages on their way.  Each is one RPC that puts it in *)
(* the target's event queue at most once: it may be delayed, overtaken, or  *)
(* never received, which also stands for a message its handler ignores.     *)
(***************************************************************************)
EXTENDS RaftLog

CONSTANTS
  Node,         \* the members of the Cluster
  Up,           \* the members that run; the others are down throughout
  NoNode,       \* the empty Node identity
  Command,      \* replicated client commands
  NoOp,         \* the entry a new Leader appends
  Chunks,       \* chunks in one Snapshot transfer
  SnapshotThreshold,  \* applied entries that trigger a local Snapshot
  RecoveredTerm, RecoveredVote, RecoveredLog, RecoveredCommit, RecoveredSnapshot,
                \* what each Node recovers from its disk when the run starts
  MaxTimeouts,  \* bound: timer expirations in a behaviour
  MaxLogLen,    \* bound: no entry is appended by a Leader beyond this index
  MaxRequests,  \* bound: requests a process sends one peer
  MaxReads,     \* bound: linearizable reads in a behaviour
  MaxFaults     \* bound: crashes and failed sends in a behaviour

ASSUME NodeAssumption ==
  /\ IsFiniteSet(Node)
  /\ Cardinality(Node) >= 2
  /\ NoNode \notin Node
  /\ Up \subseteq Node

ASSUME CommandAssumption == NoOp \notin Command

ASSUME BoundAssumption ==
  /\ Chunks \in Nat \ {0}
  /\ SnapshotThreshold \in Nat \ {0}
  /\ MaxTimeouts \in Nat
  /\ MaxLogLen \in Nat
  /\ MaxRequests \in Nat
  /\ MaxReads \in Nat
  /\ MaxFaults \in Nat

Entry == [term : Nat, cmd : Command \cup {NoOp}]

ASSUME RecoveredAssumption ==
  /\ RecoveredTerm \in [Node -> Nat]
  /\ RecoveredVote \in [Node -> Node \cup {NoNode}]
  /\ RecoveredLog \in [Node -> Seq(Entry)]
  /\ RecoveredCommit \in [Node -> Nat]
  /\ RecoveredSnapshot \in [Node -> Nat]
  /\ \A i \in Node : /\ RecoveredSnapshot[i] <= RecoveredCommit[i]
                     /\ RecoveredCommit[i] <= Len(RecoveredLog[i])

VARIABLES
  role, term, votedFor, leaderID,
  recentLeaderContact,  \* a Leader was heard since the election timer fired
  votes, preVotes,      \* Nodes that granted a vote or pre-vote
  activePeers,          \* peers heard in this check-quorum window
  progress,             \* per peer: match and next index, requests in flight
  pendingReads,         \* per read: acknowledging Nodes, {} when not pending
  readReady,
  log, base,            \* all entries, and how many are compacted
  commitIndex, lastApplied,
  capture,              \* state captured by the running Snapshot, or <<>>
  files,                \* Snapshot files on disk, each an applied prefix
  incoming,             \* Snapshot being received
  msgs,
  ballots,              \* history: <<term, voter, candidate>> of every vote
  elected,              \* history: <<term, Node>> of every Leader
  issued, served,       \* history: read floors, and completed reads
  timeouts, faults      \* history: timer expirations and faults so far

hardVars == <<term, votedFor>>
electionVars == <<role, leaderID, recentLeaderContact, votes, preVotes>>
leaderVars == <<activePeers, progress, pendingReads, readReady>>
logVars == <<log, base, commitIndex, lastApplied>>
snapshotVars == <<capture, files, incoming>>
historyVars == <<ballots, elected, issued, served, timeouts, faults>>
vars == <<hardVars, electionVars, leaderVars, logVars, snapshotVars, msgs, historyVars>>

Read == 1..MaxReads

Peers(i) == Node \ {i}

quorum == Cardinality(Node) \div 2 + 1

\* An earlier run of the Cluster left what is recovered: terms do not fall along a
\* log or exceed the Node's own, entries of one term were appended by one Leader,
\* which a quorum elected, and a vote was asked for in its term.
ASSUME RecoveredHistoryAssumption ==
  /\ \A i \in Node : \A b \in 1..Len(RecoveredLog[i]) :
       LET t == RecoveredLog[i][b].term
       IN /\ 1 <= t /\ t <= RecoveredTerm[i]
          /\ \A a \in 1..b : RecoveredLog[i][a].term <= t
          /\ \A j \in Node : \A a \in 1..Len(RecoveredLog[j]) :
               a <= b /\ RecoveredLog[j][a].term = t =>
                 \A x \in 1..a : RecoveredLog[j][x] = RecoveredLog[i][x]
          /\ \E c \in Node :
               /\ RecoveredTerm[c] >= t
               /\ LET left == {v \in Node : RecoveredTerm[v] > t}
                      gave == {v \in Node : RecoveredTerm[v] = t /\ RecoveredVote[v] = c}
                  IN Cardinality(left \cup gave) >= quorum
  /\ \A v, c \in Node : RecoveredVote[v] = c => RecoveredTerm[c] >= RecoveredTerm[v]

\* Mutant: an unset next index is -1.
NoProgressSentinel == [match |-> 0, next |-> -1, append |-> 0, commit |-> 0,
                       snapshot |-> 0, requests |-> 0]

NoProgress == [match |-> 0, next |-> 0, append |-> 0, commit |-> 0,
               snapshot |-> 0, requests |-> 0]

NoReads == [r \in Read |-> {}]

NoIncoming == [state |-> <<>>, from |-> NoNode, received |-> 0]

-----------------------------------------------------------------------------
(* Sends *)

Send(sent) == msgs' = msgs \cup sent

Reply(m, sent) == msgs' = (msgs \ {m}) \cup sent

VoteRequestTo(i, type, forTerm) ==
  {[type |-> type, from |-> i, to |-> j, term |-> forTerm,
    lastIndex |-> Len(log[i]), lastTerm |-> LastLogTerm(log[i])] : j \in Peers(i)}

AppendEntriesResponse(m, curTerm, success, match, hint) ==
  [type |-> "AppendEntriesResponse", from |-> m.to, to |-> m.from,
   term |-> curTerm, request |-> m.request, success |-> success,
   match |-> match, conflictTerm |-> hint.term, conflictIndex |-> hint.index,
   read |-> m.read]

NoHint == [term |-> 0, index |-> 0]

SnapshotResponse(m, curTerm, success, next, done) ==
  [type |-> "InstallSnapshotResponse", from |-> m.to, to |-> m.from,
   term |-> curTerm, request |-> m.request, index |-> Len(m.state),
   success |-> success, next |-> next, done |-> done]

\* One chunk of Leader i's newest Snapshot, as transport.sendSnapshot reads it.
SnapshotChunk(i, j, request, offset) ==
  [type |-> "InstallSnapshot", from |-> i, to |-> j, term |-> term[i],
   request |-> request, state |-> Prefix(log[i], base[i]), offset |-> offset]

\* The oldest read that the peer has not acknowledged, or 0.
PendingReadFor(reads, j) ==
  LET open == {r \in Read : reads[r] # {} /\ j \notin reads[r]}
  IN IF open = {} THEN 0 ELSE Min(open)

\* sendAppendEntriesTo: what Leader i sends one peer, given its progress p, the
\* log and the commit index, and the progress afterwards.
SendAppendEntriesTo(i, j, p, entries, commit, read) ==
  LET next == IF p.next = 0 \/ p.next > Len(entries) + 1 THEN Len(entries) + 1 ELSE p.next
      id   == p.requests + 1
  IN CASE p.append # 0 -> [progress |-> p, sent |-> {}]
       [] p.append = 0 /\ next <= base[i] /\ p.snapshot # 0 ->
            [progress |-> p, sent |-> {}]
       [] p.append = 0 /\ next <= base[i] /\ p.snapshot = 0 ->
            [progress |-> [p EXCEPT !.snapshot = id, !.requests = id],
             sent |-> {SnapshotChunk(i, j, id, 0)}]
       [] p.append = 0 /\ next > base[i] ->
            [progress |-> [p EXCEPT !.append = id, !.commit = commit, !.requests = id],
             sent |-> {[type |-> "AppendEntries", from |-> i, to |-> j,
                        term |-> term[i], request |-> id, prevIndex |-> next - 1,
                        prevTerm |-> TermAt(entries, base[i], next - 1),
                        entries |-> EntriesBatch(entries, next),
                        commit |-> commit, read |-> read]}]

\* sendAppendEntries: the same for every peer.
SendAppendEntries(i, prog, entries, commit, read, reads) ==
  LET out == [j \in Peers(i) |->
                SendAppendEntriesTo(i, j, prog[j], entries, commit,
                  IF read # 0 THEN read ELSE PendingReadFor(reads, j))]
  IN [progress |-> [j \in Node |-> IF j = i THEN prog[i] ELSE out[j].progress],
      sent |-> UNION {out[j].sent : j \in Peers(i)}]

\* Progress p of a peer to which messages could not be handed over
\* (AppendEntriesFailed, which the loop reports in the step that sent them).
HandleAppendEntriesFailed(p, lost) ==
  LET failed(id) == \E m \in lost : m.request = id
  IN [p EXCEPT !.append   = IF failed(p.append) THEN 0 ELSE p.append,
               !.commit   = IF failed(p.append) THEN 0 ELSE p.commit,
               !.snapshot = IF failed(p.snapshot) THEN 0 ELSE p.snapshot]

\* The sends of Leader i, to some peers in vain.  A failed send may still arrive.
SendFrom(i, out, inFlight) ==
  \E failed \in SUBSET {m.to : m \in out.sent} :
    /\ faults + Cardinality(failed) <= MaxFaults
    /\ faults' = faults + Cardinality(failed)
    /\ msgs' = inFlight \cup out.sent
    /\ progress' = [progress EXCEPT ![i] = [j \in Node |->
         HandleAppendEntriesFailed(out.progress[j],
                                   {m \in out.sent : m.to = j /\ j \in failed})]]

\* One of the election, heartbeat and check-quorum timers of a Node expires.
TimerExpires ==
  /\ timeouts < MaxTimeouts
  /\ timeouts' = timeouts + 1

RequestsBounded(i) == \A j \in Node : progress'[i][j].requests <= MaxRequests

-----------------------------------------------------------------------------
(* Roles *)

\* Mutant: a vote is forgotten whenever a request is handled.
VoteInForgotten(i, t) == NoNode

\* The vote Node i holds once it is in term t.
VoteIn(i, t) == IF t > term[i] THEN NoNode ELSE votedFor[i]

\* The progress of a Node that does not lead.  Request ids are not used twice in
\* the life of a process.
ForgetProgress(i) ==
  [j \in Node |-> [NoProgress EXCEPT !.requests = progress[i][j].requests]]

\* becomeFollower, except for votedFor.
BecomeFollowerWith(i, t, leader, prog) ==
  /\ role' = [role EXCEPT ![i] = "Follower"]
  /\ term' = [term EXCEPT ![i] = t]
  /\ leaderID' = [leaderID EXCEPT ![i] = leader]
  /\ recentLeaderContact' = [recentLeaderContact EXCEPT ![i] = leader # NoNode]
  /\ votes' = [votes EXCEPT ![i] = {}]
  /\ preVotes' = [preVotes EXCEPT ![i] = {}]
  /\ activePeers' = [activePeers EXCEPT ![i] = {}]
  /\ progress' = [progress EXCEPT ![i] = prog]
  /\ pendingReads' = [pendingReads EXCEPT ![i] = NoReads]
  /\ readReady' = [readReady EXCEPT ![i] = FALSE]

BecomeFollower(i, t, leader) == BecomeFollowerWith(i, t, leader, ForgetProgress(i))

\* A response of a higher term: adopt it, save the hard state, answer nothing.
StepDown(m, t) ==
  /\ t > term[m.to]
  /\ BecomeFollower(m.to, t, NoNode)
  /\ votedFor' = [votedFor EXCEPT ![m.to] = NoNode]
  /\ Reply(m, {})
  /\ UNCHANGED <<logVars, snapshotVars, historyVars>>

\* The contact with a Leader that AppendEntries and InstallSnapshot share.
FollowLeader(i, t, leader) ==
  /\ votedFor' = [votedFor EXCEPT ![i] = VoteIn(i, t)]
  /\ IF t > term[i]
       THEN BecomeFollower(i, t, leader)
       ELSE /\ role' = [role EXCEPT ![i] = "Follower"]
            /\ leaderID' = [leaderID EXCEPT ![i] = leader]
            /\ recentLeaderContact' = [recentLeaderContact EXCEPT ![i] = TRUE]
            /\ readReady' = [readReady EXCEPT ![i] = FALSE]
            /\ UNCHANGED <<term, votes, preVotes, activePeers, progress, pendingReads>>

\* The newest Snapshot file that the recovered WAL is compatible with.
NewestSnapshot(i, entries, disk) ==
  LET fits == {f \in disk : /\ Len(f) <= commitIndex[i]
                            /\ Matches(entries, 0, Len(f), LastLogTerm(f))}
  IN IF fits = {} THEN <<>> ELSE CHOOSE f \in fits : \A g \in fits : Len(f) >= Len(g)

\* A process that starts from the durable hard state, log and files given: open
\* the WAL, load the newest Snapshot, apply the committed suffix.
Recover(i, t, vote, entries, disk, inFlight) ==
  LET image == NewestSnapshot(i, entries, disk)
  IN /\ BecomeFollowerWith(i, t, NoNode, [j \in Node |-> NoProgress])
     /\ votedFor' = [votedFor EXCEPT ![i] = vote]
     /\ log' = [log EXCEPT ![i] = image \o SubSeq(entries, Len(image) + 1, Len(entries))]
     /\ base' = [base EXCEPT ![i] = Len(image)]
     /\ lastApplied' = [lastApplied EXCEPT ![i] = commitIndex[i]]
     /\ capture' = [capture EXCEPT ![i] = <<>>]
     /\ files' = [files EXCEPT ![i] = disk]
     /\ incoming' = [incoming EXCEPT ![i] = NoIncoming]
     /\ msgs' = inFlight
     /\ faults < MaxFaults
     /\ faults' = faults + 1
     /\ UNCHANGED <<commitIndex, ballots, elected, issued, served, timeouts>>

Init ==
  /\ role = [i \in Node |-> "Follower"]
  /\ term = RecoveredTerm
  /\ votedFor = RecoveredVote
  /\ leaderID = [i \in Node |-> NoNode]
  /\ recentLeaderContact = [i \in Node |-> FALSE]
  /\ votes = [i \in Node |-> {}]
  /\ preVotes = [i \in Node |-> {}]
  /\ activePeers = [i \in Node |-> {}]
  /\ progress = [i \in Node |-> [j \in Node |-> NoProgress]]
  /\ pendingReads = [i \in Node |-> NoReads]
  /\ readReady = [i \in Node |-> FALSE]
  /\ log = RecoveredLog
  /\ base = RecoveredSnapshot
  /\ commitIndex = RecoveredCommit
  /\ lastApplied = RecoveredCommit
  /\ capture = [i \in Node |-> <<>>]
  /\ files = [i \in Node |-> {Prefix(log[i], k) : k \in {base[i]} \ {0}}]
  /\ incoming = [i \in Node |-> NoIncoming]
  /\ msgs = {}
  /\ ballots = {<<term[i], i, votedFor[i]>> : i \in {j \in Node : votedFor[j] # NoNode}}
  /\ elected = {}
  /\ issued = <<>>
  /\ served = {}
  /\ timeouts = 0
  /\ faults = 0

-----------------------------------------------------------------------------
(* Elections *)

StartPreVote(i) ==
  /\ role[i] # "Leader"
  /\ TimerExpires
  /\ recentLeaderContact' = [recentLeaderContact EXCEPT ![i] = FALSE]
  /\ leaderID' = [leaderID EXCEPT ![i] = NoNode]
  /\ role' = [role EXCEPT ![i] = "PreCandidate"]
  /\ preVotes' = [preVotes EXCEPT ![i] = {i}]
  /\ Send(VoteRequestTo(i, "PreVoteRequest", term[i] + 1))
  /\ UNCHANGED <<hardVars, votes, leaderVars, logVars, snapshotVars,
                 ballots, elected, issued, served, faults>>

HandlePreVoteRequest(m) ==
  LET i == m.to
      grant == /\ m.term >= term[i] + 1
               /\ ~recentLeaderContact[i]
               /\ LogIsAtLeastAsUpToDate(m.lastTerm, m.lastIndex,
                                         LastLogTerm(log[i]), Len(log[i]))
  IN /\ m.type = "PreVoteRequest"
     /\ Reply(m, {[type |-> "PreVoteResponse", from |-> i, to |-> m.from,
               term |-> m.term, currentTerm |-> term[i], granted |-> grant]})
     /\ UNCHANGED <<hardVars, electionVars, leaderVars, logVars, snapshotVars, historyVars>>

\* The vote for itself is durable before any VoteRequest leaves the Node.
StartElection(m) ==
  LET i == m.to
  IN /\ role' = [role EXCEPT ![i] = "Candidate"]
     /\ term' = [term EXCEPT ![i] = term[i] + 1]
     /\ votedFor' = [votedFor EXCEPT ![i] = i]
     /\ leaderID' = [leaderID EXCEPT ![i] = NoNode]
     /\ readReady' = [readReady EXCEPT ![i] = FALSE]
     /\ votes' = [votes EXCEPT ![i] = {i}]
     /\ ballots' = ballots \cup {<<term[i] + 1, i, i>>}
     /\ Reply(m, VoteRequestTo(i, "VoteRequest", term[i] + 1))

HandlePreVoteResponse(m) ==
  LET i == m.to
      granted == preVotes[i] \cup {m.from}
  IN /\ m.type = "PreVoteResponse"
     /\ \/ StepDown(m, m.currentTerm)
        \/ /\ m.currentTerm <= term[i]
           /\ role[i] = "PreCandidate"
           /\ m.term = term[i] + 1
           /\ m.granted
           /\ preVotes' = [preVotes EXCEPT ![i] = granted]
           /\ IF Cardinality(granted) < quorum
                THEN /\ Reply(m, {})
                     /\ UNCHANGED <<hardVars, role, leaderID, votes, readReady, ballots>>
                ELSE StartElection(m)
           /\ UNCHANGED <<recentLeaderContact, activePeers, progress, pendingReads, logVars,
                          snapshotVars, elected, issued, served, timeouts, faults>>

HandleVoteRequest(m) ==
  LET i == m.to
      grant == /\ m.term >= term[i]
               /\ VoteIn(i, m.term) \in {NoNode, m.from}
               /\ LogIsAtLeastAsUpToDate(m.lastTerm, m.lastIndex,
                                         LastLogTerm(log[i]), Len(log[i]))
  IN /\ m.type = "VoteRequest"
     /\ votedFor' = [votedFor EXCEPT ![i] = IF grant THEN m.from ELSE VoteIn(i, m.term)]
     /\ IF m.term > term[i]
          THEN BecomeFollower(i, m.term, NoNode)
          ELSE UNCHANGED <<term, electionVars, leaderVars>>
     /\ Reply(m, {[type |-> "VoteResponse", from |-> i, to |-> m.from,
               term |-> Larger(term[i], m.term), granted |-> grant]})
     /\ ballots' = IF grant THEN ballots \cup {<<m.term, i, m.from>>} ELSE ballots
     /\ UNCHANGED <<logVars, snapshotVars, elected, issued, served, timeouts, faults>>

\* The Leader's first step: append the NoOp, make it durable, probe every peer.
BecomeLeader(m) ==
  LET i       == m.to
      entries == Append(log[i], [term |-> term[i], cmd |-> NoOp])
      fresh   == [j \in Node |-> [ForgetProgress(i)[j] EXCEPT !.next = Len(entries) + 1]]
      out     == SendAppendEntries(i, fresh, entries, commitIndex[i], 0, pendingReads[i])
  IN /\ role' = [role EXCEPT ![i] = "Leader"]
     /\ leaderID' = [leaderID EXCEPT ![i] = i]
     /\ activePeers' = [activePeers EXCEPT ![i] = {}]
     /\ readReady' = [readReady EXCEPT ![i] = FALSE]
     /\ log' = [log EXCEPT ![i] = entries]
     /\ SendFrom(i, out, msgs \ {m})
     /\ elected' = elected \cup {<<term[i], i>>}

HandleVoteResponse(m) ==
  LET i == m.to
      granted == votes[i] \cup {m.from}
  IN /\ m.type = "VoteResponse"
     /\ \/ StepDown(m, m.term)
        \/ /\ role[i] = "Candidate"
           /\ m.term = term[i]
           /\ m.granted
           /\ votes' = [votes EXCEPT ![i] = granted]
           /\ IF Cardinality(granted) < quorum
                THEN /\ Reply(m, {})
                     /\ UNCHANGED <<role, leaderID, activePeers, readReady, log,
                                    progress, elected, faults>>
                ELSE BecomeLeader(m)
           /\ UNCHANGED <<hardVars, recentLeaderContact, preVotes, pendingReads, base, commitIndex,
                          lastApplied, snapshotVars, ballots, issued, served, timeouts>>

CheckQuorum(i) ==
  /\ role[i] = "Leader"
  /\ TimerExpires
  /\ IF Cardinality(activePeers[i]) + 1 < quorum
       THEN BecomeFollower(i, term[i], NoNode)
       ELSE /\ activePeers' = [activePeers EXCEPT ![i] = {}]
            /\ UNCHANGED <<term, electionVars, progress, pendingReads, readReady>>
  /\ UNCHANGED <<votedFor, logVars, snapshotVars, msgs, ballots, elected, issued, served, faults>>

-----------------------------------------------------------------------------
(* Proposals, reads and heartbeats of a Leader *)

\* ProposeSession, ProposeSet and ProposeDelete differ only in the command.
Propose(i, cmd) ==
  LET entries == Append(log[i], [term |-> term[i], cmd |-> cmd])
      out == SendAppendEntries(i, progress[i], entries, commitIndex[i], 0, pendingReads[i])
  IN /\ role[i] = "Leader"
     /\ Len(log[i]) < MaxLogLen
     /\ log' = [log EXCEPT ![i] = entries]
     /\ SendFrom(i, out, msgs)
     /\ RequestsBounded(i)
     /\ UNCHANGED <<hardVars, electionVars, activePeers, pendingReads, readReady, base, commitIndex,
                    lastApplied, snapshotVars, ballots, elected, issued, served, timeouts>>

\* The floor of a read is what is committed anywhere when it is issued.
ConfirmRead(i) ==
  LET r     == Len(issued) + 1
      reads == [pendingReads[i] EXCEPT ![r] = {i}]
      out   == SendAppendEntries(i, progress[i], log[i], commitIndex[i], r, reads)
  IN /\ role[i] = "Leader"
     /\ readReady[i]
     /\ Len(issued) < MaxReads
     /\ issued' = Append(issued, commitIndex)
     /\ pendingReads' = [pendingReads EXCEPT ![i] = reads]
     /\ SendFrom(i, out, msgs)
     /\ RequestsBounded(i)
     /\ UNCHANGED <<hardVars, electionVars, activePeers, readReady, logVars,
                    snapshotVars, ballots, elected, served, timeouts>>

\* The heartbeat interval is the response deadline of the appends in flight.
HeartbeatRound(i) ==
  LET idle == [j \in Node |-> [progress[i][j] EXCEPT !.append = 0, !.commit = 0]]
      out  == SendAppendEntries(i, idle, log[i], commitIndex[i], 0, pendingReads[i])
  IN /\ role[i] = "Leader"
     /\ TimerExpires
     /\ SendFrom(i, out, msgs)
     /\ RequestsBounded(i)
     /\ UNCHANGED <<hardVars, electionVars, activePeers, pendingReads, readReady, logVars,
                    snapshotVars, ballots, elected, issued, served>>

-----------------------------------------------------------------------------
(* Replication *)

\* What a request that matches at prevIndex does to Node i's log.
Merge(i, m) ==
  LET add == EntriesToAppend(log[i], base[i], commitIndex[i], m.prevIndex, m.entries)
      cut == IF add.truncateFrom = 0 THEN log[i] ELSE TruncateLog(log[i], add.truncateFrom)
  IN [ok |-> add.ok, kept |-> cut, added |-> add.entries]

PrevMatches(i, m) == Matches(log[i], base[i], m.prevIndex, m.prevTerm)

\* advanceFollowerCommit and the application of what it commits.
FollowerCommit(i, commit, lastIndex) == Larger(commitIndex[i], Smaller(commit, lastIndex))

HandleAppendEntries(m) ==
  LET i      == m.to
      merge  == Merge(i, m)
      merged == merge.kept \o merge.added
      commit == FollowerCommit(i, m.commit, Len(merged))
      reject(hint) == Reply(m, {AppendEntriesResponse(m, m.term, FALSE, Len(log[i]), hint)})
  IN /\ m.type = "AppendEntries"
     /\ \/ /\ m.term < term[i]
           /\ Reply(m, {AppendEntriesResponse(m, term[i], FALSE, Len(log[i]), NoHint)})
           /\ UNCHANGED <<hardVars, electionVars, leaderVars, logVars>>
        \/ /\ m.term >= term[i]
           /\ ~PrevMatches(i, m)
           /\ FollowLeader(i, m.term, m.from)
           /\ reject(ConflictHint(log[i], base[i], m.prevIndex))
           /\ UNCHANGED logVars
        \/ /\ m.term >= term[i]
           /\ PrevMatches(i, m)
           /\ ~merge.ok
           /\ FollowLeader(i, m.term, m.from)
           /\ reject(ConflictHint(log[i], base[i], m.prevIndex + 1))
           /\ UNCHANGED logVars
        \/ /\ m.term >= term[i]
           /\ PrevMatches(i, m)
           /\ merge.ok
           /\ FollowLeader(i, m.term, m.from)
           /\ log' = [log EXCEPT ![i] = merged]
           /\ commitIndex' = [commitIndex EXCEPT ![i] = commit]
           /\ lastApplied' = [lastApplied EXCEPT ![i] = commit]
           /\ Reply(m, {AppendEntriesResponse(m, m.term, TRUE, Len(merged), NoHint)})
           /\ UNCHANGED base
     /\ UNCHANGED <<snapshotVars, historyVars>>

\* The process dies between two WAL writes of one AppendEntries: the hard state
\* is saved, and the log is as before, or cut and followed by some of the new
\* entries.
CrashInAppendEntries(m) ==
  LET i     == m.to
      merge == Merge(i, m)
      Cut(written) == merge.kept \o SubSeq(merge.added, 1, written)
  IN /\ m.type = "AppendEntries"
     /\ m.term >= term[i]
     /\ PrevMatches(i, m)
     /\ merge.ok
     /\ \E entries \in {log[i]} \cup {Cut(written) : written \in 0..Len(merge.added)} :
          Recover(i, m.term, VoteIn(i, m.term), entries, files[i], msgs \ {m})

\* Mutant: an entry of any term is committed by counting.
LeaderCommitAnyTerm(i, prog) ==
  Max({commitIndex[i]} \cup
      {k \in (commitIndex[i] + 1)..Len(log[i]) :
         Cardinality({j \in Peers(i) : prog[j].match >= k}) + 1 >= quorum})

\* Mutant: the Leader counts itself twice.
LeaderCommitSelfTwice(i, prog) ==
  Max({commitIndex[i]} \cup
      {k \in (commitIndex[i] + 1)..Len(log[i]) :
         /\ TermAt(log[i], base[i], k) = term[i]
         /\ Cardinality({j \in Node : prog[j].match >= k \/ j = i}) + 1 >= quorum})

\* advanceLeaderCommit: the highest entry of the Leader's own term that a
\* quorum holds.
LeaderCommit(i, prog) ==
  Max({commitIndex[i]} \cup
      {k \in (commitIndex[i] + 1)..Len(log[i]) :
         /\ TermAt(log[i], base[i], k) = term[i]
         /\ Cardinality({j \in Peers(i) : prog[j].match >= k}) + 1 >= quorum})

\* Mutant: the first response makes a Leader read ready.
AppliesAnything(i, through) == TRUE

\* applyThrough: applying the NoOp of its own term makes a Leader read ready.
AppliesOwnNoOp(i, through) ==
  \E k \in (lastApplied[i] + 1)..through : log[i][k] = [term |-> term[i], cmd |-> NoOp]

\* Mutant: any response of the peer acknowledges the oldest pending read.
AcknowledgeAnyRead(i, m, applied) ==
  LET open == PendingReadFor(pendingReads[i], m.from)
  IN IF open = 0
       THEN UNCHANGED <<pendingReads, served>>
       ELSE /\ pendingReads' = [pendingReads EXCEPT ![i][open] = {}]
            /\ served' = served \cup {[read |-> open, index |-> applied]}

\* acknowledgeRead and completeReads: a quorum of acknowledgements completes the
\* read at the applied index.
AcknowledgeRead(i, m, applied) ==
  LET acks == pendingReads[i][m.read] \cup {m.from}
  IN IF m.read = 0
       THEN UNCHANGED <<pendingReads, served>>
       ELSE IF pendingReads[i][m.read] = {}
       THEN UNCHANGED <<pendingReads, served>>
       ELSE IF Cardinality(acks) < quorum
       THEN /\ pendingReads' = [pendingReads EXCEPT ![i][m.read] = acks]
            /\ UNCHANGED served
       ELSE /\ pendingReads' = [pendingReads EXCEPT ![i][m.read] = {}]
            /\ served' = served \cup {[read |-> m.read, index |-> applied]}

HandleAppendEntriesResponse(m) ==
  LET i == m.to
      j == m.from
      p == progress[i][j]
      match  == IF m.success THEN Larger(p.match, m.match) ELSE p.match
      next   == IF m.success THEN match + 1
                ELSE NextIndexFromConflict(log[i], base[i], m.conflictTerm, m.conflictIndex)
      idle   == [p EXCEPT !.append = 0, !.commit = 0, !.match = match, !.next = next]
      prog   == [progress[i] EXCEPT ![j] = idle]
      commit == LeaderCommit(i, prog)
      read   == PendingReadFor(pendingReads[i], j)
      resend == \/ ~m.success
                \/ next <= Len(log[i])
                \/ read # 0
                \/ p.commit < commitIndex[i]
      one    == SendAppendEntriesTo(i, j, idle, log[i], commitIndex[i], read)
      out    == IF commit > commitIndex[i]
                  THEN SendAppendEntries(i, prog, log[i], commit, 0, pendingReads[i])
                ELSE IF resend
                  THEN [progress |-> [prog EXCEPT ![j] = one.progress], sent |-> one.sent]
                  ELSE [progress |-> prog, sent |-> {}]
      applied == IF commit > commitIndex[i] THEN commit ELSE lastApplied[i]
  IN /\ m.type = "AppendEntriesResponse"
     /\ \/ StepDown(m, m.term)
        \/ /\ role[i] = "Leader"
           /\ m.term = term[i]
           /\ p.append \in {0, m.request}
           /\ activePeers' = [activePeers EXCEPT ![i] = activePeers[i] \cup {j}]
           /\ SendFrom(i, out, msgs \ {m})
           /\ RequestsBounded(i)
           /\ commitIndex' = [commitIndex EXCEPT ![i] = commit]
           /\ lastApplied' = [lastApplied EXCEPT ![i] = applied]
           /\ readReady' = [readReady EXCEPT ![i] = readReady[i] \/ AppliesOwnNoOp(i, applied)]
           /\ AcknowledgeRead(i, m, applied)
           /\ UNCHANGED <<hardVars, electionVars, log, base, snapshotVars,
                          ballots, elected, issued, timeouts>>

-----------------------------------------------------------------------------
(* Snapshots *)

\* The loop captures the applied state, a goroutine saves it and compacts the
\* WAL, and its completion comes back to the loop.
StartSnapshot(i) ==
  /\ capture[i] = <<>>
  /\ lastApplied[i] >= base[i] + SnapshotThreshold
  /\ capture' = [capture EXCEPT ![i] = Prefix(log[i], lastApplied[i])]
  /\ UNCHANGED <<hardVars, electionVars, leaderVars, logVars, files, incoming, msgs, historyVars>>

SaveSnapshot(i) ==
  /\ capture[i] # <<>>
  /\ capture[i] \notin files[i]
  /\ files' = [files EXCEPT ![i] = files[i] \cup {capture[i]}]
  /\ UNCHANGED <<hardVars, electionVars, leaderVars, logVars, capture, incoming, msgs, historyVars>>

\* SnapshotCompacted: ignored when the log has moved on meanwhile.
FinishSnapshot(i) ==
  LET index == Len(capture[i])
  IN /\ capture[i] # <<>>
     /\ capture[i] \in files[i]
     /\ base' = [base EXCEPT ![i] =
          IF /\ index > base[i]
             /\ index <= lastApplied[i]
             /\ TermAt(log[i], base[i], index) = LastLogTerm(capture[i])
            THEN index ELSE base[i]]
     /\ capture' = [capture EXCEPT ![i] = <<>>]
     /\ UNCHANGED <<hardVars, electionVars, leaderVars, log, commitIndex, lastApplied,
                    files, incoming, msgs, historyVars>>

\* The transfer that the loop assembles from chunk m: its file, whether the
\* chunk fits, and what stays staged.
Stage(i, m) ==
  LET staged == IF m.offset = 0
                  THEN [state |-> m.state, from |-> m.from, received |-> 0]
                  ELSE incoming[i]
      fits   == staged = [state |-> m.state, from |-> m.from, received |-> m.offset]
  IN [fits |-> fits,
      done |-> fits /\ m.offset = Chunks - 1,
      next |-> IF fits THEN m.offset + 1 ELSE 0,
      left |-> IF ~fits THEN staged
               ELSE IF m.offset = Chunks - 1 THEN NoIncoming
               ELSE [staged EXCEPT !.received = m.offset + 1]]

\* Mutant: the suffix is kept whatever its boundary entry is.
RetainAnySuffix(i, state) == Len(state) <= Len(log[i])

\* Mutant: the log is always replaced.
RetainNothing(i, state) == FALSE

\* A received Snapshot keeps the log beyond it when the log holds its last entry.
RetainSuffix(i, state) ==
  /\ Len(state) <= Len(log[i])
  /\ TermAt(log[i], base[i], Len(state)) = LastLogTerm(state)

\* Mutant: the commit index stays behind the Snapshot.
SnapshotCommitUnraised(i, index) == commitIndex[i]

SnapshotCommit(i, index) == Larger(commitIndex[i], index)

\* A complete transfer is saved as a file before the core sees the request.
HandleInstallSnapshot(m) ==
  LET i     == m.to
      stage == Stage(i, m)
      index == Len(m.state)
  IN /\ m.type = "InstallSnapshot"
     /\ incoming' = [incoming EXCEPT ![i] = stage.left]
     /\ files' = [files EXCEPT ![i] = IF stage.done THEN files[i] \cup {m.state} ELSE files[i]]
     /\ \/ /\ m.term < term[i]
           /\ Reply(m, {SnapshotResponse(m, term[i], FALSE, m.offset, FALSE)})
           /\ UNCHANGED <<hardVars, electionVars, leaderVars, logVars>>
        \/ /\ m.term >= term[i]
           /\ ~(stage.done /\ index > base[i])
           /\ FollowLeader(i, m.term, m.from)
           /\ Reply(m, {SnapshotResponse(m, m.term, stage.fits, stage.next, stage.done)})
           /\ UNCHANGED logVars
        \/ /\ m.term >= term[i]
           /\ stage.done
           /\ index > base[i]
           /\ FollowLeader(i, m.term, m.from)
           /\ log' = [log EXCEPT ![i] =
                IF RetainSuffix(i, m.state)
                  THEN m.state \o SubSeq(log[i], index + 1, Len(log[i]))
                  ELSE m.state]
           /\ base' = [base EXCEPT ![i] = index]
           /\ commitIndex' = [commitIndex EXCEPT ![i] = SnapshotCommit(i, index)]
           /\ lastApplied' = [lastApplied EXCEPT ![i] = index]
           /\ Reply(m, {SnapshotResponse(m, m.term, TRUE, stage.next, TRUE)})
     /\ UNCHANGED <<capture, historyVars>>

\* The process dies after the file is saved, with or without the hard state, and
\* before the WAL records the Snapshot.
CrashInInstallSnapshot(m) ==
  LET i == m.to
  IN /\ m.type = "InstallSnapshot"
     /\ m.term >= term[i]
     /\ Stage(i, m).done
     /\ \E t \in {term[i], m.term} :
          Recover(i, t, VoteIn(i, t), log[i], files[i] \cup {m.state}, msgs \ {m})

HandleInstallSnapshotResponse(m) ==
  LET i == m.to
      j == m.from
      p == progress[i][j]
      idle == [p EXCEPT !.snapshot = 0]
      done == [idle EXCEPT !.match = Larger(p.match, m.index), !.next = m.index + 1]
      more == SendAppendEntriesTo(i, j, done, log[i], commitIndex[i],
                                  PendingReadFor(pendingReads[i], j))
      out  == IF ~m.success THEN [progress |-> idle, sent |-> {}]
              ELSE IF ~m.done
                THEN [progress |-> p, sent |-> {SnapshotChunk(i, j, m.request, m.next)}]
                ELSE more
  IN /\ m.type = "InstallSnapshotResponse"
     /\ \/ StepDown(m, m.term)
        \/ /\ role[i] = "Leader"
           /\ m.term = term[i]
           /\ p.snapshot = m.request
           /\ SendFrom(i, [progress |-> [progress[i] EXCEPT ![j] = out.progress],
                           sent |-> out.sent], msgs \ {m})
           /\ RequestsBounded(i)
           /\ UNCHANGED <<hardVars, electionVars, activePeers, pendingReads, readReady, logVars,
                          snapshotVars, ballots, elected, issued, served, timeouts>>

-----------------------------------------------------------------------------
\* Mutant: the vote is not recovered.
RestartWithoutVote(i) == Recover(i, term[i], NoNode, log[i], files[i], msgs)

Restart(i) == Recover(i, term[i], votedFor[i], log[i], files[i], msgs)

Receive(m) ==
  \/ HandlePreVoteRequest(m)
  \/ HandlePreVoteResponse(m)
  \/ HandleVoteRequest(m)
  \/ HandleVoteResponse(m)
  \/ HandleAppendEntries(m)
  \/ HandleAppendEntriesResponse(m)
  \/ HandleInstallSnapshot(m)
  \/ HandleInstallSnapshotResponse(m)
  \/ CrashInAppendEntries(m)
  \/ CrashInInstallSnapshot(m)

Local(i) ==
  \/ StartPreVote(i)
  \/ CheckQuorum(i)
  \/ \E cmd \in Command : Propose(i, cmd)
  \/ ConfirmRead(i)
  \/ HeartbeatRound(i)
  \/ StartSnapshot(i)
  \/ SaveSnapshot(i)
  \/ FinishSnapshot(i)
  \/ Restart(i)

Next ==
  \/ \E m \in msgs : m.to \in Up /\ Receive(m)
  \/ \E i \in Up : Local(i)

Spec == Init /\ [][Next]_vars

=============================================================================
