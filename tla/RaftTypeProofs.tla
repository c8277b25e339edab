--------------------------- MODULE RaftTypeProofs ---------------------------
(***************************************************************************)
(* The type invariant of Raft, for every Cluster, command set and bound.   *)
(***************************************************************************)
EXTENDS RaftInvariants, RaftLogProofs

\* The conjuncts of TypeOK by the groups of variables that steps change together.
HardType == /\ term \in [Node -> Nat]
            /\ votedFor \in [Node -> Node \cup {NoNode}]

ElectionType == /\ role \in [Node -> Role]
                /\ leaderID \in [Node -> Node \cup {NoNode}]
                /\ recentLeaderContact \in [Node -> BOOLEAN]
                /\ votes \in [Node -> SUBSET Node]
                /\ preVotes \in [Node -> SUBSET Node]

LeaderType == /\ activePeers \in [Node -> SUBSET Node]
              /\ progress \in [Node -> [Node -> Progress]]
              /\ pendingReads \in [Node -> [Read -> SUBSET Node]]
              /\ readReady \in [Node -> BOOLEAN]

LogType == /\ log \in [Node -> Seq(Entry)]
           /\ base \in [Node -> Nat]
           /\ commitIndex \in [Node -> Nat]
           /\ lastApplied \in [Node -> Nat]

SnapshotType ==
  /\ capture \in [Node -> Seq(Entry)]
  /\ files \in [Node -> SUBSET Seq(Entry)]
  /\ incoming \in [Node -> [state : Seq(Entry), from : Node \cup {NoNode}, received : Nat]]

HistoryType == /\ ballots \subseteq Nat \X Node \X Node
               /\ elected \subseteq Nat \X Node
               /\ issued \in Seq([Node -> Nat])
               /\ served \subseteq [read : Read, index : Nat]
               /\ timeouts \in Nat
               /\ faults \in Nat

\* TypeOK is the conjunction of its groups.
LEMMA TypeGroups ==
  TypeOK <=> /\ HardType /\ ElectionType /\ LeaderType /\ LogType /\ SnapshotType
             /\ msgs \subseteq Message /\ HistoryType
BY Zenon DEF TypeOK, HardType, ElectionType, LeaderType, LogType, SnapshotType, HistoryType

\* The same after a step.
LEMMA TypeGroupsNext ==
  (/\ HardType /\ ElectionType /\ LeaderType /\ LogType /\ SnapshotType
   /\ msgs \subseteq Message /\ HistoryType)' => TypeOK'
BY Zenon DEF TypeOK, HardType, ElectionType, LeaderType, LogType, SnapshotType, HistoryType

\* An entry carries a term.
LEMMA EntryTerm == \A e \in Entry : e.term \in Nat
BY DEF Entry

\* Every message has a sender, a receiver and a term.
LEMMA MessageEnvelope == \A m \in Message : m.from \in Node /\ m.to \in Node /\ m.term \in Nat
BY DEF Message

-----------------------------------------------------------------------------
(* What a Leader sends *)

\* A read that is attached to a request is a read or none.
LEMMA PendingReadForType ==
  ASSUME LeastElements, NEW reads, NEW j
  PROVE  PendingReadFor(reads, j) \in Read \cup {0}
<1>. DEFINE open == {r \in Read : reads[r] # {} /\ j \notin reads[r]}
<1>1. open \in SUBSET Nat /\ open \subseteq Read
  BY BoundAssumption DEF Read
<1>2. open # {} => Min(open) \in open
  BY <1>1, MinIsLeast, Zenon
<1>. QED  BY <1>1, <1>2 DEF PendingReadFor

\* The messages that only a Leader sends.
LeaderMessage == {m \in Message : m.type \in {"AppendEntries", "InstallSnapshot"}}

\* A chunk is a message.
LEMMA SnapshotChunkType ==
  ASSUME HardType, LogType, NEW i \in Node, NEW j \in Node,
         NEW request \in Nat, NEW offset \in Nat
  PROVE  SnapshotChunk(i, j, request, offset) \in LeaderMessage
<1>1. Prefix(log[i], base[i]) \in Seq(Entry)
  BY PrefixType DEF LogType
<1>2. term[i] \in Nat
  BY DEF HardType
<1>. QED  BY <1>1, <1>2 DEF SnapshotChunk, LeaderMessage, Message

\* sendAppendEntriesTo keeps the progress of the peer typed and sends messages.
LEMMA SendAppendEntriesToType ==
  ASSUME HardType, LogType, NEW i \in Node, NEW j \in Node, NEW p \in Progress,
         NEW entries \in Seq(Entry), NEW commit \in Nat, NEW read \in Read \cup {0}
  PROVE  SendAppendEntriesTo(i, j, p, entries, commit, read)
           \in [progress : Progress, sent : SUBSET LeaderMessage]
<1>. DEFINE next == IF p.next = 0 \/ p.next > Len(entries) + 1 THEN Len(entries) + 1 ELSE p.next
            id   == p.requests + 1
            ae   == [type |-> "AppendEntries", from |-> i, to |-> j,
                     term |-> term[i], request |-> id, prevIndex |-> next - 1,
                     prevTerm |-> TermAt(entries, base[i], next - 1),
                     entries |-> EntriesBatch(entries, next),
                     commit |-> commit, read |-> read]
<1>1. /\ p.next \in Nat /\ p.requests \in Nat /\ p.append \in Nat /\ p.snapshot \in Nat
      /\ p.match \in Nat /\ p.commit \in Nat
  BY DEF Progress
<1>2. /\ next \in Nat \ {0} /\ next - 1 \in Nat /\ id \in Nat
  BY <1>1, LenProperties, SMTT(30)
<1>3. base[i] \in Nat /\ term[i] \in Nat
  BY DEF LogType, HardType
<1>4. TermAt(entries, base[i], next - 1) \in Nat
  <2>. HIDE DEF next
  <2>. QED  BY <1>2, <1>3, TermAtType, EntryTerm, Zenon
<1>5. EntriesBatch(entries, next) \in Seq(Entry)
  <2>. HIDE DEF next
  <2>. QED  BY <1>2, EntriesBatchType
<1>6. SnapshotChunk(i, j, id, 0) \in LeaderMessage
  <2>. HIDE DEF id
  <2>. QED  BY <1>2, SnapshotChunkType
<1>. HIDE DEF next, id
<1>7. ae \in LeaderMessage
  BY <1>2, <1>3, <1>4, <1>5 DEF Message, LeaderMessage
<1>. HIDE DEF ae
<1>8. /\ [p EXCEPT !.snapshot = id, !.requests = id] \in Progress
      /\ [p EXCEPT !.append = id, !.commit = commit, !.requests = id] \in Progress
  BY <1>1, <1>2, Zenon DEF Progress
<1>9. SendAppendEntriesTo(i, j, p, entries, commit, read)
        \in {[progress |-> p, sent |-> {}],
             [progress |-> [p EXCEPT !.snapshot = id, !.requests = id],
              sent |-> {SnapshotChunk(i, j, id, 0)}],
             [progress |-> [p EXCEPT !.append = id, !.commit = commit, !.requests = id],
              sent |-> {ae}]}
  BY <1>1, <1>2, <1>3 DEF SendAppendEntriesTo, next, id, ae
<1>. QED  BY <1>6, <1>7, <1>8, <1>9

\* sendAppendEntries does so for every peer.
LEMMA SendAppendEntriesType ==
  ASSUME LeastElements, HardType, LogType, NEW i \in Node, NEW prog \in [Node -> Progress],
         NEW entries \in Seq(Entry), NEW commit \in Nat, NEW read \in Read \cup {0}, NEW reads
  PROVE  SendAppendEntries(i, prog, entries, commit, read, reads)
           \in [progress : [Node -> Progress], sent : SUBSET LeaderMessage]
<1>. DEFINE rd(j) == IF read # 0 THEN read ELSE PendingReadFor(reads, j)
            out == [j \in Peers(i) |->
                      SendAppendEntriesTo(i, j, prog[j], entries, commit, rd(j))]
<1>1. \A j \in Peers(i) : out[j] \in [progress : Progress, sent : SUBSET LeaderMessage]
  <2>. SUFFICES ASSUME NEW j \in Peers(i)
                PROVE  SendAppendEntriesTo(i, j, prog[j], entries, commit, rd(j))
                         \in [progress : Progress, sent : SUBSET LeaderMessage]
    OBVIOUS
  <2>1. rd(j) \in Read \cup {0}
    BY PendingReadForType
  <2>2. j \in Node /\ prog[j] \in Progress
    BY DEF Peers
  <2>. HIDE DEF rd
  <2>. QED  BY <2>1, <2>2, SendAppendEntriesToType
<1>2. SendAppendEntries(i, prog, entries, commit, read, reads)
        = [progress |-> [j \in Node |-> IF j = i THEN prog[i] ELSE out[j].progress],
           sent |-> UNION {out[j].sent : j \in Peers(i)}]
  BY DEF SendAppendEntries
<1>. HIDE DEF out
<1>3. [j \in Node |-> IF j = i THEN prog[i] ELSE out[j].progress] \in [Node -> Progress]
  BY <1>1 DEF Peers
<1>4. UNION {out[j].sent : j \in Peers(i)} \subseteq LeaderMessage
  BY <1>1
<1>. QED  BY <1>2, <1>3, <1>4

\* Reporting failed sends keeps the progress typed.
LEMMA HandleAppendEntriesFailedType ==
  ASSUME NEW p \in Progress, NEW lost
  PROVE  HandleAppendEntriesFailed(p, lost) \in Progress
BY Zenon DEF HandleAppendEntriesFailed, Progress

\* The sends of a step leave the progress, the messages and the faults typed.
LEMMA SendFromType ==
  ASSUME CountsAreNat, TypeOK, NEW i \in Node, NEW inFlight \in SUBSET Message,
         NEW out \in [progress : [Node -> Progress], sent : SUBSET LeaderMessage],
         SendFrom(i, out, inFlight)
  PROVE  /\ progress' \in [Node -> [Node -> Progress]]
         /\ msgs' \subseteq Message
         /\ msgs' \subseteq inFlight \cup LeaderMessage
         /\ faults' \in Nat
<1>1. PICK failed \in SUBSET {m.to : m \in out.sent} :
        /\ faults' = faults + Cardinality(failed)
        /\ msgs' = inFlight \cup out.sent
        /\ progress' = [progress EXCEPT ![i] = [j \in Node |->
             HandleAppendEntriesFailed(out.progress[j],
                                       {m \in out.sent : m.to = j /\ j \in failed})]]
  BY Zenon DEF SendFrom
<1>2. /\ out.sent \subseteq LeaderMessage
      /\ out.sent \subseteq Message
      /\ \A j \in Node : out.progress[j] \in Progress
  BY DEF LeaderMessage
<1>3. failed \subseteq Node
  BY <1>2, MessageEnvelope
<1>4. Cardinality(failed) \in Nat
  BY <1>3, Zenon DEF CountsAreNat
<1>5. progress' \in [Node -> [Node -> Progress]]
  BY <1>1, <1>2, HandleAppendEntriesFailedType, Zenon DEF TypeOK
<1>6. faults' \in Nat
  BY <1>1, <1>4 DEF TypeOK
<1>. QED  BY <1>1, <1>2, <1>5, <1>6, Zenon

-----------------------------------------------------------------------------
(* Changes of role *)

\* A Node that does not lead keeps its request ids, and no other progress.
LEMMA ForgetProgressType ==
  ASSUME TypeOK, NEW i \in Node
  PROVE  ForgetProgress(i) \in [Node -> Progress]
<1>1. ASSUME NEW j \in Node
      PROVE  [NoProgress EXCEPT !.requests = progress[i][j].requests] \in Progress
  <2>1. progress[i][j] \in Progress
    BY DEF TypeOK
  <2>2. progress[i][j].requests \in Nat
    BY <2>1 DEF Progress
  <2>. QED  BY <2>2 DEF NoProgress, Progress
<1>. QED  BY <1>1 DEF ForgetProgress

\* becomeFollower leaves the variables it assigns typed.
LEMMA BecomeFollowerWithType ==
  ASSUME TypeOK, NEW i \in Node, NEW t \in Nat, NEW leader \in Node \cup {NoNode},
         NEW prog \in [Node -> Progress], BecomeFollowerWith(i, t, leader, prog)
  PROVE  /\ term' \in [Node -> Nat]
         /\ ElectionType'
         /\ LeaderType'
<1>3. NoReads \in [Read -> SUBSET Node]
  BY DEF NoReads
<1>4. progress' \in [Node -> [Node -> Progress]] /\ pendingReads' \in [Node -> [Read -> SUBSET Node]]
  BY <1>3, Zenon DEF TypeOK, BecomeFollowerWith
<1>5. recentLeaderContact' \in [Node -> BOOLEAN]
  BY Zenon DEF TypeOK, BecomeFollowerWith
<1>6. term' \in [Node -> Nat]
  BY DEF TypeOK, BecomeFollowerWith
<1>7. role' \in [Node -> Role] /\ leaderID' \in [Node -> Node \cup {NoNode}]
  BY Zenon DEF TypeOK, BecomeFollowerWith, Role
<1>8. votes' \in [Node -> SUBSET Node] /\ preVotes' \in [Node -> SUBSET Node]
  BY SMTT(30) DEF TypeOK, BecomeFollowerWith
<1>9. activePeers' \in [Node -> SUBSET Node] /\ readReady' \in [Node -> BOOLEAN]
  BY Zenon DEF TypeOK, BecomeFollowerWith
<1>. QED  BY <1>4, <1>5, <1>6, <1>7, <1>8, <1>9 DEF ElectionType, LeaderType

\* The same when the Node forgets its progress.
LEMMA BecomeFollowerType ==
  ASSUME TypeOK, NEW i \in Node, NEW t \in Nat, NEW leader \in Node \cup {NoNode},
         BecomeFollower(i, t, leader)
  PROVE  /\ term' \in [Node -> Nat]
         /\ ElectionType'
         /\ LeaderType'
BY ForgetProgressType, BecomeFollowerWithType, Zenon DEF BecomeFollower

\* The vote held in a term is a Node or none.
LEMMA VoteInType ==
  ASSUME TypeOK, NEW i \in Node, NEW t \in Nat
  PROVE  VoteIn(i, t) \in Node \cup {NoNode}
BY DEF TypeOK, VoteIn

\* Contact with a Leader leaves the variables it assigns typed.
LEMMA FollowLeaderType ==
  ASSUME TypeOK, NEW i \in Node, NEW t \in Nat, NEW leader \in Node,
         FollowLeader(i, t, leader)
  PROVE  HardType' /\ ElectionType' /\ LeaderType'
<1>1. votedFor' \in [Node -> Node \cup {NoNode}]
  BY VoteInType, Zenon DEF FollowLeader, TypeOK
<1>2. CASE t > term[i]
  <2>1. BecomeFollower(i, t, leader)
    BY <1>2 DEF FollowLeader
  <2>2. leader \in Node \cup {NoNode}
    OBVIOUS
  <2>. QED  BY <1>1, <2>1, <2>2, BecomeFollowerType DEF HardType
<1>3. CASE ~(t > term[i])
  <2>1. /\ role' = [role EXCEPT ![i] = "Follower"]
        /\ leaderID' = [leaderID EXCEPT ![i] = leader]
        /\ recentLeaderContact' = [recentLeaderContact EXCEPT ![i] = TRUE]
        /\ readReady' = [readReady EXCEPT ![i] = FALSE]
        /\ UNCHANGED <<term, votes, preVotes, activePeers, progress, pendingReads>>
    BY <1>3 DEF FollowLeader
  <2>. QED  BY <1>1, <2>1, ZenonT(40) DEF TypeOK, HardType, ElectionType, LeaderType, Role
<1>. QED  BY <1>2, <1>3

\* Stepping down on a response keeps every type.
LEMMA StepDownType ==
  ASSUME TypeOK, NEW m \in msgs, NEW t \in Nat, StepDown(m, t)
  PROVE  TypeOK' /\ msgs' \subseteq msgs \cup LeaderMessage
<1>1. m \in Message /\ m.to \in Node
  BY MessageEnvelope DEF TypeOK
<1>2. term' \in [Node -> Nat] /\ ElectionType' /\ LeaderType'
  BY <1>1, BecomeFollowerType DEF StepDown
<1>3. votedFor' \in [Node -> Node \cup {NoNode}]
  BY <1>1 DEF StepDown, TypeOK
<1>4. msgs' \subseteq Message /\ msgs' \subseteq msgs
  BY DEF StepDown, Reply, TypeOK
<1>5. LogType' /\ SnapshotType' /\ HistoryType'
  BY TypeGroups, Zenon DEF StepDown, LogType, SnapshotType, HistoryType,
                    logVars, snapshotVars, historyVars
<1>. QED  BY <1>2, <1>3, <1>4, <1>5, TypeGroupsNext, SMTT(30) DEF HardType

\* The Snapshot a process starts from is one of its files, or none.
LEMMA NewestSnapshotType ==
  ASSUME LeastElements, NEW i \in Node, commitIndex[i] \in Nat, NEW entries,
         NEW disk \in SUBSET Seq(Entry)
  PROVE  /\ NewestSnapshot(i, entries, disk) \in Seq(Entry)
         /\ Len(NewestSnapshot(i, entries, disk)) <= commitIndex[i]
         /\ NewestSnapshot(i, entries, disk) # <<>> =>
              /\ NewestSnapshot(i, entries, disk) \in disk
              /\ LET f == NewestSnapshot(i, entries, disk)
                 IN Matches(entries, 0, Len(f), LastLogTerm(f))
<1>. DEFINE fits == {f \in disk : /\ Len(f) <= commitIndex[i]
                                  /\ Matches(entries, 0, Len(f), LastLogTerm(f))}
            image == CHOOSE f \in fits : \A g \in fits : Len(f) >= Len(g)
<1>1. CASE fits = {}
  <2>1. NewestSnapshot(i, entries, disk) = <<>>
    BY <1>1 DEF NewestSnapshot
  <2>. QED  BY <2>1, EmptySeq
<1>2. CASE fits # {}
  <2>. DEFINE lens == {Len(f) : f \in fits}
  <2>1. lens \in SUBSET Nat /\ lens # {} /\ \A n \in lens : n <= commitIndex[i]
    BY <1>2, LenProperties
  <2>2. Max(lens) \in lens /\ \A n \in lens : Max(lens) >= n
    BY <2>1, MaxIsGreatest, Zenon
  <2>3. \E f \in fits : \A g \in fits : Len(f) >= Len(g)
    BY <2>2, Zenon
  <2>4. image \in fits
    BY <2>3
  <2>5. NewestSnapshot(i, entries, disk) = image
    BY <1>2, Zenon DEF NewestSnapshot
  <2>. HIDE DEF image
  <2>. QED  BY <2>4, <2>5
<1>. QED  BY <1>1, <1>2

\* A process that starts from typed durable state has every type.
LEMMA RecoverType ==
  ASSUME LeastElements, TypeOK, NEW i \in Node, NEW t \in Nat, NEW vote \in Node \cup {NoNode},
         NEW entries \in Seq(Entry), NEW disk \in SUBSET Seq(Entry),
         NEW inFlight \in SUBSET Message, Recover(i, t, vote, entries, disk, inFlight)
  PROVE  TypeOK'
<1>. DEFINE image == NewestSnapshot(i, entries, disk)
            rest == SubSeq(entries, Len(image) + 1, Len(entries))
<1>1. image \in Seq(Entry)
  BY NewestSnapshotType DEF TypeOK
<1>2. rest \in Seq(Entry)
  <2>1. Len(image) + 1 \in Nat \ {0} /\ Len(entries) \in Int /\ Len(entries) <= Len(entries)
    BY <1>1, LenProperties
  <2>. HIDE DEF image
  <2>. QED  BY <2>1, SubSeqType
<1>3. /\ BecomeFollowerWith(i, t, NoNode, [j \in Node |-> NoProgress])
      /\ votedFor' = [votedFor EXCEPT ![i] = vote]
      /\ log' = [log EXCEPT ![i] = image \o rest]
      /\ base' = [base EXCEPT ![i] = Len(image)]
      /\ lastApplied' = [lastApplied EXCEPT ![i] = commitIndex[i]]
      /\ capture' = [capture EXCEPT ![i] = <<>>]
      /\ files' = [files EXCEPT ![i] = disk]
      /\ incoming' = [incoming EXCEPT ![i] = NoIncoming]
      /\ msgs' = inFlight
      /\ faults' = faults + 1
      /\ UNCHANGED <<commitIndex, ballots, elected, issued, served, timeouts>>
  BY DEF Recover
<1>. HIDE DEF image, rest
<1>4. image \o rest \in Seq(Entry) /\ Len(image) \in Nat /\ <<>> \in Seq(Entry)
  BY <1>1, <1>2, ConcatProperties, LenProperties, EmptySeq, Zenon
<1>5. NoIncoming \in [state : Seq(Entry), from : Node \cup {NoNode}, received : Nat]
  BY EmptySeq DEF NoIncoming
<1>6. term' \in [Node -> Nat] /\ ElectionType' /\ LeaderType'
  <2>1. [j \in Node |-> NoProgress] \in [Node -> Progress]
    BY DEF NoProgress, Progress
  <2>2. NoNode \in Node \cup {NoNode}
    OBVIOUS
  <2>. QED  BY <1>3, <2>1, <2>2, BecomeFollowerWithType, Zenon
<1>7. votedFor' \in [Node -> Node \cup {NoNode}]
  BY <1>3 DEF TypeOK
<1>8. LogType'
  BY <1>3, <1>4, ZenonT(40) DEF TypeOK, LogType
<1>9. SnapshotType'
  BY <1>3, <1>4, <1>5, Zenon DEF TypeOK, SnapshotType
<1>10. HistoryType' /\ msgs' \subseteq Message
  BY <1>3, TypeGroups DEF HistoryType
<1>. QED  BY <1>6, <1>7, <1>8, <1>9, <1>10, TypeGroupsNext, Zenon DEF HardType

-----------------------------------------------------------------------------
(* Initial states and steps *)

\* What the Nodes recover when the run starts is typed.
LEMMA InitType == Init => TypeOK
<1>. SUFFICES ASSUME Init PROVE TypeOK
  OBVIOUS
<1>1. HardType
  BY RecoveredAssumption, Zenon DEF Init, HardType
<1>2. ElectionType
  BY DEF Init, ElectionType, Role
<1>3. NoProgress \in Progress /\ NoReads \in [Read -> SUBSET Node]
  BY DEF NoProgress, Progress, NoReads
<1>4. LeaderType
  BY <1>3, Zenon DEF Init, LeaderType
<1>5. LogType
  BY RecoveredAssumption DEF Init, LogType
<1>6. \A i \in Node : Prefix(log[i], base[i]) \in Seq(Entry)
  BY <1>5, PrefixType DEF LogType
<1>7. NoIncoming \in [state : Seq(Entry), from : Node \cup {NoNode}, received : Nat]
  BY EmptySeq, Zenon DEF NoIncoming
<1>8. files \in [Node -> SUBSET Seq(Entry)]
  BY <1>6, Zenon DEF Init
<1>9. SnapshotType
  BY <1>7, <1>8, EmptySeq, Zenon DEF Init, SnapshotType
<1>10. ballots \subseteq Nat \X Node \X Node
  BY <1>1 DEF Init, HardType
<1>11. HistoryType
  BY <1>10, EmptySeq, Zenon DEF Init, HistoryType
<1>12. msgs \subseteq Message
  BY DEF Init
<1>. QED  BY <1>1, <1>2, <1>4, <1>5, <1>9, <1>11, <1>12, TypeGroups, Zenon

\* Requests for votes and pre-votes are messages.
LEMMA VoteRequestToType ==
  ASSUME LogType, NEW i \in Node, NEW type \in {"PreVoteRequest", "VoteRequest"},
         NEW forTerm \in Nat
  PROVE  VoteRequestTo(i, type, forTerm) \subseteq Message
<1>1. Len(log[i]) \in Nat /\ LastLogTerm(log[i]) \in Nat
  BY LenProperties, LastLogTermType, EntryTerm, Zenon DEF LogType
<1>2. SUFFICES ASSUME NEW j \in Node
      PROVE [type |-> type, from |-> i, to |-> j, term |-> forTerm,
             lastIndex |-> Len(log[i]), lastTerm |-> LastLogTerm(log[i])] \in Message
  BY DEF VoteRequestTo, Peers
<1>. QED  BY <1>1 DEF Message

\* The expiry of an election timer.
LEMMA StartPreVoteType ==
  ASSUME TypeOK, NEW i \in Node, StartPreVote(i)
  PROVE  TypeOK'
<1>1. term[i] + 1 \in Nat
  BY Successor, Zenon DEF TypeOK
<1>2. msgs' \subseteq Message
  BY <1>1, VoteRequestToType, TypeGroups DEF StartPreVote, Send
<1>3. ElectionType'
  BY TypeGroups, Zenon DEF StartPreVote, ElectionType, Role
<1>4. HardType' /\ LeaderType' /\ LogType' /\ SnapshotType'
  BY TypeGroups, ZenonT(40) DEF StartPreVote, HardType, LeaderType, LogType, SnapshotType,
                    hardVars, leaderVars, logVars, snapshotVars
<1>5. HistoryType'
  BY TypeGroups DEF StartPreVote, TimerExpires, HistoryType
<1>. QED  BY <1>2, <1>3, <1>4, <1>5, TypeGroupsNext, Zenon

\* A pre-vote request.
LEMMA HandlePreVoteRequestType ==
  ASSUME TypeOK, NEW m \in msgs, HandlePreVoteRequest(m)
  PROVE  TypeOK'
<1>. DEFINE grant == /\ m.term >= term[m.to] + 1
                     /\ ~recentLeaderContact[m.to]
                     /\ LogIsAtLeastAsUpToDate(m.lastTerm, m.lastIndex,
                                         LastLogTerm(log[m.to]), Len(log[m.to]))
            reply == [type |-> "PreVoteResponse", from |-> m.to, to |-> m.from,
                      term |-> m.term, currentTerm |-> term[m.to], granted |-> grant]
<1>1. m.to \in Node /\ m.from \in Node /\ m.term \in Nat /\ term[m.to] \in Nat
  BY MessageEnvelope DEF TypeOK
<1>2. grant \in BOOLEAN
  BY Zenon DEF LogIsAtLeastAsUpToDate
<1>3. msgs' = (msgs \ {m}) \cup {reply}
  BY DEF HandlePreVoteRequest, Reply
<1>. HIDE DEF grant
<1>4. reply \in Message
  BY <1>1, <1>2, Zenon DEF Message
<1>5. msgs' \subseteq Message
  BY <1>3, <1>4, SMTT(40) DEF TypeOK
<1>6. UNCHANGED <<hardVars, electionVars, leaderVars, logVars, snapshotVars, historyVars>>
  BY Zenon DEF HandlePreVoteRequest
<1>. QED  BY <1>5, <1>6, Zenon DEF TypeOK, hardVars, electionVars, leaderVars, logVars,
                            snapshotVars, historyVars

\* A pre-vote response, and the election that a quorum of them starts.
LEMMA HandlePreVoteResponseType ==
  ASSUME TypeOK, NEW m \in msgs, HandlePreVoteResponse(m)
  PROVE  TypeOK'
<1>1. /\ m \in Message /\ m.type = "PreVoteResponse"
      /\ m.to \in Node /\ m.from \in Node /\ term[m.to] \in Nat
  BY MessageEnvelope, Zenon DEF TypeOK, HandlePreVoteResponse
<1>2. m.currentTerm \in Nat
  BY <1>1 DEF Message
<1>3. CASE StepDown(m, m.currentTerm)
  BY <1>2, <1>3, StepDownType
<1>4. CASE ~StepDown(m, m.currentTerm)
  <2>1. /\ preVotes' = [preVotes EXCEPT ![m.to] = preVotes[m.to] \cup {m.from}]
        /\ \/ /\ Reply(m, {})
              /\ UNCHANGED <<hardVars, role, leaderID, votes, readReady, ballots>>
           \/ StartElection(m)
        /\ UNCHANGED <<recentLeaderContact, activePeers, progress, pendingReads, logVars,
                       snapshotVars, elected, issued, served, timeouts, faults>>
    BY <1>4, ZenonT(40) DEF HandlePreVoteResponse
  <2>2. LogType' /\ SnapshotType'
    BY <2>1, TypeGroups DEF LogType, SnapshotType, logVars, snapshotVars
  <2>3. preVotes' \in [Node -> SUBSET Node]
    BY <1>1, <2>1, ZenonT(40) DEF TypeOK
  <2>4. CASE Reply(m, {}) /\ UNCHANGED <<hardVars, role, leaderID, votes, readReady, ballots>>
    <3>1. msgs' \subseteq Message
      BY <2>4, Zenon DEF Reply, TypeOK
    <3>2. HardType' /\ ElectionType' /\ LeaderType' /\ HistoryType'
      BY <2>1, <2>3, <2>4, TypeGroups
         DEF HardType, ElectionType, LeaderType, HistoryType, hardVars
    <3>. QED  BY <2>2, <3>1, <3>2, TypeGroupsNext
  <2>5. CASE StartElection(m)
    <3>1. msgs' \subseteq Message
      <4>1. VoteRequestTo(m.to, "VoteRequest", term[m.to] + 1) \subseteq Message
        BY <1>1, VoteRequestToType, TypeGroups
      <4>. QED  BY <2>5, <4>1, Zenon DEF StartElection, Reply, TypeOK
    <3>2. HardType'
      <4>1. term[m.to] + 1 \in Nat
        BY <1>1
      <4>. QED  BY <1>1, <2>5, <4>1, TypeGroups, Zenon DEF HardType, StartElection
    <3>3. ElectionType'
      BY <1>1, <2>1, <2>3, <2>5, TypeGroups, ZenonT(40) DEF ElectionType, StartElection, Role
    <3>4. LeaderType'
      BY <1>1, <2>1, <2>5, TypeGroups, Zenon DEF LeaderType, StartElection
    <3>5. HistoryType'
      BY <1>1, <2>1, <2>5, TypeGroups DEF HistoryType, StartElection
    <3>. QED  BY <2>2, <3>1, <3>2, <3>3, <3>4, <3>5, TypeGroupsNext, SMTT(30)
  <2>. QED  BY <2>1, <2>4, <2>5, SMTT(40)
<1>. QED  BY <1>3, <1>4, Zenon

\* A vote request.
LEMMA HandleVoteRequestType ==
  ASSUME TypeOK, NEW m \in msgs, HandleVoteRequest(m)
  PROVE  TypeOK'
<1>. DEFINE grant == /\ m.term >= term[m.to]
                     /\ VoteIn(m.to, m.term) \in {NoNode, m.from}
                     /\ LogIsAtLeastAsUpToDate(m.lastTerm, m.lastIndex,
                                               LastLogTerm(log[m.to]), Len(log[m.to]))
            reply == [type |-> "VoteResponse", from |-> m.to, to |-> m.from,
                      term |-> Larger(term[m.to], m.term), granted |-> grant]
<1>1. m.to \in Node /\ m.from \in Node /\ m.term \in Nat /\ term[m.to] \in Nat
  BY MessageEnvelope DEF TypeOK
<1>2. grant \in BOOLEAN
  BY Zenon DEF LogIsAtLeastAsUpToDate
<1>3. /\ msgs' = (msgs \ {m}) \cup {reply}
      /\ votedFor' = [votedFor EXCEPT ![m.to] =
                        IF grant THEN m.from ELSE VoteIn(m.to, m.term)]
      /\ IF m.term > term[m.to]
           THEN BecomeFollower(m.to, m.term, NoNode)
           ELSE UNCHANGED <<term, electionVars, leaderVars>>
      /\ ballots' = IF grant THEN ballots \cup {<<m.term, m.to, m.from>>} ELSE ballots
      /\ UNCHANGED <<logVars, snapshotVars, elected, issued, served, timeouts, faults>>
  BY Zenon DEF HandleVoteRequest, Reply
<1>. HIDE DEF grant
<1>4. reply \in Message
  BY <1>1, <1>2, Zenon DEF Message, Larger
<1>5. msgs' \subseteq Message
  BY <1>3, <1>4 DEF TypeOK
<1>6. term' \in [Node -> Nat] /\ ElectionType' /\ LeaderType'
  <2>1. CASE m.term > term[m.to]
    BY <1>1, <1>3, <2>1, BecomeFollowerType, Zenon
  <2>2. CASE ~(m.term > term[m.to])
    BY <1>3, <2>2, Zenon DEF TypeOK, ElectionType, LeaderType, electionVars, leaderVars
  <2>. QED  BY <2>1, <2>2
<1>7. votedFor' \in [Node -> Node \cup {NoNode}]
  BY <1>1, <1>3, VoteInType, Zenon DEF TypeOK
<1>8. LogType' /\ SnapshotType'
  BY <1>3, TypeGroups, SMTT(30) DEF LogType, SnapshotType, logVars, snapshotVars
<1>9. HistoryType'
  BY <1>1, <1>3, TypeGroups, SMTT(30) DEF HistoryType
<1>. QED  BY <1>5, <1>6, <1>7, <1>8, <1>9, TypeGroupsNext, Zenon DEF HardType

\* A log that a Leader appended to.
LEMMA AppendedType ==
  ASSUME TypeOK, NEW i \in Node, NEW cmd \in Command \cup {NoOp}
  PROVE  Append(log[i], [term |-> term[i], cmd |-> cmd]) \in Seq(Entry)
<1>1. [term |-> term[i], cmd |-> cmd] \in Entry /\ log[i] \in Seq(Entry)
  BY ZenonT(40) DEF TypeOK, Entry
<1>. QED  BY <1>1, AppendProperties

\* A vote response, and the first step of the Leader that a quorum elects.
LEMMA HandleVoteResponseType ==
  ASSUME LeastElements, CountsAreNat, TypeOK, NEW m \in msgs, HandleVoteResponse(m)
  PROVE  TypeOK' /\ msgs' \subseteq msgs \cup LeaderMessage
<1>1. m.to \in Node /\ m.from \in Node /\ m.term \in Nat /\ term[m.to] \in Nat
  BY MessageEnvelope, SMTT(30) DEF TypeOK
<1>2. CASE StepDown(m, m.term)
  BY <1>1, <1>2, StepDownType
<1>3. CASE ~StepDown(m, m.term)
  <2>1. /\ votes' = [votes EXCEPT ![m.to] = votes[m.to] \cup {m.from}]
        /\ \/ /\ Reply(m, {})
              /\ UNCHANGED <<role, leaderID, activePeers, readReady, log,
                             progress, elected, faults>>
           \/ BecomeLeader(m)
        /\ UNCHANGED <<hardVars, recentLeaderContact, preVotes, pendingReads, base, commitIndex,
                       lastApplied, snapshotVars, ballots, issued, served, timeouts>>
    BY <1>3 DEF HandleVoteResponse
  <2>2. HardType' /\ SnapshotType'
    BY <2>1, TypeGroups, ZenonT(40) DEF HardType, SnapshotType, hardVars, snapshotVars
  <2>3. votes' \in [Node -> SUBSET Node]
    BY <1>1, <2>1, ZenonT(40) DEF TypeOK
  <2>4. CASE /\ Reply(m, {})
             /\ UNCHANGED <<role, leaderID, activePeers, readReady, log,
                            progress, elected, faults>>
    <3>1. msgs' \subseteq Message /\ msgs' \subseteq msgs
      BY <2>4 DEF Reply, TypeOK
    <3>2. ElectionType' /\ LeaderType' /\ LogType' /\ HistoryType'
      BY <2>1, <2>3, <2>4, TypeGroups, Zenon DEF ElectionType, LeaderType, LogType, HistoryType
    <3>. QED  BY <2>2, <3>1, <3>2, TypeGroupsNext
  <2>5. CASE BecomeLeader(m)
    <3>. DEFINE i       == m.to
                entries == Append(log[i], [term |-> term[i], cmd |-> NoOp])
                fresh   == [j \in Node |-> [ForgetProgress(i)[j] EXCEPT !.next = Len(entries) + 1]]
                out     == SendAppendEntries(i, fresh, entries, commitIndex[i], 0, pendingReads[i])
    <3>1. /\ role' = [role EXCEPT ![i] = "Leader"]
          /\ leaderID' = [leaderID EXCEPT ![i] = i]
          /\ activePeers' = [activePeers EXCEPT ![i] = {}]
          /\ readReady' = [readReady EXCEPT ![i] = FALSE]
          /\ log' = [log EXCEPT ![i] = entries]
          /\ SendFrom(i, out, msgs \ {m})
          /\ elected' = elected \cup {<<term[i], i>>}
      BY <2>5 DEF BecomeLeader
    <3>2. entries \in Seq(Entry)
      BY <1>1, AppendedType
    <3>. HIDE DEF entries
    <3>3. fresh \in [Node -> Progress]
      <4>1. Len(entries) + 1 \in Nat
        BY <3>2, LenProperties
      <4>2. ASSUME NEW j \in Node  PROVE [ForgetProgress(i)[j] EXCEPT !.next = Len(entries) + 1] \in Progress
        <5>1. ForgetProgress(i)[j] \in Progress
          BY <1>1, ForgetProgressType
        <5>. QED  BY <4>1, <5>1, Zenon DEF Progress
      <4>. QED  BY <4>2, Zenon
    <3>. HIDE DEF fresh
    <3>4. out \in [progress : [Node -> Progress], sent : SUBSET LeaderMessage]
      BY <1>1, <3>2, <3>3, SendAppendEntriesType, TypeGroups, Zenon DEF LogType
    <3>. HIDE DEF out
    <3>5. /\ progress' \in [Node -> [Node -> Progress]]
          /\ msgs' \subseteq Message
          /\ msgs' \subseteq msgs \cup LeaderMessage
          /\ faults' \in Nat
      BY <1>1, <3>1, <3>4, SendFromType, TypeGroups, ZenonT(40)
    <3>6. ElectionType'
      BY <1>1, <2>1, <2>3, <3>1, TypeGroups, Zenon DEF ElectionType, Role
    <3>7. LeaderType'
      BY <1>1, <2>1, <3>1, <3>5, TypeGroups, ZenonT(40) DEF LeaderType
    <3>8. LogType'
      BY <1>1, <2>1, <3>1, <3>2, TypeGroups, Zenon DEF LogType
    <3>9. HistoryType'
      BY <1>1, <2>1, <3>1, <3>5, TypeGroups, SMTT(30) DEF HistoryType
    <3>. QED  BY <2>2, <3>5, <3>6, <3>7, <3>8, <3>9, TypeGroupsNext, Zenon
  <2>. QED  BY <2>1, <2>4, <2>5, ZenonT(40)
<1>. QED  BY <1>2, <1>3

\* The expiry of a check-quorum timer.
LEMMA CheckQuorumType ==
  ASSUME TypeOK, NEW i \in Node, CheckQuorum(i)
  PROVE  TypeOK'
<1>1. term' \in [Node -> Nat] /\ ElectionType' /\ LeaderType'
  <2>1. CASE BecomeFollower(i, term[i], NoNode)
    BY <2>1, BecomeFollowerType, ZenonT(40) DEF TypeOK
  <2>2. CASE ~BecomeFollower(i, term[i], NoNode)
    BY <2>2, TypeGroups, Zenon DEF CheckQuorum, HardType, ElectionType, LeaderType, electionVars
  <2>. QED  BY <2>1, <2>2, SMTT(40)
<1>2. votedFor' \in [Node -> Node \cup {NoNode}] /\ LogType' /\ SnapshotType' /\ msgs' \subseteq Message
  BY TypeGroups, Zenon DEF CheckQuorum, HardType, LogType, SnapshotType, logVars, snapshotVars
<1>3. HistoryType'
  BY TypeGroups DEF CheckQuorum, TimerExpires, HistoryType
<1>. QED  BY <1>1, <1>2, <1>3, TypeGroupsNext DEF HardType

-----------------------------------------------------------------------------
\* A client command at the Leader.
LEMMA ProposeType ==
  ASSUME LeastElements, CountsAreNat, TypeOK, NEW i \in Node, NEW cmd \in Command, Propose(i, cmd)
  PROVE  TypeOK' /\ msgs' \subseteq msgs \cup LeaderMessage
<1>. DEFINE entries == Append(log[i], [term |-> term[i], cmd |-> cmd])
            out == SendAppendEntries(i, progress[i], entries, commitIndex[i], 0, pendingReads[i])
<1>1. /\ log' = [log EXCEPT ![i] = entries]
      /\ SendFrom(i, out, msgs)
      /\ UNCHANGED <<hardVars, electionVars, activePeers, pendingReads, readReady, base,
                     commitIndex, lastApplied, snapshotVars, ballots, elected, issued,
                     served, timeouts>>
  BY DEF Propose
<1>2. entries \in Seq(Entry)
  BY AppendedType
<1>. HIDE DEF entries
<1>3. out \in [progress : [Node -> Progress], sent : SUBSET LeaderMessage]
  BY <1>2, SendAppendEntriesType, TypeGroups, Zenon DEF LogType, LeaderType
<1>. HIDE DEF out
<1>4. /\ progress' \in [Node -> [Node -> Progress]] /\ msgs' \subseteq Message /\ faults' \in Nat
      /\ msgs' \subseteq msgs \cup LeaderMessage
  BY <1>1, <1>3, SendFromType, TypeGroups, Zenon
<1>5. LogType'
  BY <1>1, <1>2, TypeGroups DEF LogType
<1>6. HardType' /\ ElectionType' /\ LeaderType' /\ SnapshotType' /\ HistoryType'
  BY <1>1, <1>4, TypeGroups, Zenon DEF HardType, ElectionType, LeaderType, SnapshotType,
       HistoryType, hardVars, electionVars, snapshotVars
<1>. QED  BY <1>4, <1>5, <1>6, TypeGroupsNext, Zenon

\* A linearizable read at the Leader.
LEMMA ConfirmReadType ==
  ASSUME LeastElements, CountsAreNat, TypeOK, NEW i \in Node, ConfirmRead(i)
  PROVE  TypeOK' /\ msgs' \subseteq msgs \cup LeaderMessage
<1>. DEFINE r     == Len(issued) + 1
            reads == [pendingReads[i] EXCEPT ![r] = {i}]
            out   == SendAppendEntries(i, progress[i], log[i], commitIndex[i], r, reads)
<1>1. /\ issued' = Append(issued, commitIndex)
      /\ pendingReads' = [pendingReads EXCEPT ![i] = reads]
      /\ SendFrom(i, out, msgs)
      /\ UNCHANGED <<hardVars, electionVars, activePeers, readReady, logVars,
                     snapshotVars, ballots, elected, served, timeouts>>
  BY Zenon DEF ConfirmRead
<1>2. Len(issued) \in Nat /\ Len(issued) < MaxReads
  BY LenProperties DEF ConfirmRead, TypeOK
<1>3. r \in Read
  BY <1>2, BoundAssumption, SMTT(30) DEF Read
<1>. HIDE DEF r
<1>4. reads \in [Read -> SUBSET Node]
  BY <1>3 DEF TypeOK
<1>. HIDE DEF reads
<1>5. out \in [progress : [Node -> Progress], sent : SUBSET LeaderMessage]
  BY <1>3, SendAppendEntriesType, TypeGroups, Zenon DEF LogType, LeaderType
<1>. HIDE DEF out
<1>6. /\ progress' \in [Node -> [Node -> Progress]] /\ msgs' \subseteq Message /\ faults' \in Nat
      /\ msgs' \subseteq msgs \cup LeaderMessage
  BY <1>1, <1>5, SendFromType, TypeGroups, ZenonT(40)
<1>7. issued' \in Seq([Node -> Nat])
  BY <1>1, AppendProperties, Zenon DEF TypeOK
<1>8. pendingReads' \in [Node -> [Read -> SUBSET Node]]
  BY <1>1, <1>4 DEF TypeOK
<1>9. HardType' /\ ElectionType' /\ LeaderType' /\ LogType' /\ SnapshotType' /\ HistoryType'
  BY <1>1, <1>6, <1>7, <1>8, TypeGroups, Zenon DEF HardType, ElectionType, LeaderType, LogType,
       SnapshotType, HistoryType, hardVars, electionVars, logVars, snapshotVars
<1>. QED  BY <1>6, <1>9, TypeGroupsNext

\* The expiry of a heartbeat timer.
LEMMA HeartbeatRoundType ==
  ASSUME LeastElements, CountsAreNat, TypeOK, NEW i \in Node, HeartbeatRound(i)
  PROVE  TypeOK' /\ msgs' \subseteq msgs \cup LeaderMessage
<1>. DEFINE idle == [j \in Node |-> [progress[i][j] EXCEPT !.append = 0, !.commit = 0]]
            out  == SendAppendEntries(i, idle, log[i], commitIndex[i], 0, pendingReads[i])
<1>1. /\ timeouts' = timeouts + 1
      /\ SendFrom(i, out, msgs)
      /\ UNCHANGED <<hardVars, electionVars, activePeers, pendingReads, readReady, logVars,
                     snapshotVars, ballots, elected, issued, served>>
  BY Zenon DEF HeartbeatRound, TimerExpires
<1>2. idle \in [Node -> Progress]
  <2>1. ASSUME NEW j \in Node  PROVE [progress[i][j] EXCEPT !.append = 0, !.commit = 0] \in Progress
    <3>1. progress[i][j] \in Progress
      BY DEF TypeOK
    <3>. QED  BY <3>1, Zenon DEF Progress
  <2>. QED  BY <2>1, Zenon
<1>. HIDE DEF idle
<1>3. out \in [progress : [Node -> Progress], sent : SUBSET LeaderMessage]
  BY <1>2, SendAppendEntriesType, TypeGroups, Zenon DEF LogType
<1>. HIDE DEF out
<1>4. /\ progress' \in [Node -> [Node -> Progress]] /\ msgs' \subseteq Message /\ faults' \in Nat
      /\ msgs' \subseteq msgs \cup LeaderMessage
  BY <1>1, <1>3, SendFromType, TypeGroups, ZenonT(40)
<1>5. timeouts' \in Nat
  BY <1>1 DEF TypeOK
<1>6. HardType' /\ ElectionType' /\ LeaderType' /\ LogType' /\ SnapshotType' /\ HistoryType'
  BY <1>1, <1>4, <1>5, TypeGroups, Zenon DEF HardType, ElectionType, LeaderType, LogType,
       SnapshotType, HistoryType, hardVars, electionVars, logVars, snapshotVars
<1>. QED  BY <1>4, <1>6, TypeGroupsNext

\* What a matching request leaves of the log and adds to it.
LEMMA MergeType ==
  ASSUME LeastElements, TypeOK, NEW i \in Node, NEW m \in Message, m.type = "AppendEntries"
  PROVE  /\ Merge(i, m).ok \in BOOLEAN
         /\ Merge(i, m).kept \in Seq(Entry)
         /\ Merge(i, m).added \in Seq(Entry)
<1>. DEFINE add == EntriesToAppend(log[i], base[i], commitIndex[i], m.prevIndex, m.entries)
            cut == IF add.truncateFrom = 0 THEN log[i] ELSE TruncateLog(log[i], add.truncateFrom)
<1>1. m.prevIndex \in Nat /\ m.entries \in Seq(Entry)
  BY DEF Message
<1>2. log[i] \in Seq(Entry) /\ base[i] \in Nat /\ commitIndex[i] \in Nat
  BY DEF TypeOK
<1>3. add \in [ok : BOOLEAN, truncateFrom : 0..Len(log[i]), entries : Seq(Entry)]
  BY <1>1, <1>2, EntriesToAppendType, Zenon
<1>. HIDE DEF add
<1>4. cut \in Seq(Entry)
  <2>1. ASSUME add.truncateFrom # 0  PROVE add.truncateFrom \in 1..(Len(log[i]) + 1)
    <3>1. Len(log[i]) \in Nat /\ add.truncateFrom \in 0..Len(log[i])
      BY <1>2, <1>3, LenProperties, ZenonT(40)
    <3>. QED  BY <2>1, <3>1, PositionRange, Zenon
  <2>. QED  BY <1>2, <2>1, TruncateLogType
<1>5. Merge(i, m) = [ok |-> add.ok, kept |-> cut, added |-> add.entries]
  BY SMTT(30) DEF Merge, add
<1>. QED  BY <1>3, <1>4, <1>5, SMTT(30)

\* The fields of a request to append, and its responses, are typed.
LEMMA AppendEntriesResponseType ==
  ASSUME NEW m \in Message, m.type = "AppendEntries", NEW curTerm \in Nat,
         NEW success \in BOOLEAN, NEW match \in Nat, NEW hint \in [term : Nat, index : Nat]
  PROVE  AppendEntriesResponse(m, curTerm, success, match, hint) \in Message
<1>1. m.request \in Nat /\ m.read \in Read \cup {0} /\ m.from \in Node /\ m.to \in Node
  BY DEF Message
<1>2. hint.term \in Nat /\ hint.index \in Nat
  OBVIOUS
<1>. QED  BY <1>1, <1>2, Zenon DEF AppendEntriesResponse, Message

\* A request to append.
LEMMA HandleAppendEntriesType ==
  ASSUME LeastElements, TypeOK, NEW m \in msgs, HandleAppendEntries(m)
  PROVE  TypeOK'
<1>. DEFINE i      == m.to
            merge  == Merge(i, m)
            merged == merge.kept \o merge.added
            commit == FollowerCommit(i, m.commit, Len(merged))
            hint(k) == ConflictHint(log[i], base[i], k)
<1>1. m \in Message /\ m.type = "AppendEntries"
  BY Zenon DEF TypeOK, HandleAppendEntries
<1>2. /\ i \in Node /\ m.from \in Node /\ m.term \in Nat /\ m.prevIndex \in Nat
      /\ m.commit \in Nat /\ m.request \in Nat
  BY <1>1, Zenon DEF Message
<1>3. /\ term[i] \in Nat /\ log[i] \in Seq(Entry) /\ base[i] \in Nat /\ commitIndex[i] \in Nat
      /\ Len(log[i]) \in Nat
  BY <1>2, LenProperties, SMTT(30) DEF TypeOK
<1>4. NoHint \in [term : Nat, index : Nat]
  BY DEF NoHint
<1>5. \A k \in Nat : hint(k) \in [term : Nat, index : Nat]
  <2>. SUFFICES ASSUME NEW k \in Nat  PROVE hint(k) \in [term : Nat, index : Nat]
    OBVIOUS
  <2>1. hint(k) \in [term : Nat, index : 1..(Len(log[i]) + 1)]
    BY <1>3, ConflictHintType, EntryTerm, Zenon
  <2>. HIDE DEF hint
  <2>. QED  BY <1>3, <2>1, SMTT(30)
<1>6. merged \in Seq(Entry) /\ Len(merged) \in Nat
  <2>1. merge.kept \in Seq(Entry) /\ merge.added \in Seq(Entry)
    BY <1>1, <1>2, MergeType
  <2>. QED  BY <2>1, ConcatProperties, LenProperties, Zenon
<1>7. commit \in Nat
  <2>. HIDE DEF merged
  <2>. QED  BY <1>2, <1>3, <1>6, ZenonT(40) DEF FollowerCommit, Larger, Smaller
<1>8. SnapshotType' /\ HistoryType'
  BY TypeGroups, Zenon DEF HandleAppendEntries, SnapshotType, HistoryType, snapshotVars, historyVars
<1>9. CASE /\ Reply(m, {AppendEntriesResponse(m, term[i], FALSE, Len(log[i]), NoHint)})
           /\ UNCHANGED <<hardVars, electionVars, leaderVars, logVars>>
  <2>1. AppendEntriesResponse(m, term[i], FALSE, Len(log[i]), NoHint) \in Message
    BY <1>1, <1>3, <1>4, AppendEntriesResponseType, Zenon
  <2>2. msgs' \subseteq Message
    BY <1>9, <2>1, Zenon DEF Reply, TypeOK
  <2>3. HardType' /\ ElectionType' /\ LeaderType' /\ LogType'
    BY <1>9, TypeGroups, Zenon DEF HardType, ElectionType, LeaderType, LogType,
         hardVars, electionVars, leaderVars, logVars
  <2>. QED  BY <1>8, <2>2, <2>3, TypeGroupsNext, SMTT(30)
<1>10. ASSUME NEW k \in Nat, FollowLeader(i, m.term, m.from),
              Reply(m, {AppendEntriesResponse(m, m.term, FALSE, Len(log[i]), hint(k))}),
              UNCHANGED logVars
       PROVE  TypeOK'
  <2>1. hint(k) \in [term : Nat, index : Nat]
    BY <1>5
  <2>. HIDE DEF hint
  <2>2. AppendEntriesResponse(m, m.term, FALSE, Len(log[i]), hint(k)) \in Message
    BY <1>1, <1>2, <1>3, <2>1, AppendEntriesResponseType, Zenon
  <2>3. msgs' \subseteq Message
    BY <1>10, <2>2, Zenon DEF Reply, TypeOK
  <2>4. LogType'
    BY <1>10, TypeGroups, Zenon DEF LogType, logVars
  <2>. QED  BY <1>2, <1>8, <1>10, <2>3, <2>4, FollowLeaderType, TypeGroupsNext, ZenonT(40)
<1>11. CASE /\ FollowLeader(i, m.term, m.from)
            /\ log' = [log EXCEPT ![i] = merged]
            /\ commitIndex' = [commitIndex EXCEPT ![i] = commit]
            /\ lastApplied' = [lastApplied EXCEPT ![i] = commit]
            /\ Reply(m, {AppendEntriesResponse(m, m.term, TRUE, Len(merged), NoHint)})
            /\ UNCHANGED base
  <2>. HIDE DEF merged, commit
  <2>1. AppendEntriesResponse(m, m.term, TRUE, Len(merged), NoHint) \in Message
    BY <1>1, <1>2, <1>4, <1>6, AppendEntriesResponseType, Zenon
  <2>2. msgs' \subseteq Message
    BY <1>11, <2>1, Zenon DEF Reply, TypeOK
  <2>3. LogType'
    BY <1>2, <1>6, <1>7, <1>11, TypeGroups, ZenonT(40) DEF LogType
  <2>. QED  BY <1>2, <1>8, <1>11, <2>2, <2>3, FollowLeaderType, TypeGroupsNext, Zenon
<1>12. \/ /\ Reply(m, {AppendEntriesResponse(m, term[i], FALSE, Len(log[i]), NoHint)})
          /\ UNCHANGED <<hardVars, electionVars, leaderVars, logVars>>
       \/ \E k \in Nat :
            /\ FollowLeader(i, m.term, m.from)
            /\ Reply(m, {AppendEntriesResponse(m, m.term, FALSE, Len(log[i]), hint(k))})
            /\ UNCHANGED logVars
       \/ /\ FollowLeader(i, m.term, m.from)
          /\ log' = [log EXCEPT ![i] = merged]
          /\ commitIndex' = [commitIndex EXCEPT ![i] = commit]
          /\ lastApplied' = [lastApplied EXCEPT ![i] = commit]
          /\ Reply(m, {AppendEntriesResponse(m, m.term, TRUE, Len(merged), NoHint)})
          /\ UNCHANGED base
  <2>1. m.prevIndex \in Nat /\ m.prevIndex + 1 \in Nat
    BY <1>2
  <2>. QED  BY <2>1, Zenon DEF HandleAppendEntries
<1>. QED  BY <1>9, <1>10, <1>11, <1>12, ZenonT(40)

\* A crash between the WAL writes of a request to append.
LEMMA CrashInAppendEntriesType ==
  ASSUME LeastElements, TypeOK, NEW m \in msgs, CrashInAppendEntries(m)
  PROVE  TypeOK'
<1>. DEFINE i == m.to
            merge == Merge(i, m)
<1>1. m \in Message /\ m.type = "AppendEntries"
  BY DEF TypeOK, CrashInAppendEntries
<1>2. i \in Node /\ m.term \in Nat
  BY <1>1, MessageEnvelope, SMTT(30)
<1>3. merge.kept \in Seq(Entry) /\ merge.added \in Seq(Entry)
  BY <1>1, <1>2, MergeType
<1>4. PICK entries \in {log[i]} \cup {merge.kept \o SubSeq(merge.added, 1, written) :
                                       written \in 0..Len(merge.added)} :
        Recover(i, m.term, VoteIn(i, m.term), entries, files[i], msgs \ {m})
  BY Zenon DEF CrashInAppendEntries
<1>5. ASSUME NEW written \in 0..Len(merge.added)
      PROVE  merge.kept \o SubSeq(merge.added, 1, written) \in Seq(Entry)
  <2>1. SubSeq(merge.added, 1, written) \in Seq(Entry)
    BY <1>3, FirstEntries, Zenon
  <2>. QED  BY <1>3, <2>1, ConcatProperties, Zenon
<1>6. entries \in Seq(Entry)
  <2>1. log[i] \in Seq(Entry)
    BY <1>2, Zenon DEF TypeOK
  <2>. QED  BY <1>4, <1>5, <2>1, Zenon
<1>7. files[i] \in SUBSET Seq(Entry) /\ msgs \ {m} \in SUBSET Message
  BY <1>2, Zenon DEF TypeOK
<1>8. VoteIn(i, m.term) \in Node \cup {NoNode}
  BY <1>2, VoteInType, Zenon
<1>. QED  BY <1>2, <1>4, <1>6, <1>7, <1>8, RecoverType, ZenonT(40)

\* advanceLeaderCommit moves the commit index forward, within the log.
LEMMA LeaderCommitType ==
  ASSUME LeastElements, TypeOK, NEW i \in Node, NEW prog
  PROVE  /\ LeaderCommit(i, prog) \in Nat
         /\ LeaderCommit(i, prog) >= commitIndex[i]
         /\ LeaderCommit(i, prog) # commitIndex[i] =>
              /\ LeaderCommit(i, prog) <= Len(log[i])
              /\ TermAt(log[i], base[i], LeaderCommit(i, prog)) = term[i]
              /\ Cardinality({j \in Peers(i) : prog[j].match >= LeaderCommit(i, prog)}) + 1 >= quorum
<1>. DEFINE new == {k \in (commitIndex[i] + 1)..Len(log[i]) :
                     /\ TermAt(log[i], base[i], k) = term[i]
                     /\ Cardinality({j \in Peers(i) : prog[j].match >= k}) + 1 >= quorum}
            all == {commitIndex[i]} \cup new
<1>1. commitIndex[i] \in Nat /\ Len(log[i]) \in Nat
  BY LenProperties, Zenon DEF TypeOK
<1>2. \A k \in new : k \in Nat /\ k > commitIndex[i] /\ k <= Len(log[i])
  BY <1>1, SMTT(30)
<1>3. LeaderCommit(i, prog) = Max(all)
  BY DEF LeaderCommit
<1>4. /\ all \in SUBSET Nat /\ all # {}
      /\ \A k \in all : k <= Larger(commitIndex[i], Len(log[i]))
  <2>. HIDE DEF new
  <2>. QED  BY <1>1, <1>2 DEF Larger
<1>5. Larger(commitIndex[i], Len(log[i])) \in Nat
  BY <1>1 DEF Larger
<1>6. Max(all) \in all /\ Max(all) >= commitIndex[i]
  <2>. HIDE DEF all
  <2>1. Max(all) \in all /\ \A k \in all : Max(all) >= k
    BY <1>4, <1>5, MaxIsGreatest, ZenonT(40)
  <2>. QED  BY <2>1, Zenon DEF all
<1>7. Max(all) # commitIndex[i] => Max(all) \in new
  BY <1>6, ZenonT(40)
<1>. HIDE DEF all
<1>8. Max(all) # commitIndex[i] =>
        /\ Max(all) <= Len(log[i])
        /\ TermAt(log[i], base[i], Max(all)) = term[i]
        /\ Cardinality({j \in Peers(i) : prog[j].match >= Max(all)}) + 1 >= quorum
  BY <1>2, <1>7
<1>. HIDE DEF new
<1>9. Max(all) \in Nat
  BY <1>4, <1>6, Zenon
<1>. QED  BY <1>3, <1>6, <1>8, <1>9, Zenon

\* Acknowledging a read keeps the reads typed.
LEMMA AcknowledgeReadType ==
  ASSUME TypeOK, NEW i \in Node, NEW m \in Message, m.type = "AppendEntriesResponse",
         NEW applied \in Nat, AcknowledgeRead(i, m, applied)
  PROVE  /\ pendingReads' \in [Node -> [Read -> SUBSET Node]]
         /\ served' \subseteq [read : Read, index : Nat]
<1>1. m.read \in Read \cup {0} /\ m.from \in Node
  BY Zenon DEF Message
<1>2. CASE UNCHANGED <<pendingReads, served>>
  BY <1>2, ZenonT(40) DEF TypeOK
<1>3. CASE ~UNCHANGED <<pendingReads, served>>
  <2>. DEFINE acks == pendingReads[i][m.read] \cup {m.from}
  <2>1. m.read \in Read
    BY <1>1, <1>3, ZenonT(40) DEF AcknowledgeRead
  <2>2. acks \in SUBSET Node /\ {} \in SUBSET Node
    BY <1>1, <2>1, SMTT(30) DEF TypeOK
  <2>3. /\ \E s \in {acks, {}} : pendingReads' = [pendingReads EXCEPT ![i][m.read] = s]
        /\ served' \subseteq served \cup {[read |-> m.read, index |-> applied]}
    BY <1>3, Zenon DEF AcknowledgeRead
  <2>. HIDE DEF acks
  <2>. QED  BY <2>1, <2>2, <2>3, SMTT(30) DEF TypeOK
<1>. QED  BY <1>2, <1>3, Zenon

\* A response to a request to append.
LEMMA HandleAppendEntriesResponseType ==
  ASSUME LeastElements, CountsAreNat, TypeOK, NEW m \in msgs, HandleAppendEntriesResponse(m)
  PROVE  TypeOK' /\ msgs' \subseteq msgs \cup LeaderMessage
<1>1. m \in Message /\ m.type = "AppendEntriesResponse"
  BY ZenonT(40) DEF TypeOK, HandleAppendEntriesResponse
<1>2. /\ m.to \in Node /\ m.from \in Node /\ m.term \in Nat /\ m.success \in BOOLEAN
      /\ m.match \in Nat /\ m.conflictTerm \in Nat /\ m.conflictIndex \in Nat
  BY <1>1, Zenon DEF Message
<1>3. CASE StepDown(m, m.term)
  BY <1>2, <1>3, StepDownType, Zenon
<1>4. CASE ~StepDown(m, m.term)
  <2>. DEFINE
      i == m.to
      j == m.from
      p == progress[i][j]
      match  == IF m.success THEN Larger(p.match, m.match) ELSE p.match
      next   == IF m.success THEN match + 1
                ELSE NextIndexFromConflict(log[i], base[i], m.conflictTerm, m.conflictIndex)
      idle   == [p EXCEPT !.append = 0, !.commit = 0, !.match = match, !.next = next]
      prog   == [progress[i] EXCEPT ![j] = idle]
      commit == LeaderCommit(i, prog)
      read   == PendingReadFor(pendingReads[i], j)
      resend == \/ ~m.success
                \/ next <= Len(log[i])
                \/ read # 0
                \/ p.commit < commitIndex[i]
      one    == SendAppendEntriesTo(i, j, idle, log[i], commitIndex[i], read)
      out    == IF commit > commitIndex[i]
                  THEN SendAppendEntries(i, prog, log[i], commit, 0, pendingReads[i])
                ELSE IF resend
                  THEN [progress |-> [prog EXCEPT ![j] = one.progress], sent |-> one.sent]
                  ELSE [progress |-> prog, sent |-> {}]
      applied == IF commit > commitIndex[i] THEN commit ELSE lastApplied[i]
      ready == AppliesOwnNoOp(i, applied)
  <2>1. /\ activePeers' = [activePeers EXCEPT ![i] = activePeers[i] \cup {j}]
        /\ SendFrom(i, out, msgs \ {m})
        /\ commitIndex' = [commitIndex EXCEPT ![i] = commit]
        /\ lastApplied' = [lastApplied EXCEPT ![i] = applied]
        /\ readReady' = [readReady EXCEPT ![i] = readReady[i] \/ ready]
        /\ AcknowledgeRead(i, m, applied)
        /\ UNCHANGED <<hardVars, electionVars, log, base, snapshotVars,
                       ballots, elected, issued, timeouts>>
    BY <1>4, Zenon DEF HandleAppendEntriesResponse
  <2>2. /\ p \in Progress /\ progress[i] \in [Node -> Progress]
        /\ log[i] \in Seq(Entry) /\ base[i] \in Nat /\ commitIndex[i] \in Nat
        /\ lastApplied[i] \in Nat
    <3>1. progress[i] \in [Node -> Progress]
      BY <1>2, TypeGroups, Zenon DEF LeaderType
    <3>2. p \in Progress
      BY <1>2, <3>1, Zenon
    <3>. QED  BY <1>2, <3>1, <3>2, TypeGroups, Zenon DEF LogType
  <2>. HIDE DEF p
  <2>3. match \in Nat
    BY <1>2, <2>2, ZenonT(40) DEF Progress, Larger
  <2>. HIDE DEF match
  <2>4. next \in Nat
    <3>1. CASE m.success
      BY <2>3, <3>1, Successor, Zenon
    <3>2. CASE ~m.success
      <4>1. next \in 1..(Len(log[i]) + 1)
        BY <1>2, <2>2, <3>2, NextIndexFromConflictType, Zenon
      <4>. QED  BY <2>2, <4>1, LenProperties
    <3>. QED  BY <3>1, <3>2, Zenon
  <2>. HIDE DEF next
  <2>5. idle \in Progress
    BY <2>2, <2>3, <2>4, ZenonT(40) DEF Progress
  <2>. HIDE DEF idle
  <2>6. prog \in [Node -> Progress]
    BY <1>2, <2>2, <2>5
  <2>. HIDE DEF prog
  <2>7. commit \in Nat
    BY <1>2, LeaderCommitType, Zenon
  <2>. HIDE DEF commit
  <2>8. read \in Read \cup {0}
    BY PendingReadForType
  <2>. HIDE DEF read
  <2>9. one \in [progress : Progress, sent : SUBSET LeaderMessage]
    BY <1>2, <2>2, <2>5, <2>8, SendAppendEntriesToType, TypeGroups, Zenon
  <2>10. SendAppendEntries(i, prog, log[i], commit, 0, pendingReads[i])
           \in [progress : [Node -> Progress], sent : SUBSET LeaderMessage]
    BY <1>2, <2>2, <2>6, <2>7, SendAppendEntriesType, TypeGroups, Zenon
  <2>. HIDE DEF one, resend
  <2>11. out \in [progress : [Node -> Progress], sent : SUBSET LeaderMessage]
    <3>1. [progress |-> [prog EXCEPT ![j] = one.progress], sent |-> one.sent]
            \in [progress : [Node -> Progress], sent : SUBSET LeaderMessage]
      BY <1>2, <2>6, <2>9, Zenon
    <3>2. [progress |-> prog, sent |-> {}]
            \in [progress : [Node -> Progress], sent : SUBSET LeaderMessage]
      BY <2>6
    <3>. QED  BY <2>10, <3>1, <3>2, Zenon
  <2>. HIDE DEF out
  <2>12. /\ progress' \in [Node -> [Node -> Progress]] /\ msgs' \subseteq Message /\ faults' \in Nat
         /\ msgs' \subseteq msgs \cup LeaderMessage
    <3>1. msgs \ {m} \in SUBSET Message
      BY TypeGroups, Zenon
    <3>2. SendFrom(i, out, msgs \ {m})
      BY <2>1, Zenon
    <3>. QED  BY <1>2, <2>11, <3>1, <3>2, SendFromType, Zenon
  <2>13. applied \in Nat
    BY <2>2, <2>7
  <2>. HIDE DEF applied
  <2>14. ready \in BOOLEAN
    BY Zenon DEF AppliesOwnNoOp
  <2>. HIDE DEF ready
  <2>15. readReady' \in [Node -> BOOLEAN]
    BY <1>2, <2>1, <2>14, ZenonT(40) DEF TypeOK
  <2>16. /\ pendingReads' \in [Node -> [Read -> SUBSET Node]]
         /\ served' \subseteq [read : Read, index : Nat]
    <3>1. AcknowledgeRead(i, m, applied)
      BY <2>1, Zenon
    <3>2. i \in Node
      BY <1>2, Zenon
    <3>. HIDE DEF i
    <3>. QED  BY <1>1, <2>13, <3>1, <3>2, AcknowledgeReadType, Zenon
  <2>17. activePeers' \in [Node -> SUBSET Node]
    BY <1>2, <2>1, ZenonT(40) DEF TypeOK
  <2>18. LogType'
    BY <1>2, <2>1, <2>7, <2>13, TypeGroups, ZenonT(40) DEF LogType
  <2>19. LeaderType'
    BY <2>12, <2>15, <2>16, <2>17, SMTT(30) DEF LeaderType
  <2>20. HardType' /\ ElectionType' /\ SnapshotType' /\ HistoryType'
    BY <2>1, <2>12, <2>16, TypeGroups, Zenon DEF HardType, ElectionType, SnapshotType,
         HistoryType, hardVars, electionVars, snapshotVars
  <2>. QED  BY <2>12, <2>18, <2>19, <2>20, TypeGroupsNext, Zenon
<1>. QED  BY <1>3, <1>4, SMTT(40)

\* The three steps of a local Snapshot.
LEMMA LocalSnapshotType ==
  ASSUME TypeOK, NEW i \in Node,
         StartSnapshot(i) \/ SaveSnapshot(i) \/ FinishSnapshot(i)
  PROVE  TypeOK'
<1>1. CASE StartSnapshot(i)
  <2>1. Prefix(log[i], lastApplied[i]) \in Seq(Entry)
    BY PrefixType, ZenonT(40) DEF TypeOK
  <2>2. SnapshotType'
    BY <1>1, <2>1, TypeGroups, Zenon DEF StartSnapshot, SnapshotType
  <2>3. HardType' /\ ElectionType' /\ LeaderType' /\ LogType' /\ HistoryType' /\ msgs' \subseteq Message
    BY <1>1, TypeGroups, ZenonT(40) DEF StartSnapshot, HardType, ElectionType, LeaderType, LogType,
         HistoryType, hardVars, electionVars, leaderVars, logVars, historyVars
  <2>. QED  BY <2>2, <2>3, TypeGroupsNext, SMTT(40)
<1>2. CASE SaveSnapshot(i)
  <2>1. SnapshotType'
    BY <1>2, TypeGroups DEF SaveSnapshot, SnapshotType
  <2>2. HardType' /\ ElectionType' /\ LeaderType' /\ LogType' /\ HistoryType' /\ msgs' \subseteq Message
    BY <1>2, TypeGroups, ZenonT(40) DEF SaveSnapshot, HardType, ElectionType, LeaderType, LogType,
         HistoryType, hardVars, electionVars, leaderVars, logVars, historyVars
  <2>. QED  BY <2>1, <2>2, TypeGroupsNext
<1>3. CASE FinishSnapshot(i)
  <2>1. Len(capture[i]) \in Nat /\ <<>> \in Seq(Entry)
    BY LenProperties, EmptySeq, Zenon DEF TypeOK
  <2>2. base' \in [Node -> Nat]
    BY <1>3, <2>1, Zenon DEF FinishSnapshot, TypeOK
  <2>3. capture' \in [Node -> Seq(Entry)]
    BY <1>3, <2>1, ZenonT(40) DEF FinishSnapshot, TypeOK
  <2>4. SnapshotType' /\ LogType'
    <3>1. UNCHANGED <<files, incoming, log, commitIndex, lastApplied>>
      BY <1>3, Zenon DEF FinishSnapshot
    <3>. QED  BY <2>2, <2>3, <3>1, TypeGroups, Zenon DEF SnapshotType, LogType
  <2>5. HardType' /\ ElectionType' /\ LeaderType' /\ HistoryType' /\ msgs' \subseteq Message
    BY <1>3, TypeGroups, ZenonT(40) DEF FinishSnapshot, HardType, ElectionType, LeaderType,
         HistoryType, hardVars, electionVars, leaderVars, historyVars
  <2>. QED  BY <2>4, <2>5, TypeGroupsNext, SMTT(30)
<1>. QED  BY <1>1, <1>2, <1>3, Zenon

\* Staging a chunk keeps the transfer typed.
LEMMA StageType ==
  ASSUME TypeOK, NEW i \in Node, NEW m \in Message, m.type = "InstallSnapshot"
  PROVE  /\ Stage(i, m).fits \in BOOLEAN
         /\ Stage(i, m).done \in BOOLEAN
         /\ Stage(i, m).next \in Nat
         /\ Stage(i, m).left \in [state : Seq(Entry), from : Node \cup {NoNode}, received : Nat]
         /\ Stage(i, m).done => Stage(i, m).fits
<1>. DEFINE Incoming == [state : Seq(Entry), from : Node \cup {NoNode}, received : Nat]
            staged == IF m.offset = 0
                        THEN [state |-> m.state, from |-> m.from, received |-> 0]
                        ELSE incoming[i]
            fits == staged = [state |-> m.state, from |-> m.from, received |-> m.offset]
            done == fits /\ m.offset = Chunks - 1
            next == IF fits THEN m.offset + 1 ELSE 0
            left == IF ~fits THEN staged
                    ELSE IF m.offset = Chunks - 1 THEN NoIncoming
                    ELSE [staged EXCEPT !.received = m.offset + 1]
<1>1. m.offset \in Nat /\ m.state \in Seq(Entry) /\ m.from \in Node
  BY DEF Message
<1>2. staged \in Incoming
  <2>1. incoming[i] \in Incoming
    BY Zenon DEF TypeOK
  <2>2. [state |-> m.state, from |-> m.from, received |-> 0] \in Incoming
    BY <1>1, Zenon
  <2>. QED  BY <2>1, <2>2, Zenon
<1>3. NoIncoming \in Incoming
  BY EmptySeq DEF NoIncoming
<1>. HIDE DEF staged
<1>4. [staged EXCEPT !.received = m.offset + 1] \in Incoming
  <2>1. m.offset + 1 \in Nat
    BY <1>1
  <2>. QED  BY <1>2, <2>1, Zenon
<1>5. fits \in BOOLEAN /\ done \in BOOLEAN
  BY Zenon
<1>6. Stage(i, m) = [fits |-> fits, done |-> done, next |-> next, left |-> left]
  BY Zenon DEF Stage, staged
<1>. HIDE DEF fits
<1>7. next \in Nat
  BY <1>1
<1>8. left \in Incoming
  BY <1>2, <1>3, <1>4, Zenon
<1>9. done => fits
  BY SMTT(40)
<1>. HIDE DEF done, next, left
<1>10. /\ Stage(i, m).fits = fits /\ Stage(i, m).done = done
       /\ Stage(i, m).next = next /\ Stage(i, m).left = left
  BY <1>6, SMTT(20)
<1>. QED  BY <1>5, <1>7, <1>8, <1>9, <1>10, Zenon

\* A response to a chunk is a message.
LEMMA SnapshotResponseType ==
  ASSUME NEW m \in Message, m.type = "InstallSnapshot", NEW curTerm \in Nat,
         NEW success \in BOOLEAN, NEW next \in Nat, NEW done \in BOOLEAN
  PROVE  SnapshotResponse(m, curTerm, success, next, done) \in Message
<1>1. /\ m.request \in Nat /\ m.from \in Node /\ m.to \in Node /\ m.state \in Seq(Entry)
  BY DEF Message
<1>2. Len(m.state) \in Nat
  BY <1>1, LenProperties
<1>. QED  BY <1>1, <1>2, Zenon DEF SnapshotResponse, Message

\* A chunk of a Snapshot, and the installation that the last one starts.
LEMMA HandleInstallSnapshotType ==
  ASSUME TypeOK, NEW m \in msgs, HandleInstallSnapshot(m)
  PROVE  TypeOK'
<1>. DEFINE i     == m.to
            stage == Stage(i, m)
            index == Len(m.state)
            image == IF RetainSuffix(i, m.state)
                       THEN m.state \o SubSeq(log[i], index + 1, Len(log[i]))
                       ELSE m.state
<1>1. m \in Message /\ m.type = "InstallSnapshot"
  BY ZenonT(40) DEF TypeOK, HandleInstallSnapshot
<1>2. /\ i \in Node /\ m.from \in Node /\ m.term \in Nat /\ m.offset \in Nat
      /\ m.state \in Seq(Entry) /\ m.request \in Nat
  BY <1>1, SMTT(40) DEF Message
<1>3. /\ stage.fits \in BOOLEAN /\ stage.done \in BOOLEAN /\ stage.next \in Nat
      /\ stage.left \in [state : Seq(Entry), from : Node \cup {NoNode}, received : Nat]
  BY <1>1, <1>2, StageType, Zenon
<1>4. index \in Nat /\ term[i] \in Nat /\ log[i] \in Seq(Entry) /\ Len(log[i]) \in Nat
  BY <1>2, LenProperties, Zenon DEF TypeOK
<1>5. image \in Seq(Entry)
  <2>1. SubSeq(log[i], index + 1, Len(log[i])) \in Seq(Entry)
    <3>1. index + 1 \in Nat \ {0} /\ Len(log[i]) \in Int /\ Len(log[i]) <= Len(log[i])
      BY <1>4, SMTT(30)
    <3>. QED  BY <1>4, <3>1, SubSeqType, Zenon
  <2>2. m.state \o SubSeq(log[i], index + 1, Len(log[i])) \in Seq(Entry)
    BY <1>2, <2>1, ConcatProperties, SMTT(40)
  <2>. QED  BY <1>2, <2>2, Zenon
<1>. HIDE DEF stage, index, image
<1>6. /\ incoming' = [incoming EXCEPT ![i] = stage.left]
      /\ files' = [files EXCEPT ![i] = IF stage.done THEN files[i] \cup {m.state} ELSE files[i]]
      /\ UNCHANGED <<capture, historyVars>>
  BY ZenonT(40) DEF HandleInstallSnapshot, stage
<1>7. SnapshotType' /\ HistoryType'
  <2>1. incoming' \in [Node -> [state : Seq(Entry), from : Node \cup {NoNode}, received : Nat]]
    BY <1>2, <1>3, <1>6, ZenonT(40) DEF TypeOK
  <2>2. files' \in [Node -> SUBSET Seq(Entry)]
    BY <1>2, <1>6, Zenon DEF TypeOK
  <2>. QED  BY <1>6, <2>1, <2>2, TypeGroups, Zenon DEF SnapshotType, HistoryType, historyVars
<1>8. CASE /\ Reply(m, {SnapshotResponse(m, term[i], FALSE, m.offset, FALSE)})
           /\ UNCHANGED <<hardVars, electionVars, leaderVars, logVars>>
  <2>1. SnapshotResponse(m, term[i], FALSE, m.offset, FALSE) \in Message
    BY <1>1, <1>2, <1>4, SnapshotResponseType, Zenon
  <2>2. msgs' \subseteq Message
    BY <1>8, <2>1, ZenonT(40) DEF Reply, TypeOK
  <2>3. HardType' /\ ElectionType' /\ LeaderType' /\ LogType'
    BY <1>8, TypeGroups DEF HardType, ElectionType, LeaderType, LogType,
         hardVars, electionVars, leaderVars, logVars
  <2>. QED  BY <1>7, <2>2, <2>3, TypeGroupsNext, SMTT(30)
<1>9. CASE /\ FollowLeader(i, m.term, m.from)
           /\ Reply(m, {SnapshotResponse(m, m.term, stage.fits, stage.next, stage.done)})
           /\ UNCHANGED logVars
  <2>1. SnapshotResponse(m, m.term, stage.fits, stage.next, stage.done) \in Message
    BY <1>1, <1>2, <1>3, SnapshotResponseType, Zenon
  <2>2. msgs' \subseteq Message
    BY <1>9, <2>1, Zenon DEF Reply, TypeOK
  <2>3. LogType'
    BY <1>9, TypeGroups, SMTT(40) DEF LogType, logVars
  <2>. QED  BY <1>2, <1>7, <1>9, <2>2, <2>3, FollowLeaderType, TypeGroupsNext, Zenon
<1>10. CASE /\ FollowLeader(i, m.term, m.from)
            /\ log' = [log EXCEPT ![i] = image]
            /\ base' = [base EXCEPT ![i] = index]
            /\ commitIndex' = [commitIndex EXCEPT ![i] = SnapshotCommit(i, index)]
            /\ lastApplied' = [lastApplied EXCEPT ![i] = index]
            /\ Reply(m, {SnapshotResponse(m, m.term, TRUE, stage.next, TRUE)})
  <2>1. SnapshotResponse(m, m.term, TRUE, stage.next, TRUE) \in Message
    BY <1>1, <1>2, <1>3, SnapshotResponseType, Zenon
  <2>2. msgs' \subseteq Message
    BY <1>10, <2>1, ZenonT(40) DEF Reply, TypeOK
  <2>3. SnapshotCommit(i, index) \in Nat
    BY <1>2, <1>4, Zenon DEF SnapshotCommit, Larger, TypeOK
  <2>4. LogType'
    BY <1>2, <1>4, <1>5, <1>10, <2>3, TypeGroups, Zenon DEF LogType
  <2>. QED  BY <1>2, <1>7, <1>10, <2>2, <2>4, FollowLeaderType, TypeGroupsNext, ZenonT(40)
<1>. QED  BY <1>8, <1>9, <1>10, ZenonT(40) DEF HandleInstallSnapshot, stage, index, image

\* A crash in the middle of an installation.
LEMMA CrashInInstallSnapshotType ==
  ASSUME LeastElements, TypeOK, NEW m \in msgs, CrashInInstallSnapshot(m)
  PROVE  TypeOK'
<1>1. m \in Message /\ m.type = "InstallSnapshot"
  BY DEF TypeOK, CrashInInstallSnapshot
<1>2. m.to \in Node /\ m.term \in Nat /\ m.state \in Seq(Entry)
  BY <1>1, ZenonT(40) DEF Message
<1>3. PICK t \in {term[m.to], m.term} :
        Recover(m.to, t, VoteIn(m.to, t), log[m.to], files[m.to] \cup {m.state}, msgs \ {m})
  BY Zenon DEF CrashInInstallSnapshot
<1>4. t \in Nat
  <2>1. term[m.to] \in Nat
    BY <1>2, Zenon DEF TypeOK
  <2>. QED  BY <1>2, <2>1, Zenon
<1>5. log[m.to] \in Seq(Entry) /\ files[m.to] \cup {m.state} \in SUBSET Seq(Entry)
      /\ msgs \ {m} \in SUBSET Message
  BY <1>2, ZenonT(40) DEF TypeOK
<1>. QED  BY <1>2, <1>3, <1>4, <1>5, VoteInType, RecoverType, ZenonT(40)

\* A response to a chunk at the Leader.
LEMMA HandleInstallSnapshotResponseType ==
  ASSUME LeastElements, CountsAreNat, TypeOK, NEW m \in msgs, HandleInstallSnapshotResponse(m)
  PROVE  TypeOK' /\ msgs' \subseteq msgs \cup LeaderMessage
<1>1. m \in Message /\ m.type = "InstallSnapshotResponse"
  BY Zenon DEF TypeOK, HandleInstallSnapshotResponse
<1>2. /\ m.to \in Node /\ m.from \in Node /\ m.term \in Nat /\ m.index \in Nat
      /\ m.request \in Nat /\ m.next \in Nat
  BY <1>1, Zenon DEF Message
<1>3. CASE StepDown(m, m.term)
  BY <1>2, <1>3, StepDownType
<1>4. CASE ~StepDown(m, m.term)
  <2>. DEFINE
      i == m.to
      j == m.from
      p == progress[i][j]
      idle == [p EXCEPT !.snapshot = 0]
      done == [idle EXCEPT !.match = Larger(p.match, m.index), !.next = m.index + 1]
      read == PendingReadFor(pendingReads[i], j)
      more == SendAppendEntriesTo(i, j, done, log[i], commitIndex[i], read)
      chunk == SnapshotChunk(i, j, m.request, m.next)
      out  == IF ~m.success THEN [progress |-> idle, sent |-> {}]
              ELSE IF ~m.done
                THEN [progress |-> p, sent |-> {chunk}]
                ELSE more
      all == [progress |-> [progress[i] EXCEPT ![j] = out.progress], sent |-> out.sent]
  <2>1. /\ SendFrom(i, all, msgs \ {m})
        /\ UNCHANGED <<hardVars, electionVars, activePeers, pendingReads, readReady, logVars,
                       snapshotVars, ballots, elected, issued, served, timeouts>>
    BY <1>4 DEF HandleInstallSnapshotResponse
  <2>2. progress[i] \in [Node -> Progress]
    BY <1>2, TypeGroups, Zenon DEF LeaderType
  <2>3. p \in Progress /\ log[i] \in Seq(Entry) /\ commitIndex[i] \in Nat
    BY <1>2, <2>2, TypeGroups DEF LogType
  <2>. HIDE DEF p
  <2>4. idle \in Progress
    BY <2>3, SMTT(30) DEF Progress
  <2>5. p.match \in Nat
    BY <2>3 DEF Progress
  <2>. HIDE DEF idle
  <2>6. done \in Progress
    <3>1. Larger(p.match, m.index) \in Nat /\ m.index + 1 \in Nat
      BY <1>2, <2>5 DEF Larger
    <3>. QED  BY <2>4, <3>1, Zenon DEF Progress
  <2>. HIDE DEF done
  <2>7. read \in Read \cup {0}
    BY PendingReadForType
  <2>. HIDE DEF read
  <2>8. more \in [progress : Progress, sent : SUBSET LeaderMessage]
    BY <1>2, <2>3, <2>6, <2>7, SendAppendEntriesToType, TypeGroups, ZenonT(40)
  <2>9. chunk \in LeaderMessage
    BY <1>2, SnapshotChunkType, TypeGroups
  <2>. HIDE DEF more, chunk
  <2>10. out \in [progress : Progress, sent : SUBSET LeaderMessage]
    BY <2>3, <2>4, <2>8, <2>9, ZenonT(40)
  <2>. HIDE DEF out
  <2>11. all \in [progress : [Node -> Progress], sent : SUBSET LeaderMessage]
    BY <1>2, <2>2, <2>10, SMTT(40)
  <2>. HIDE DEF all
  <2>12. /\ progress' \in [Node -> [Node -> Progress]] /\ msgs' \subseteq Message /\ faults' \in Nat
         /\ msgs' \subseteq msgs \cup LeaderMessage
    BY <1>2, <2>1, <2>11, SendFromType, TypeGroups, ZenonT(40)
  <2>13. HardType' /\ ElectionType' /\ LeaderType' /\ LogType' /\ SnapshotType' /\ HistoryType'
    BY <2>1, <2>12, TypeGroups, Zenon DEF HardType, ElectionType, LeaderType, LogType,
         SnapshotType, HistoryType, hardVars, electionVars, logVars, snapshotVars
  <2>. QED  BY <2>12, <2>13, TypeGroupsNext, ZenonT(40)
<1>. QED  BY <1>3, <1>4

\* Every step keeps every type.
LEMMA NextType ==
  ASSUME LeastElements, CountsAreNat, TypeOK, [Next]_vars
  PROVE  TypeOK'
<1>1. ASSUME NEW m \in msgs, Receive(m)  PROVE TypeOK'
  BY <1>1, HandlePreVoteRequestType, HandlePreVoteResponseType, HandleVoteRequestType, ZenonT(40),
     HandleVoteResponseType, HandleAppendEntriesType, HandleAppendEntriesResponseType,
     HandleInstallSnapshotType, HandleInstallSnapshotResponseType,
     CrashInAppendEntriesType, CrashInInstallSnapshotType DEF Receive
<1>2. ASSUME NEW i \in Up, Local(i)  PROVE TypeOK'
  <2>1. i \in Node
    BY NodeAssumption
  <2>2. CASE Restart(i)
    <3>1. /\ term[i] \in Nat /\ votedFor[i] \in Node \cup {NoNode} /\ log[i] \in Seq(Entry)
          /\ files[i] \in SUBSET Seq(Entry) /\ msgs \in SUBSET Message
      BY <2>1 DEF TypeOK
    <3>. QED  BY <2>1, <2>2, <3>1, RecoverType, ZenonT(40) DEF Restart
  <2>. QED  BY <1>2, <2>1, <2>2, StartPreVoteType, CheckQuorumType, ProposeType, ZenonT(40),
               ConfirmReadType, HeartbeatRoundType, LocalSnapshotType DEF Local
<1>3. CASE UNCHANGED vars
  BY <1>3, TypeGroups, TypeGroupsNext, Zenon
     DEF vars, hardVars, electionVars, leaderVars, logVars, snapshotVars, historyVars,
         HardType, ElectionType, LeaderType, LogType, SnapshotType, HistoryType
<1>. QED  BY <1>1, <1>2, <1>3 DEF Next

=============================================================================
