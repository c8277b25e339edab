---------------------------- MODULE MCRaftLeader ----------------------------
(***************************************************************************)
(* Raft from the moment n1 has become Leader, for TLC: the state that      *)
(* BecomeLeader leaves when the Nodes had recovered the logs below and the *)
(* election's other messages are lost.                                     *)
(***************************************************************************)
EXTENDS RaftRefinement, TLC

CONSTANTS n1, n2, n3, c1

E(t, cmd) == [term |-> t, cmd |-> cmd]

MCZero == [i \in Node |-> 0]

\* A Node whose vote n1 counted besides its own.
Voter == CHOOSE j \in Node \ {n1} : votedFor[j] = n1

\* n1 leads with the log it recovered and the Nodes of `contact` have heard of
\* it; `prog` and `sent` say what it has sent.  The reads of `past` were given up,
\* and the faults that `failed` counts have happened.
StartAsLeader(contact, active, ready, prog, sent, past, failed) ==
  /\ role = [i \in Node |-> IF i = n1 THEN "Leader" ELSE "Follower"]
  /\ leaderID = [i \in Node |-> IF i = n1 \/ i \in contact THEN n1 ELSE NoNode]
  /\ recentLeaderContact = [i \in Node |-> i \in contact]
  /\ votes = [i \in Node |-> IF i = n1 THEN {n1, Voter} ELSE {}]
  /\ preVotes = [i \in Node |-> IF i = n1 THEN {n1, Voter} ELSE {}]
  /\ activePeers = [i \in Node |-> IF i = n1 THEN active ELSE {}]
  /\ progress = [i \in Node |-> IF i = n1 THEN prog ELSE [j \in Node |-> NoProgress]]
  /\ pendingReads = [i \in Node |-> NoReads]
  /\ readReady = [i \in Node |-> ready /\ i = n1]
  /\ capture = [i \in Node |-> <<>>]
  /\ files = [i \in Node |-> {Prefix(log[i], k) : k \in {base[i]} \ {0}}]
  /\ incoming = [i \in Node |-> NoIncoming]
  /\ msgs = sent
  /\ ballots = {<<term[i], i, votedFor[i]>> : i \in {j \in Node : votedFor[j] # NoNode}}
  /\ elected = {<<term[n1], n1>>}
  /\ issued = past
  /\ served = {}
  /\ timeouts = 0
  /\ faults = failed

RecoveredLogs ==
  /\ term = RecoveredTerm
  /\ votedFor = RecoveredVote
  /\ log = RecoveredLog
  /\ base = RecoveredSnapshot
  /\ commitIndex = RecoveredCommit
  /\ lastApplied = RecoveredCommit

\* n2, whose log is empty, has rejected n1's first request, is sent the first
\* entries and has been restarted; n3's answer to its first request is lost, and
\* so is n3's contact with n1, by a restart.  A read was given up.
ProbedInit ==
  LET fresh == [j \in Node |-> [NoProgress EXCEPT !.next = Len(RecoveredLog[n1]) + 1]]
      probe == SendAppendEntries(n1, fresh, log[n1], commitIndex[n1], 0, NoReads)
      next  == SendAppendEntriesTo(n1, n2, [probe.progress[n2] EXCEPT !.append = 0, !.next = 1],
                                   log[n1], commitIndex[n1], 0)
  IN RecoveredLogs /\ StartAsLeader({}, {n2}, FALSE,
                                    [probe.progress EXCEPT ![n2] = next.progress], next.sent,
                                    <<MCZero>>, 0)

\* n1's log is committed and applied everywhere, and a heartbeat round, the third
\* request, is on its way; whatever may fail has failed.
SettledInit ==
  LET known == [j \in Node |-> [NoProgress EXCEPT !.next = 2, !.requests = 2,
                                                  !.match = IF j = n1 THEN 0 ELSE 1]]
      out   == SendAppendEntries(n1, known, log[n1], commitIndex[n1], 0, NoReads)
  IN /\ term = [i \in Node |-> 1]
     /\ votedFor = [i \in Node |-> n1]
     /\ log = [i \in Node |-> <<E(1, NoOp)>>]
     /\ base = MCZero
     /\ commitIndex = [i \in Node |-> 1]
     /\ lastApplied = commitIndex
     /\ StartAsLeader({n2, n3}, {}, TRUE, out.progress, out.sent, <<>>, MaxFaults)

ReplicationInit == ProbedInit \/ SettledInit

ReplicationSpec == ReplicationInit /\ [][Next]_vars

-----------------------------------------------------------------------------
(* The uncommitted entry of an earlier term: n1, Leader of term 2, lost it   *)
(* everywhere but on itself, n3 was Leader of term 3 and reached nobody.     *)

OldEntryTerm == [i \in Node |-> 4]
OldEntryVote == [i \in Node |-> IF i = n3 THEN NoNode ELSE n1]
OldEntryLog ==
  [i \in Node |-> CASE i = n1 -> <<E(2, NoOp), E(4, NoOp)>>
                    [] i = n2 -> <<>>
                    [] i = n3 -> <<E(3, NoOp), E(3, c1)>>]

(* A first election. *)

FirstTerm == [i \in Node |-> 1]
FirstVote == [i \in Node |-> n1]
FirstLog == [i \in Node |-> IF i = n1 THEN <<E(1, NoOp)>> ELSE <<>>]
PeerSymmetry == Permutations({n2, n3})

-----------------------------------------------------------------------------
(* A compacted Leader: n1 and n3 committed three entries, n1 holds them only *)
(* in its Snapshot, and n2 kept three entries of term 2 that reached nobody.   *)

CompactedLogs ==
  LET committed == <<E(1, NoOp), E(1, c1), E(3, NoOp)>>
  IN /\ term = [i \in Node |-> IF i = n2 THEN 2 ELSE 4]
     /\ votedFor = [i \in Node |-> IF i = n2 THEN n2 ELSE n1]
     /\ log = [i \in Node |-> CASE i = n1 -> Append(committed, E(4, NoOp))
                                [] i = n2 -> <<E(1, NoOp), E(2, NoOp), E(2, c1), E(2, c1)>>
                                [] i = n3 -> committed]
     /\ base = [i \in Node |-> IF i = n1 THEN 3 ELSE 0]
     /\ commitIndex = [i \in Node |-> IF i = n2 THEN 1 ELSE 3]
     /\ lastApplied = commitIndex

\* The step in which n1 wins its election has just ended.
StartElected ==
  LET fresh == [j \in Node |-> [NoProgress EXCEPT !.next = Len(log[n1]) + 1]]
      out   == SendAppendEntries(n1, fresh, log[n1], commitIndex[n1], 0, NoReads)
  IN StartAsLeader({}, {}, FALSE, out.progress, out.sent, <<>>, 0)

\* With the recovered logs or as a compacted Leader.
ElectedInit == (RecoveredLogs \/ CompactedLogs) /\ StartElected

ElectedSpec == ElectedInit /\ [][Next]_vars

-----------------------------------------------------------------------------
(* A long stale tail: n2, Leader of term 1, appended entries that reached    *)
(* nobody before n1 and n3 elected n1.                                       *)

TailTerm == [i \in Node |-> IF i = n2 THEN 1 ELSE 2]
TailVote == [i \in Node |-> IF i = n2 THEN n2 ELSE n1]
TailLog ==
  [i \in Node |-> CASE i = n1 -> <<E(1, NoOp), E(2, NoOp)>>
                    [] i = n2 -> <<E(1, NoOp), E(1, c1), E(1, c1), E(1, c1)>>
                    [] i = n3 -> <<E(1, NoOp)>>]

TailInit == RecoveredLogs /\ StartElected

TailSpec == TailInit /\ [][Next]_vars

\* The same, while no Leader takes the rejection of an earlier term's request.
CurrentTailSpec == TailInit /\ [][Next /\ NoStaleRejection]_vars

=============================================================================
