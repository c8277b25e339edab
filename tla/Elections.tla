----------------------------- MODULE Elections -----------------------------
(***************************************************************************)
(* The election timers of internal/node and the elections of internal/raft, *)
(* without the counters that bound Raft: what keeps a Cluster without a      *)
(* Leader going.                                                           *)
(*                                                                         *)
(* A Node is one record, the core's fields with its loop's election timer.   *)
(* A log is its last term and index, which is all that votes look at.  The   *)
(* heartbeat and check-quorum timers run exactly while the Node leads, as    *)
(* the loop stops both when it sees another role.  Messages between running  *)
(* Nodes arrive in any order, all of them before the next timer expires; one *)
(* Node crashes for good.                                                  *)
(***************************************************************************)
EXTENDS Integers, FiniteSets

CONSTANTS Node, NoNode,
          FirstLeader,  \* leads term 1 in the initial state
          FirstLog,     \* the last term and index of every log then
          MaxTerm       \* no election starts in a later term

VARIABLES node, crashed, msgs

vars == <<node, crashed, msgs>>

Up == Node \ {crashed}

Quorum == Cardinality(Node) \div 2 + 1

UpToDate(log, than) ==
  \/ log.term > than.term
  \/ log.term = than.term /\ log.index >= than.index

\* A message of Node i, whose record is n.
Message(type, i, n, j, term, ok) ==
  [type |-> type, from |-> i, to |-> j, term |-> term, ok |-> ok,
   current |-> n.term, log |-> n.log]

ToPeers(type, i, n, term) == {Message(type, i, n, j, term, TRUE) : j \in Node \ {i}}

Init ==
  /\ node = [i \in Node |->
       [role |-> IF i = FirstLeader THEN "Leader" ELSE "Follower",
        term |-> 1, votedFor |-> FirstLeader, recent |-> i # FirstLeader,
        votes |-> {}, active |-> {}, log |-> FirstLog[i], armed |-> TRUE]]
  /\ crashed = NoNode
  /\ msgs = {}

\* Node i becomes n, takes the messages in `taken` and sends `sent`: what is sent
\* to a crashed Node is gone.
Become(i, n, taken, sent) ==
  /\ node' = [node EXCEPT ![i] = n]
  /\ msgs' = (msgs \ taken) \cup {m \in sent : m.to # crashed}
  /\ UNCHANGED crashed

\* becomeFollower: the election timer is left as it is.
FollowerOf(n, term, leader) ==
  [n EXCEPT !.role = "Follower", !.term = term,
            !.votedFor = IF term > n.term THEN NoNode ELSE @,
            !.recent = leader # NoNode, !.votes = {}, !.active = {}]

-----------------------------------------------------------------------------
(* Timers *)

\* An expired timer is not armed until the loop resets it; startPreVote ignores
\* the event at a Leader, without a reset.
ElectionTimeout(i) ==
  LET n   == node[i]
      pre == [n EXCEPT !.role = "PreCandidate", !.recent = FALSE, !.votes = {i}]
  IN /\ n.armed
     /\ IF n.role = "Leader"
          THEN Become(i, [n EXCEPT !.armed = FALSE], {}, {})
          ELSE /\ n.term < MaxTerm
               /\ Become(i, pre, {}, ToPeers("PreVoteRequest", i, pre, n.term + 1))

HeartbeatTimeout(i) ==
  LET n == node[i]
  IN /\ n.role = "Leader"
     /\ Become(i, n, {}, ToPeers("AppendEntries", i, n, n.term))

CheckQuorumTimeout(i) ==
  LET n == node[i]
  IN /\ n.role = "Leader"
     /\ Become(i, IF Cardinality(n.active) + 1 < Quorum
                    THEN [FollowerOf(n, n.term, NoNode) EXCEPT !.armed = TRUE]
                    ELSE [n EXCEPT !.active = {}], {}, {})

\* A message takes a small part of the shortest timeout.
Timeout(i) ==
  /\ msgs = {}
  /\ ElectionTimeout(i) \/ HeartbeatTimeout(i) \/ CheckQuorumTimeout(i)

-----------------------------------------------------------------------------
(* Messages *)

Answer(m, n, type, term, ok) ==
  Become(m.to, n, {m}, {Message(type, m.to, n, m.from, term, ok)})

HandlePreVoteRequest(m) ==
  LET n == node[m.to]
  IN /\ m.type = "PreVoteRequest"
     /\ Answer(m, n, "PreVoteResponse", m.term,
               m.term >= n.term + 1 /\ ~n.recent /\ UpToDate(m.log, n.log))

\* A response from a later term deposes its receiver, whatever it is.
StepDown(m) ==
  /\ m.type \in {"PreVoteResponse", "VoteResponse", "AppendEntriesResponse"}
  /\ m.current > node[m.to].term
  /\ Become(m.to, FollowerOf(node[m.to], m.current, NoNode), {m}, {})

\* The votes of Node i with that of m.
VotesWith(m) == node[m.to].votes \cup {m.from}

HandlePreVoteResponse(m) ==
  LET i     == m.to
      n     == node[i]
      stand == [n EXCEPT !.role = "Candidate", !.term = @ + 1, !.votedFor = i,
                         !.votes = {i}, !.armed = TRUE]
  IN /\ m.type = "PreVoteResponse"
     /\ m.current <= n.term
     /\ IF n.role # "PreCandidate" \/ m.term # n.term + 1 \/ ~m.ok
          THEN Become(i, n, {m}, {})
        ELSE IF Cardinality(VotesWith(m)) < Quorum
          THEN Become(i, [n EXCEPT !.votes = VotesWith(m)], {m}, {})
          ELSE Become(i, stand, {m}, ToPeers("VoteRequest", i, stand, stand.term))

\* Neither stepping down nor granting the vote resets the timer.
HandleVoteRequest(m) ==
  LET old   == node[m.to]
      n     == IF m.term > old.term THEN FollowerOf(old, m.term, NoNode) ELSE old
      grant == /\ m.term = n.term
               /\ n.votedFor \in {NoNode, m.from}
               /\ UpToDate(m.log, n.log)
  IN /\ m.type = "VoteRequest"
     /\ Answer(m, IF grant THEN [n EXCEPT !.votedFor = m.from] ELSE n,
               "VoteResponse", n.term, grant)

\* The winner appends its no-op and sends it.
HandleVoteResponse(m) ==
  LET i   == m.to
      n   == node[i]
      won == [n EXCEPT !.role = "Leader", !.active = {},
                       !.log = [term |-> n.term, index |-> n.log.index + 1]]
  IN /\ m.type = "VoteResponse"
     /\ m.current <= n.term
     /\ IF n.role # "Candidate" \/ m.term # n.term \/ ~m.ok
          THEN Become(i, n, {m}, {})
        ELSE IF Cardinality(VotesWith(m)) < Quorum
          THEN Become(i, [n EXCEPT !.votes = VotesWith(m)], {m}, {})
          ELSE Become(i, won, {m}, ToPeers("AppendEntries", i, won, n.term))

\* A request of the current term resets the timer and brings the log up to the
\* Leader's.
HandleAppendEntries(m) ==
  LET n     == node[m.to]
      heard == [FollowerOf(n, m.term, m.from) EXCEPT
                  !.armed = TRUE,
                  !.log = IF UpToDate(n.log, m.log) THEN n.log ELSE m.log]
  IN /\ m.type = "AppendEntries"
     /\ IF m.term < n.term
          THEN Answer(m, n, "AppendEntriesResponse", n.term, FALSE)
          ELSE Answer(m, heard, "AppendEntriesResponse", m.term, TRUE)

HandleAppendEntriesResponse(m) ==
  LET n == node[m.to]
  IN /\ m.type = "AppendEntriesResponse"
     /\ m.current <= n.term
     /\ Become(m.to, IF n.role = "Leader" /\ m.term = n.term
                       THEN [n EXCEPT !.active = @ \cup {m.from}] ELSE n, {m}, {})

Receive(m) ==
  \/ HandlePreVoteRequest(m)
  \/ HandlePreVoteResponse(m)
  \/ HandleVoteRequest(m)
  \/ HandleVoteResponse(m)
  \/ HandleAppendEntries(m)
  \/ HandleAppendEntriesResponse(m)
  \/ StepDown(m)

\* A process is gone, with the messages to it and those it had not delivered.
Crash(i) ==
  /\ crashed = NoNode
  /\ crashed' = i
  /\ msgs' = {m \in msgs : i \notin {m.from, m.to}}
  /\ UNCHANGED node

-----------------------------------------------------------------------------
Next ==
  \/ \E i \in Up : Timeout(i)
  \/ \E m \in msgs : Receive(m)
  \/ \E i \in Node : Crash(i)

\* A running loop takes its queue and each of its timers in the end; nothing
\* makes a Node crash.
Fairness ==
  /\ WF_vars(\E m \in msgs : Receive(m))
  /\ \A i \in Node :
       /\ SF_vars(i \in Up /\ msgs = {} /\ ElectionTimeout(i))
       /\ SF_vars(i \in Up /\ msgs = {} /\ HeartbeatTimeout(i))
       /\ SF_vars(i \in Up /\ msgs = {} /\ CheckQuorumTimeout(i))

Spec == Init /\ [][Next]_vars /\ Fairness

\* The bound on terms ends the instance, not the system.
AtBound == \E i \in Node : node[i].term = MaxTerm

\* "A surviving two-Node Quorum elects a new Leader and continues after one Node
\* fails": once a Node has crashed, a running Node leads again and again.
SurvivorsElect ==
  [](crashed # NoNode => <>(AtBound \/ \E i \in Up : node[i].role = "Leader"))

=============================================================================
