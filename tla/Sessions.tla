------------------------------ MODULE Sessions ------------------------------
(***************************************************************************)
(* Client Sessions from the RPC handlers through the Raft loop of each     *)
(* Node to the replicated state machine and back (internal/node session,   *)
(* set, delete, snapshot and runtime_loop).                                *)
(*                                                                         *)
(* The consensus core appears as what Raft shows of it: `chosen` is the    *)
(* committed log, a new Leader's log extends it, a deposed Leader may not  *)
(* know yet, and only the newest Leader commits.  The loop is modelled in  *)
(* full: the check before the queue, the joining of a retry to a mutation  *)
(* in flight, the local evaluation before the proposal, the answers when   *)
(* an entry is applied, and what a lost leadership clears.                 *)
(*                                                                         *)
(* Clients may submit a request again, at any Leader, at any time: lost    *)
(* answers, time-outs and late duplicates are all resubmissions.           *)
(***************************************************************************)
EXTENDS SessionMachine

CONSTANTS
  Node, NoNode,
  MaxSequence, MaxLog, MaxTerm,
  MaxRequests,  \* bound: submissions, retries included
  MaxLosses,    \* bound: restarts and step-downs
  MaxSnapshots  \* bound: local Snapshots

ASSUME NodesAssumption ==
  /\ NoNode \notin Node
  /\ {MaxSequence, MaxLog, MaxTerm, MaxRequests, MaxLosses, MaxSnapshots} \subseteq Nat

VARIABLES
  term, current,  \* the newest term and its Leader
  leads,          \* the Nodes whose loop believes to lead
  log,            \* the log of a Node as far as it matters for leadership
  chosen,         \* the committed log
  applied, machine,
  saved,          \* the newest Snapshot of a Node
  inbox,          \* requests that passed rejectIfNotLeader and wait for the loop
  pending,        \* requests that wait for an index
  inFlightMutations,
  requests,       \* every request that Clients have submitted
  replies,        \* every definite answer sent
  submitted, losses, snapshots

raftVars == <<term, current, log, chosen>>
machineVars == <<applied, machine, saved>>
loopVars == <<inbox, pending, inFlightMutations>>
bounds == <<submitted, losses, snapshots>>
vars == <<raftVars, leads, machineVars, loopVars, requests, replies, bounds>>

NoSnapshot == [index |-> 0, state |-> Snapshot(NewMachine)]

Init ==
  /\ term = 0
  /\ current = NoNode
  /\ leads = [i \in Node |-> FALSE]
  /\ log = [i \in Node |-> <<>>]
  /\ chosen = <<>>
  /\ applied = [i \in Node |-> 0]
  /\ machine = [i \in Node |-> NewMachine]
  /\ saved = [i \in Node |-> NoSnapshot]
  /\ inbox = [i \in Node |-> {}]
  /\ pending = [i \in Node |-> {}]
  /\ inFlightMutations = [i \in Node |-> {}]
  /\ requests = {}
  /\ replies = {}
  /\ submitted = 0
  /\ losses = 0
  /\ snapshots = 0

Commands(entries, from, to) == [k \in 1..(to - from + 1) |-> entries[from + k - 1].command]

Reply(command, result) ==
  [command |-> command, failure |-> result.failure, existed |-> result.existed]

-----------------------------------------------------------------------------
(* Requests *)

\* The commands of session s that the Client has been told to have succeeded.
Acknowledged(s) ==
  {r.command : r \in {q \in replies : q.failure = "Succeeded" /\ q.command.session = s}}

IsOpened(s) == \E d \in Acknowledged(s) : d.type = "Open"

\* A Client opens a session once (its identity is generated for the request),
\* goes on to the next sequence once it has an answer, and gives a sequence to
\* one mutation only.
ClientMaySend(c) ==
  CASE c.type = "Open" -> c \notin requests
    [] c.type = "Close" -> IsOpened(c.session)
    [] IsMutation(c) ->
         /\ IsOpened(c.session)
         /\ c.sequence > 1 =>
              \E d \in Acknowledged(c.session) : IsMutation(d) /\ d.sequence = c.sequence - 1
         /\ \A d \in requests :
              IsMutation(d) /\ d.session = c.session /\ d.sequence = c.sequence => d = c

\* OpenSession, CloseSession, Set and Delete up to the queue of the loop:
\* rejectIfNotLeader looks at the published state.
Submit(i, c) ==
  /\ leads[i]
  /\ ClientMaySend(c)
  /\ submitted < MaxRequests
  /\ submitted' = submitted + 1
  /\ inbox' = [inbox EXCEPT ![i] = @ \cup {c}]
  /\ requests' = requests \cup {c}
  /\ UNCHANGED <<raftVars, leads, machineVars, pending, inFlightMutations, replies, losses, snapshots>>

\* proposeSession, proposeSet, proposeDelete: a Leader appends, another Node
\* rejects with the Leader it knows, which tells a Client nothing definite.
Propose(i, c) ==
  LET index == Len(log[i]) + 1
  IN \/ /\ leads[i]
        /\ index <= MaxLog
        /\ log' = [log EXCEPT ![i] = Append(@, [term |-> term, command |-> c])]
        /\ pending' = [pending EXCEPT ![i] = @ \cup {[index |-> index, command |-> c]}]
        /\ inFlightMutations' =
             [inFlightMutations EXCEPT ![i] =
                IF IsMutation(c)
                  THEN {m \in @ : m.session # c.session} \cup
                       {[session |-> c.session, sequence |-> c.sequence, index |-> index]}
                  ELSE @]
        /\ UNCHANGED replies
     \/ /\ ~leads[i]
        /\ UNCHANGED <<log, pending, inFlightMutations, replies>>

\* The loop takes a request from its queue.
Handle(i, c) ==
  LET joined == {m \in inFlightMutations[i] :
                   IsMutation(c) /\ m.session = c.session /\ m.sequence = c.sequence}
      Evaluated == EvaluateMutation(machine[i], c)
  IN /\ c \in inbox[i]
     /\ inbox' = [inbox EXCEPT ![i] = @ \ {c}]
     /\ \/ \* a retry of the mutation in flight waits for the same index
           /\ joined # {}
           /\ pending' = [pending EXCEPT ![i] =
                            @ \cup {[index |-> m.index, command |-> c] : m \in joined}]
           /\ UNCHANGED <<log, inFlightMutations, replies>>
        \/ \* the local state machine answers
           /\ joined = {}
           /\ IsMutation(c)
           /\ ~Evaluated.apply
           /\ replies' = replies \cup {Reply(c, Evaluated.result)}
           /\ UNCHANGED <<log, pending, inFlightMutations>>
        \/ /\ joined = {}
           /\ IsMutation(c) => Evaluated.apply
           /\ Propose(i, c)
     /\ UNCHANGED <<term, current, chosen, leads, machineVars, requests, bounds>>

-----------------------------------------------------------------------------
(* Applying committed entries *)

\* The answers that applying entries through index n sends: to whoever waits
\* for the index, whatever the entry there is.
Answers(i, entries, n) ==
  {LET before == ApplyAll(machine[i], Commands(entries, applied[i] + 1, p.index - 1))
   IN Reply(p.command, Apply(before, entries[p.index].command).result) :
     p \in {q \in pending[i] : q.index > applied[i] /\ q.index <= n}}

\* The ApplyEntry actions of one step of the core: the state, the answers, and who
\* waits no longer.
ApplyThrough(i, entries, n) ==
  /\ machine' = [machine EXCEPT ![i] = ApplyAll(@, Commands(entries, applied[i] + 1, n))]
  /\ applied' = [applied EXCEPT ![i] = n]
  /\ replies' = replies \cup Answers(i, entries, n)
  /\ pending' = [pending EXCEPT ![i] = {p \in @ : p.index > n}]
  /\ inFlightMutations' =
       [inFlightMutations EXCEPT ![i] =
          {m \in @ : \A k \in (applied[i] + 1)..n :
                       ~ /\ IsMutation(entries[k].command)
                         /\ entries[k].command.session = m.session
                         /\ entries[k].command.sequence = m.sequence}]

\* Mutant: the mutations in flight are forgotten, the requests that wait are not.
LoseLeadershipQuietly(i) ==
  /\ leads' = [leads EXCEPT ![i] = FALSE]
  /\ inFlightMutations' = [inFlightMutations EXCEPT ![i] = {}]
  /\ UNCHANGED pending

\* What the loop clears when a step ends a leadership.
LoseLeadership(i) ==
  /\ leads' = [leads EXCEPT ![i] = FALSE]
  /\ pending' = [pending EXCEPT ![i] = {}]
  /\ inFlightMutations' = [inFlightMutations EXCEPT ![i] = {}]

\* The newest Leader commits through an entry of its own term and applies.
Commit(i) ==
  /\ i = current
  /\ leads[i]
  /\ \E n \in (Len(chosen) + 1)..Len(log[i]) :
       /\ log[i][n].term = term
       /\ chosen' = SubSeq(log[i], 1, n)
       /\ ApplyThrough(i, log[i], n)
  /\ UNCHANGED <<term, current, log, leads, saved, inbox, requests, bounds>>

\* AppendEntries of the newest Leader reaches a Node that still leads in an older
\* term.  Until that Node has answered it in its own term, a new Leader sends from
\* behind its own no-op, which no other log holds: the request is rejected, and the
\* loop clears what is pending with nothing applied.
Depose(i) ==
  /\ current \notin {i, NoNode}
  /\ leads[i]
  /\ LoseLeadership(i)
  /\ UNCHANGED <<raftVars, machineVars, inbox, requests, replies, bounds>>

\* AppendEntries of the newest Leader brings a Follower committed entries, in place
\* of what its log held there.
Learn(i) ==
  /\ current \notin {i, NoNode}
  /\ ~leads[i]
  /\ \E n \in (applied[i] + 1)..Len(chosen) :
       /\ log' = [log EXCEPT ![i] = SubSeq(chosen, 1, n)]
       /\ ApplyThrough(i, chosen, n)
  /\ UNCHANGED <<term, current, leads, chosen, saved, inbox, requests, bounds>>

-----------------------------------------------------------------------------
(* Leadership, external: as Raft elects *)

\* The new Leader's log holds everything committed and perhaps more of what an
\* earlier Leader proposed, and its no-op.
Elect(i) ==
  /\ ~leads[i]
  /\ term < MaxTerm
  /\ term' = term + 1
  /\ current' = i
  /\ leads' = [leads EXCEPT ![i] = TRUE]
  /\ \E j \in Node : \E n \in Len(chosen)..(MaxLog - 1) :
       /\ n <= Len(log[j])
       /\ \A k \in 1..Len(chosen) : log[j][k] = chosen[k]
       /\ log' = [log EXCEPT ![i] = Append(SubSeq(log[j], 1, n), [term |-> term + 1, command |-> NoOp])]
  /\ UNCHANGED <<chosen, machineVars, loopVars, requests, replies, bounds>>

\* A higher term or a missed quorum ends a leadership.
StepDown(i) ==
  /\ leads[i]
  /\ losses < MaxLosses
  /\ losses' = losses + 1
  /\ LoseLeadership(i)
  /\ UNCHANGED <<raftVars, machineVars, inbox, requests, replies, submitted, snapshots>>

-----------------------------------------------------------------------------
(* Snapshots and restarts *)

\* startSnapshot
TakeSnapshot(i) ==
  /\ snapshots < MaxSnapshots
  /\ snapshots' = snapshots + 1
  /\ applied[i] > saved[i].index
  /\ saved' = [saved EXCEPT ![i] = [index |-> applied[i], state |-> Snapshot(machine[i])]]
  /\ UNCHANGED <<raftVars, leads, applied, machine, loopVars, requests, replies, submitted, losses>>

\* A Snapshot of the newest Leader is received in full: the state is restored,
\* also when the Node has applied more.
RestoreSnapshot(i) ==
  /\ current \notin {i, NoNode}
  /\ saved[current].index > saved[i].index
  /\ saved' = [saved EXCEPT ![i] = saved[current]]
  /\ machine' = [machine EXCEPT ![i] = Restore(saved[current].state)]
  /\ applied' = [applied EXCEPT ![i] = saved[current].index]
  /\ log' = [log EXCEPT ![i] = SubSeq(chosen, 1, IF applied[i] > saved[current].index
                                                  THEN applied[i] ELSE saved[current].index)]
  /\ LoseLeadership(i)
  /\ UNCHANGED <<term, current, chosen, inbox, requests, replies, bounds>>

\* A crash and the next start: the newest Snapshot, then the committed suffix.
Restart(i) ==
  /\ losses < MaxLosses
  /\ losses' = losses + 1
  /\ machine' = [machine EXCEPT ![i] =
                   ApplyAll(Restore(saved[i].state), Commands(chosen, saved[i].index + 1, applied[i]))]
  /\ LoseLeadership(i)
  /\ inbox' = [inbox EXCEPT ![i] = {}]
  /\ UNCHANGED <<raftVars, applied, saved, requests, replies, submitted, snapshots>>

Request ==
  [type : {"Open", "Close"}, session : Session]
  \cup [type : {"Set"}, session : Session, sequence : 1..MaxSequence, key : Key, value : Value]
  \cup [type : {"Delete"}, session : Session, sequence : 1..MaxSequence, key : Key]

Next ==
  \E i \in Node :
    \/ \E c \in Request : Submit(i, c)
    \/ \E c \in inbox[i] : Handle(i, c)
    \/ Commit(i)
    \/ Depose(i)
    \/ Learn(i)
    \/ Elect(i)
    \/ StepDown(i)
    \/ TakeSnapshot(i)
    \/ RestoreSnapshot(i)
    \/ Restart(i)

Spec == Init /\ [][Next]_vars

-----------------------------------------------------------------------------
(* Properties *)

Answer ==
  [command : Command, existed : BOOLEAN,
   failure : {"Succeeded", "LimitReached", "Unknown", "Closed", "AlreadyExists",
              "StaleSequence", "OutOfOrderSequence"}]

\* The loop's maps, the logs and the answers keep their types, and only a Node
\* that believes to lead has requests waiting for an index.
SessionsTypeOK ==
  /\ term \in Nat
  /\ current \in Node \cup {NoNode}
  /\ leads \in [Node -> BOOLEAN]
  /\ \A i \in Node :
       /\ \A k \in 1..Len(log[i]) : log[i][k] \in [term : Nat, command : Command]
       /\ applied[i] \in 0..Len(chosen)
       /\ machine[i].active \in Nat
       /\ inbox[i] \subseteq Command
       /\ pending[i] \subseteq [index : 1..Len(log[i]), command : Command]
       /\ inFlightMutations[i] \subseteq [session : Session, sequence : Nat, index : 1..Len(log[i])]
       /\ ~leads[i] => pending[i] = {} /\ inFlightMutations[i] = {}
  /\ requests \subseteq Command
  /\ replies \subseteq Answer

\* The state after the first n entries of a log.
StateAt(entries, n) == ApplyAll(NewMachine, Commands(entries, 1, n))

\* The entries of a log that take effect when it is applied from the start.
EffectiveIn(entries) ==
  {k \in 1..Len(entries) :
     /\ IsMutation(entries[k].command)
     /\ EvaluateMutation(StateAt(entries, k - 1), entries[k].command).apply}

\* A session and sequence take effect at most once, however often the mutation is
\* submitted, joined, proposed by several Leaders and committed.
AtMostOnce ==
  \A j, k \in EffectiveIn(chosen) :
    /\ chosen[j].command.session = chosen[k].command.session
    /\ chosen[j].command.sequence = chosen[k].command.sequence
    => j = k

\* Every Node's state is that of the committed entries it has applied, through
\* Snapshots taken, received over a longer applied prefix, and restarts.
ReplicasAgree ==
  \A i \in Node : machine[i] = StateAt(chosen, applied[i])

\* On every Node the active counter is the number of open sessions, which never
\* exceeds the limit: a slot is neither lost nor freed twice.
ActiveIsCounted ==
  \A i \in Node :
    /\ machine[i].active = Cardinality({s \in Session : machine[i].sessions[s].state = "Active"})
    /\ machine[i].active <= Limit

\* All successful answers to one mutation are the same, whichever Leaders gave
\* them, from the application or from the cached result.
RetriesAgree ==
  \A r, q \in replies :
    r.command = q.command /\ r.failure = "Succeeded" /\ q.failure = "Succeeded"
      => r.existed = q.existed

\* A request that was answered with success is a committed entry, although it waits by
\* index: the entry there is its own, whichever Leaders came and went, and a kept
\* result is that of the same mutation.  ("Mutations are acknowledged only after ...
\* commitment, and application".)
AcknowledgedIsCommitted ==
  \A r \in replies :
    r.failure = "Succeeded" => \E k \in 1..Len(chosen) : chosen[k].command = r.command

=============================================================================
