------------------------- MODULE SessionsInvariants -------------------------
(***************************************************************************)
(* The inductive invariant of Sessions: what the committed log, the states *)
(* and Snapshots of the Nodes, and the answers have to do with each other. *)
(***************************************************************************)
EXTENDS Sessions

-----------------------------------------------------------------------------
(* The state machine *)

\* What a state machine keeps of a session.
Record ==
  [state : {"Unknown", "Active", "Closed"}, last : Nat, result : {"Succeeded"}, existed : BOOLEAN]

\* The sessions that a state counts as open.
ActiveSessions(m) == {s \in Session : m.sessions[s].state = "Active"}

\* A state that commands can lead to: a session that is not known has no record, and
\* the counter is the number of open sessions.
MachineOK(m) ==
  /\ m \in [active : Nat, sessions : [Session -> Record], values : [Key -> Value \cup {NoValue}]]
  /\ \A s \in Session : m.sessions[s].state = "Unknown" => m.sessions[s] = NoRecord
  /\ IsFiniteSet(ActiveSessions(m))
  /\ m.active = Cardinality(ActiveSessions(m))
  /\ m.active <= Limit

\* Whether the Key of the mutation at index k had a value for it to delete.
ExistedAt(entries, k) ==
  /\ entries[k].command.type = "Delete"
  /\ StateAt(entries, k - 1).values[entries[k].command.key] # NoValue

\* The result that a session keeps is that of its latest mutation to take effect.
RecordIsOf(entries, n, s) ==
  LET record == StateAt(entries, n).sessions[s]
  IN record.last > 0 =>
       \E k \in EffectiveIn(entries) :
         /\ k <= n
         /\ entries[k].command.session = s
         /\ entries[k].command.sequence = record.last
         /\ ExistedAt(entries, k) = record.existed

-----------------------------------------------------------------------------
(* The Nodes *)

\* What a log may hold: the requests of Clients and the no-ops of Leaders.
Entry == [term : Nat, command : requests \cup {NoOp}]

\* What the loop of a Node holds.
LoopType ==
  /\ leads \in [Node -> BOOLEAN]
  /\ inbox \in [Node -> SUBSET requests]
  /\ pending \in [Node -> SUBSET [index : Nat \ {0}, command : requests]]
  /\ inFlightMutations \in
       [Node -> SUBSET [session : Session, sequence : Nat, index : Nat \ {0}]]

\* The logs, the committed log and the newest Leader.
LogType ==
  /\ term \in Nat
  /\ current \in Node \cup {NoNode}
  /\ log \in [Node -> Seq(Entry)]
  /\ chosen \in Seq(Entry)

\* The entry of a log at the index that a request waits for is that request, and the one
\* at the index of a mutation in flight has its session and sequence.
HoldsWaiters(entries, waiting, flying) ==
  /\ \A p \in waiting \cup flying : p.index <= Len(entries)
  /\ \A p \in waiting : entries[p.index].command = p.command
  /\ \A m \in flying :
       /\ IsMutation(entries[m.index].command)
       /\ entries[m.index].command.session = m.session
       /\ entries[m.index].command.sequence = m.sequence

\* The requests that wait for an index wait at a Leader that still holds them there.
WaitersFit ==
  \A i \in Node :
    /\ HoldsWaiters(log[i], pending[i], inFlightMutations[i])
    /\ ~leads[i] => pending[i] = {} /\ inFlightMutations[i] = {}

\* A Client gives a sequence to one mutation only.
SequencesAreUnique ==
  \A c, d \in requests :
    IsMutation(c) /\ IsMutation(d) /\ c.session = d.session /\ c.sequence = d.sequence => c = d

\* The newest Leader's log begins with the committed log.
LeaderHoldsChosen ==
  current # NoNode =>
    /\ Len(chosen) <= Len(log[current])
    /\ \A k \in 1..Len(chosen) : log[current][k] = chosen[k]

\* The state of a Node and its Snapshot are those of prefixes of the committed log.
StatesAreChosen ==
  /\ applied \in [Node -> 0..Len(chosen)]
  /\ machine = [i \in Node |-> StateAt(chosen, applied[i])]
  /\ saved \in [Node -> [index : Nat, state : {Snapshot(StateAt(chosen, n)) : n \in 0..Len(chosen)}]]
  /\ \A i \in Node : /\ saved[i].index <= applied[i]
                     /\ saved[i].state = Snapshot(StateAt(chosen, saved[i].index))

\* A successful answer to a mutation is the result of its entry that took effect, and one
\* to another request is of its entry.
AnswerIsOf(entries, r) ==
  r.failure = "Succeeded" =>
    IF IsMutation(r.command)
      THEN \E k \in EffectiveIn(entries) :
             entries[k].command = r.command /\ r.existed = ExistedAt(entries, k)
      ELSE /\ \E k \in 1..Len(entries) : entries[k].command = r.command
           /\ r.existed = FALSE

\* All of the above, at every moment of every run.
SessionsInv ==
  /\ requests \subseteq Request
  /\ replies \subseteq Answer
  /\ LoopType
  /\ LogType
  /\ WaitersFit
  /\ SequencesAreUnique
  /\ LeaderHoldsChosen
  /\ StatesAreChosen
  /\ \A r \in replies : AnswerIsOf(chosen, r)

=============================================================================
