# Verification of QuorumKV

TLA+ models of QuorumKV, a three-Node replicated key-value store, with the TLC
runs that check them on small instances and TLAPS proofs for every instance.
Paths are relative to `src/`.

## The system

| Part | State | Operations |
| --- | --- | --- |
| Consensus core `internal/raft` | role, term, vote, log and its compacted base, commit and applied index, per-peer progress, pending reads | `Node.Step`: timeouts, four RPCs and their responses, proposals, reads, persistence completions |
| Runtime `internal/node/raft_runtime.go` | the WAL and the core | `step`: one event to the end, WAL writes before sends |
| Loop `internal/node/runtime_loop.go` | pending proposals and reads, mutations in flight, Snapshot in progress, Snapshot being received, timers | one event at a time; a goroutine saves Snapshots and compacts the WAL |
| WAL `internal/wal` | segments of framed records, newest checkpoint | save hard state, entries, commit index; truncate; compact; install Snapshot; open |
| Snapshot files `internal/snapshot` | immutable files by index and term | save, open, load the newest compatible with the WAL |
| State machine `internal/node/session.go` | Key values, Client Sessions with last sequence and its result | apply, evaluate, snapshot, restore |
| RPC handlers, `Run` `internal/node` | input queue, result channels, goroutines, error channel | requests, Snapshot requests, graceful and forced stop |
| Peer transport `internal/node/peer.go` | connections, cached Snapshot reader | send with a deadline, chunks of a Snapshot, close |
| Client `client/client.go` | connections, attempts and Leader hints of each call | calls with retries, `Close` |

A command goes from the client, which follows Leader hints, to a handler, passes
the Leader check, enters the loop's queue, may be joined to a mutation in flight
or answered from the local state, is proposed, replicated, committed, applied, and
answered by the index it was given. What is hard: old and new Leaders at once,
messages late or lost, a crash between two writes of one step, Snapshots taken,
sent and received at the same time, retries at another Leader, a process that
stops while handlers wait. `PROJECT.json` lists these hazards at their lines.

## Modules

| Module | Models |
| --- | --- |
| `RaftLog` | the pure log helpers of the core: `matches`, `entriesToAppend`, `conflictHint`, `nextIndexFromConflict`, ... |
| `Raft` | the core under its runtime, for the whole Cluster; one action is one `raftRuntime.step` |
| `RaftSafety` | the properties of `Raft` |
| `LogChains`, `RaftInvariants`, `RaftSteps` | how the logs of a Cluster hang together, the inductive invariants of `Raft`, and the vocabulary of its proofs |
| `ReplicatedLog`, `RaftRefinement` | the abstract promise (one log, growing at its end, of which Nodes know growing prefixes) and the mapping under which `Raft` implements it |
| `Transfer` | the repair of one lagging Follower, end to end: core, transport, owner queues, staging of chunks |
| `Elections` | election timers and elections of a Cluster that loses one Node |
| `SnapshotFiles` | `Save` as file-system operations, and what a crash among them leaves |
| `WAL` | the WAL and the Snapshot files of one Node under the runtime's calls, with crashes |
| `SessionMachine` | the replicated state machine as functions |
| `Sessions`, `SessionsInvariants` | handlers, loop and state machine on several Nodes over an abstract consensus, and their inductive invariant |
| `RPC` | the calls under way between clients and handlers |
| `Client` | the client's `withLeader`, its connections and `Close` |
| `NodeRuntime` | handlers, loop, Snapshot requests and `Run` of every process |
| `Service` | `Client` and `NodeRuntime` composed over `RPC`, with its properties |
| `MC...` | instances and starting states for TLC |
| `RaftLogProofs`, `RaftTypeProofs`, `RaftChainProofs`, `RaftReplicationProofs`, `RaftSafetyProofs` | theorems about `Raft` and the lemmas they rest on |
| `TransferProofs`, `SessionsProofs`, `ServiceProofs` | theorems about `Transfer`, `Sessions` and `Service` |

**Raft.** Since a step ends only when its writes are synced, durable and volatile
state agree between steps. `Restart` is a crash between steps;
`CrashInAppendEntries` and `CrashInInstallSnapshot` are crashes between the
writes of one. `log` keeps the entries that a Snapshot replaced, as the
abstraction of the Snapshot's content; `base` says how many, and `TermAt` hides
them as the code does. A message is delivered at most once, at any time or
never; a send may fail and still arrive, and the Leader is told
(`AppendEntriesFailed`). Timers may fire at any time. `ballots`, `elected`,
`issued` and `served` are history. A step with one write needs no crash action:
a crash before the write is an event that never came, one after it is the step
followed by `Restart`, with what it sent lost. Read ids are unique in the model;
those of the code are unique in the life of a process, and a Leader that starts
again has no read pending.

**Transfer.** One iteration of a loop with all its sends is one action. The Leader
keeps leading and every entry is of its term, so a log is its length; the file
at an index is a number of chunks, each marked with its index. The core chooses
AppendEntries or InstallSnapshot from `nextIndex` and its base; the transport
reads the chunk through its cached reader and either hands the message to the
peer's bounded queue, hands it over after the deadline, or fails, and the failure
expires the request. Local Snapshots move the base in the middle of a transfer.

**Elections.** A log is its last term and index, and every Node has its election
timer as armed or not: the point at which each code path re-arms it, or does not,
is what the module is about. Messages arrive in any order.

**WAL.** A record is complete or torn. `log` is what the core believes; recovery
(`RecoverSegments`) is computed from the segments in every state and compared
with what the calls promised. The core's use is a guard: entries have rising
terms, only entries not received from the current Leader are truncated, and the
replacement has another term. A crash in `Save` leaves what `SnapshotFiles`
allows, one in the creation of a segment a file without a complete header
(`headless`), which `Open` refuses. `overlaid` records that a checkpoint was
written below a newer one or over a truncation (see Findings).

**Sessions.** `chosen`, `log`, `Elect` and `StepDown` stand for what `Raft` shows
of consensus and are marked external. A Node that still leads in an older term is
deposed by the new Leader's first request, which follows a no-op that only the new
Leader has and is rejected (`Depose`); committed entries reach it as a Follower
(`Learn`), when nothing is pending any more. Clients resubmit at will, go to the next
sequence after an answer, and use a sequence for one mutation.

**Service.** The core is reduced to who leads and whom a Node believes to lead.
A handler waits in two selects, for room in the queue and for its result, and
leaves either when its context is done or the loop has ended. `Run` passes from
serving to stopping, draining (graceful stop), waiting for its goroutines, and
returned. What the environment may do (calls, Snapshot requests, contexts that
end, changes of Leader, failures, growth of the log) is a `budget`, and the
instance starts from each of several budgets.

## Runs

| Run | Instance | Shows |
| --- | --- | --- |
| `election` | 3 Nodes from empty disks, 2 timeouts, 1 fault | `TypeOK`, `ElectionSafety`, `VoteIsFinal` |
| `replication` | two starting states: a Leader of term 4 with an entry of term 2 and a peer with two of term 3, 1 timeout, 1 fault; and a settled Cluster with a heartbeat round on its way, 1 timeout, 1 read | `LogMatching`, `StateMachineSafety`, `LeaderCompleteness`, `CommittedOnQuorum`, `ReadsSeeCommitted`, `ReadReadyIsCurrent` |
| `stale_tail` | 2 of 3 Nodes up, a shared entry and a stale tail of three behind it, requests of one entry, 2 timeouts, 2 faults, without stale rejections (`NoStaleRejection`) | `MatchIndexIsHeld`, `CommittedOnQuorum` |
| `compaction` | 2 of 3 Nodes up, a Snapshot after every entry, sent in 2 chunks, 1 fault | `LogTermsAscend`, `IndexesAreOrdered`, `CommittedIsFinal`, refinement `IsReplicatedLog` |
| `wal` | 2 records per segment, 2 terms, 2 entries, 7 calls, 1 truncation, 1 received Snapshot | `WALTypeOK`, `RunsOnWholeWAL`, `RecoveryIsExact`, `SnapshotsAlwaysLoad` |
| `sessions` | 2 Nodes, 2 sessions, limit 1, 2 terms, 3 submissions, 1 loss, 1 Snapshot | `SessionsTypeOK`, `AtMostOnce`, `ReplicasAgree`, `ActiveIsCounted`, `RetriesAgree`, `AcknowledgedIsCommitted` |
| `transfer` | 3 entries, files of 2, 3 and 1 chunks, queues of 2, 2 faults | `TransferTypeOK`, `MatchIsHeld`, `StagedIsOneFile`, `NoReaderLeaks`, liveness `FollowerIsRepaired` |
| `service` | 2 Nodes, a reading and a writing caller, 1 `CreateSnapshot`, a queue of 1, 3 attempts, 1 hint, six budgets | `ServiceTypeOK`, `EveryWaiterIsServed`, `ClosedHoldsNoConnection`, liveness `CallsReturn`, `RunStops`, `SettledCallsSucceed` |
| `wal_truncation`, `stalled`, `leaderless`, `stale_rejection` | as small as shows the case | see Findings |

**Bounds.** They are guards on counters (`MaxTimeouts`, `MaxRequests`,
`MaxFaults`, `MaxCalls`, `budget`, ...), so every run may stop and deadlock is not
checked. They are chosen so that the case a run is about happens with one
interference to spare: the starting states of `MCRaftLeader` are ones a Cluster
reaches, so that the budget is spent on repair, reads or compaction and not on the
first election. In `transfer` the request numbers are reused once nothing under
way carries them, so that the state space is finite without a bound on
heartbeats. The mutants confirm that the bounds suffice: for each property a
plausible fault of the code is found within them. Symmetry is used where the
instance has it and no liveness is checked: over all Nodes in `election`, over
the two peers in `replication`.

**Fairness.** `Transfer` and `Service` assume weak fairness of what a goroutine does
once it can: `select` takes every ready case in the end, handlers and callers
go on, the Snapshot goroutine finishes, `Run` proceeds once it is told to stop.
`Elections` assumes weak fairness of deliveries and strong fairness of a running
Node's timers at moments when no message is under way, since a timeout is far
longer than a round trip. That is more than the code promises, and the property
fails all the same. Nothing is assumed of proposals, elections in `Service`,
failures, contexts that end or the grace period.

`FollowerIsRepaired` holds under two conditions, which the instance states:
accepted InstallSnapshot messages and their responses are not lost (`MayLose`), and
the Follower does not compact further than its Leader (`MayOvertake`). Without
the second it is the run `stalled`. Without the first a transfer stays in
flight, because only a failed send or a response ends it.

## Findings

- **`wal_truncation`**: after entries 1, 2 are truncated, rewritten, and 1 is
  committed and compacted, replay skips the truncation (at or below the
  Snapshot) but not the old entry 2, and refuses the new one.
- **`stalled`**: a Follower that has compacted its log beyond the Leader's Snapshot
  rejects every probe below its own base with a hint of term 0 at the same index.
  The Leader falls back to its older Snapshot, which is acknowledged, and
  probes behind it again. One late answer is enough to begin with.
- **`leaderless`**: an election timer that fires at a Leader is consumed and not
  re-armed, nor is it when a response or a vote request deposes that Leader. If its
  successor fails and the other survivor's log is behind, nobody is elected.
- **`stale_rejection`**: a Follower answers a request of an earlier term with its
  current term, no success and no conflict hint. The sender may by now lead that
  very term. If it has no append in flight to the Follower it takes the answer for a
  rejection, goes back to index 1 and sends a first batch from there. The
  Follower holds that batch already, and behind it a tail of an older term that
  was never checked; it reports its whole length as matched. The Leader counts the
  tail as its own entries and commits one that nobody else holds. The run
  `stale_tail` starts from the same logs and leaves out only the steps that take such
  an answer (`NoStaleRejection`): then no rejection, however late, makes the Leader
  send from before the point where the logs part, and the lengths it counts are
  held.

Further behaviours seen while modelling, each reproducible by the constants
given and none of them a run of its own:

- `snapshotPersisted` sets `lastApplied` to the index of a received Snapshot even
  when more is applied. The state is restored with it, so `ReplicasAgree` and
  `IndexesAreOrdered` hold.
- A local Snapshot that is compacted after a newer one was received writes the
  older checkpoint last, and recovery refuses the WAL (`WALReopens` with
  `MaxTruncations = 0`, `MaxInstalls = 1`, `MaxIndex = 3`, `MaxCalls = 10`).
- A mutation is evaluated against the local state before it is proposed; a new
  Leader may lag and reject the legal next sequence.
- An accepted InstallSnapshot, or its response, that is lost stops the repair by
  Snapshot (`FollowerIsRepaired` with `"InstallSnapshotResponse"` in `MayLose`).
- With the metrics endpoint four goroutines report to an error channel of three
  places, and when all of them fail `Run` does not return (`RunStops` with
  `"metrics"` in `Server` and a budget of five faults).
- A manual Snapshot request that joins one in progress is answered by a Snapshot
  captured before the request.

## Proofs

The theorems hold for every value of the constants that satisfies the `ASSUME`s of
the model: any finite Cluster of at least two Nodes, any recovered state, any
log length, batch size, capacity and bound. TLC evaluates the `ASSUME`s and has checked
the inductive invariants on small instances. The proofs about steps take three
facts as hypotheses, that sets of numbers have least elements
(`LeastElements`), that sets of Nodes can be counted (`CountsAreNat`) and that two
quorums meet (`QuorumsMeet`); `RaftSafetyProofs` discharges them once from the
library's theorems, so nothing is left assumed.

**Consensus core** (`RaftSafetyProofs`).

- `TypeCorrect`: `Spec => []TypeOK`. One lemma per operator and per action in
  `RaftTypeProofs`; `RaftLogProofs` has those of the log helpers.
- `OneLeaderPerTerm`: `Spec => []ElectionSafety`. The property is not inductive:
  it says nothing of votes. `ElectionInv` adds that a ballot once cast is
  still its voter's vote or the voter has left the term (`BallotsBind`), that a
  Node casts one ballot per term (`OneBallot`), that granted responses on their way
  and the votes a Candidate has counted are ballots (`GrantsAreBallots`,
  `VotesAreBallots`), and that a Leader had a quorum of them
  (`ElectedByQuorum`).
- `VotesAreDurable`: `Spec => VoteIsFinal`, from the same lemmas per action.
- `LogsMatch`, `TermsAscend`: `Spec => []LogMatching` and `Spec => []LogTermsAscend`.
  A step compares one term at one index and relies on everything before it, so
  the invariant has to say where logs come from. A *chain* is a log as a Leader
  had it when it appended the last entry. `ChainInv(C)` says of a set `C` of chains
  that the chains of one term extend each other (`ChainsOK`); that every prefix of
  every log, capture and Snapshot file is a chain (`LogsOK`, `StoredOK`); that
  requests and Snapshots on their way were cut from a chain of their term
  (`MsgsOK`); that a Leader's own log is the longest chain of its term
  (`LeadersOwn`); and that a Candidate's term has no chain yet (`CandidatesNew`,
  `Owned`), which needs `ElectionSafety`. `C` is not a variable of the core:
  `SafetyInv` says that some `C` explains the state, and each step either
  keeps it or adds the Leader's new log. `RaftReplicationProofs` shows that every
  action, crashes between two writes included, is such a step (`ChainStep`), and
  `RaftChainProofs` that such a step keeps the invariant.
- `ReadsWaitForCommit`: `Spec => []ReadReadyIsCurrent`, with the bound of the commit
  index that the property leaves out (`ReadyOwnsCommit`).

**Sessions** (`SessionsProofs`): `SessionsTypeCorrect`, `MutationsTakeEffectOnce`,
`StatesAreReplicated`, `SessionsAreCounted`, `RetriedAnswersAgree`,
`AnswersAreCommitted`. `Spec` implies `SessionsTypeOK`, `AtMostOnce`, `ReplicasAgree`,
`ActiveIsCounted`, `RetriesAgree` and `AcknowledgedIsCommitted` in every state. All follow from `SessionsInv`: states and saved Snapshots are what
a prefix of the committed log leads to, and stay so because that log only grows;
a state that commands lead to counts its sessions, and the result it keeps for a
session is that of the latest mutation to take effect (`MachineOK`, `RecordIsOf`);
an answer tells the result of a committed entry or of a kept result; whoever waits
for an index of a Leader waits for the entry in its log there (`WaitersFit`); a
Leader holds everything committed. `StateAt` is a recursive function, and the facts
about it for every prefix use the least prefix at which they would fail, since
the provers cannot use induction theorems.

**Service** (`ServiceProofs`): `ServiceTypeCorrect`, `WaitersAreServed`,
`ClosedClientsHoldNothing`. `ServiceInv` relates a handler that waits, the queue of
its Node, what its loop has pending and the result on its channel, for every
phase of `Run`.

**Transfer** (`TransferProofs`): `TransferTypeCorrect`, `MatchedIsHeld`,
`OneFileIsStaged`, `ReadersAreClosed`, for whatever may be lost or overtaken.
None but the last is inductive, because they say nothing of the queues.
`TransferInv` adds that a request carries entries the Leader has, or a chunk within
the file it names (`Request`), and that a response reports no more than the
Follower holds (`Response`). Both are kept because the Leader's log and base and
the Follower's log only grow. `FreshRequestExists` shows by counting that a number
for a new request is always left.

Only model-checked:

- `StateMachineSafety`, `LeaderCompleteness`, `CommittedOnQuorum`, `MatchIndexIsHeld`,
  `ReadsSeeCommitted`, `IndexesAreOrdered`, `CommittedIsFinal` and the refinement
  `IsReplicatedLog`. They hold on the instances of `replication`, `stale_tail` and
  `compaction`, and fail in general: `stale_rejection` is a counterexample to the
  first of them to break, on which the others rest.
- All liveness, which is out of the prover's reach, and with it `Elections`.
- `WAL` and `SnapshotFiles`: what replay computes is a fold over segments, and facts
  about it for every history need induction over data, which is out of reach too.

## Not modelled

- Byte formats and checksums, and corruption of data that was synced: a frame is
  complete or torn, a Snapshot file decodes or does not. Properties of them are
  about single inputs, which tests reach.
- The connection cache and the handshake of the transport: a send that may fail.
- The lengths of timeouts and pauses, and the byte threshold of automatic Snapshots
  (it may be crossed at the end of any iteration).
- The start of a process: listening, the data-directory lock, health status, and the
  shutdown of the metrics endpoint.
- Request validation and configuration: stateless checks.
- Metrics: nothing reads them back.
- `internal/simulation`: a random scheduler for the core, in TLC's place here. Its
  invariants are among those checked.
- Command line, executables, benchmark and generated code: no state of their own.
