--------------------------------- MODULE WAL ---------------------------------
(***************************************************************************)
(* The write-ahead log of one Node (internal/wal) and its Snapshot files   *)
(* (internal/snapshot), under the calls that the runtime makes.            *)
(*                                                                         *)
(* A call holds the WAL's mutex and returns once its records are synced,   *)
(* so one action is one whole call.  A crash in the middle of a call       *)
(* leaves the records that were complete and perhaps a torn frame: for the *)
(* calls whose complete records are each a legal call of their own, that   *)
(* is the shorter call followed by Crash; the checkpoint transaction, the  *)
(* removal of segments, the first Open and the creation of a segment have  *)
(* crash alternatives of their own.                                        *)
(*                                                                         *)
(* `log` is the consensus core's view: the term of every entry since index *)
(* 1, with 0 for history that only a received Snapshot stands for.  While  *)
(* the process is down the other memory variables keep what the last       *)
(* completed call promised to be durable.                                  *)
(***************************************************************************)
EXTENDS Integers, Sequences, FiniteSets, SequencesExt, SnapshotFiles

CONSTANTS
  Voter, NoVote,   \* Nodes that can be voted for, and no vote
  SegmentSize,     \* records that fit in a segment
  MaxTerm, MaxIndex, MaxBatch,
  MaxCalls,        \* bound: calls and crashes in a behaviour
  MaxTruncations,  \* bound: TruncateLog calls
  MaxInstalls      \* bound: received Snapshots

ASSUME WALAssumption ==
  /\ NoVote \notin Voter
  /\ {SegmentSize, MaxBatch} \subseteq Nat \ {0}
  /\ {MaxTerm, MaxIndex, MaxCalls, MaxTruncations, MaxInstalls} \subseteq Nat

VARIABLES
  open,       \* the process runs and has opened the WAL
  created,    \* the first Open has returned
  segments,   \* the segment files in order, each the sequence of its records
  torn,       \* the last segment ends in an interrupted frame
  headless,   \* an interrupted segment file without a complete header follows
  files,      \* Snapshot files: included index and term, and whether they are whole
  hardState, lastLogIndex, commitIndex, snapshotIndex, snapshotTerm,
  log, base,  \* the core's log, and its logBaseIndex
  stale,      \* the entries up to here precede the current term's Leader
  conflict,   \* the term of the entry a truncation removed, until its
              \* replacement is appended; else 0
  capture,    \* the local Snapshot in progress
  calls, truncations, installs,
  overlaid    \* history: see Overlays

disk == <<segments, torn, headless>>
memory == <<hardState, lastLogIndex, commitIndex, snapshotIndex, snapshotTerm, log, base>>
bounds == <<calls, truncations, installs>>
vars == <<open, created, disk, files, memory, conflict, stale, capture, bounds, overlaid>>

NoCapture == [index |-> 0, term |-> 0, compacted |-> FALSE]

NoHardState == [term |-> 0, vote |-> NoVote]

-----------------------------------------------------------------------------
(* Records *)

IdentityRecord(part) == [kind |-> "Identity", part |-> part]

HardStateRecord(h) == [kind |-> "HardState", hard |-> h]

EntryRecord(index, term) == [kind |-> "Entry", index |-> index, term |-> term]

TruncationRecord(first) == [kind |-> "Truncation", first |-> first]

CommitRecord(index) == [kind |-> "Commit", index |-> index]

CheckpointRecord(index, term, commit, truncateFrom) ==
  [kind |-> "Checkpoint", hard |-> hardState, commit |-> commit,
   index |-> index, term |-> term, truncateFrom |-> truncateFrom]

SnapshotFile(index, term) == [index |-> index, term |-> term, whole |-> TRUE]

\* prepareRecordBatch: a batch that does not fit opens a new segment.
PrepareRecordBatch(segs, n) ==
  IF Last(segs) # <<>> /\ Len(Last(segs)) + n > SegmentSize THEN Append(segs, <<>>) ELSE segs

Extend(segs, records) == [segs EXCEPT ![Len(segs)] = @ \o records]

AppendRecord(segs, record) == Extend(PrepareRecordBatch(segs, 1), <<record>>)

-----------------------------------------------------------------------------
(* Recovery *)

LastIndex(state) == state.index + Len(state.log)

Failed(state) == [state EXCEPT !.ok = FALSE]

ApplyHardState(state, r) ==
  IF state.identity < 2 THEN Failed(state)
  ELSE IF \/ r.hard.term < state.hard.term
          \/ r.hard.term = state.hard.term /\ state.hard.vote # NoVote
    THEN state
    ELSE [state EXCEPT !.hard = r.hard]

ApplyEntry(state, r) ==
  IF r.index <= state.index THEN state
  ELSE IF r.index # LastIndex(state) + 1 THEN Failed(state)
  ELSE [state EXCEPT !.log = Append(@, r.term)]

ApplyTruncation(state, r) ==
  IF r.first <= state.index THEN state
  ELSE IF r.first > LastIndex(state) + 1 \/ r.first <= state.commit THEN Failed(state)
  ELSE [state EXCEPT !.log = SubSeq(@, 1, r.first - state.index - 1)]

ApplyCommit(state, r) ==
  IF r.index < state.commit THEN state
  ELSE IF r.index > LastIndex(state) THEN Failed(state)
  ELSE [state EXCEPT !.commit = r.index]

\* The checkpoint itself was taken over before the replay: here it only
\* removes the suffix that its Snapshot replaced.
ApplyCheckpoint(state, r) ==
  IF r.index > state.index THEN Failed(state)
  ELSE IF r.truncateFrom # 0 /\ r.index = state.index
    THEN [state EXCEPT !.log = SubSeq(@, 1, r.truncateFrom - state.index - 1)]
    ELSE state

ApplyRecord(state, r) ==
  CASE ~state.ok -> state
    [] state.ok /\ r.kind = "Identity" ->
         [state EXCEPT !.identity = IF r.part > @ THEN r.part ELSE @]
    [] state.ok /\ r.kind = "HardState" -> ApplyHardState(state, r)
    [] state.ok /\ r.kind = "Entry" -> ApplyEntry(state, r)
    [] state.ok /\ r.kind = "Truncation" -> ApplyTruncation(state, r)
    [] state.ok /\ r.kind = "Commit" -> ApplyCommit(state, r)
    [] state.ok /\ r.kind = "Checkpoint" -> ApplyCheckpoint(state, r)

\* newestCompactionCheckpoint: the last one written, whatever its index.
Checkpointed(records) ==
  LET last == SelectLastInSeq(records, LAMBDA r : r.kind = "Checkpoint")
      r    == records[last]
  IN IF last = 0
       THEN [ok |-> TRUE, identity |-> 0, hard |-> NoHardState, log |-> <<>>,
             commit |-> 0, index |-> 0, term |-> 0]
       ELSE [ok |-> TRUE, identity |-> 2, hard |-> r.hard, log |-> <<>>,
             commit |-> r.commit, index |-> r.index, term |-> r.term]

\* Mutant: a segment without a complete header is passed over.
RecoverHeadless ==
  LET records == FlattenSeq(segments)
      state   == FoldLeft(ApplyRecord, Checkpointed(records), records)
  IN [state EXCEPT !.ok = state.ok /\ state.identity = 2]

\* recoverSegments: what the next Open finds.  A torn final frame is cut off, an
\* incomplete header or identity is refused.
RecoverSegments ==
  LET records == FlattenSeq(segments)
      state   == FoldLeft(ApplyRecord, Checkpointed(records), records)
  IN [state EXCEPT !.ok = state.ok /\ state.identity = 2 /\ ~headless]

\* matchesWAL: a Snapshot file whose last entry the recovered log holds.
MatchesWAL(state, file) ==
  /\ file.index <= state.commit
  /\ \/ file.index = state.index /\ file.term = state.term
     \/ /\ file.index > state.index
        /\ file.index <= LastIndex(state)
        /\ file.term = state.log[file.index - state.index]

\* LoadNewest: none when nothing is checkpointed and nothing fits.
LoadNewest(state) ==
  LET fits == {f \in files : MatchesWAL(state, f)}
  IN IF fits = {} THEN [index |-> 0, term |-> 0]
     ELSE CHOOSE f \in fits : \A g \in fits : f.index >= g.index

\* requireCheckpointSnapshot
CheckpointIsInstalled(state) ==
  state.index > 0 => SnapshotFile(state.index, state.term) \in files

\* decode: its length and checksum tell a whole file from a cut one.
Decodes(file) == file.whole

\* LoadNewest reads every final file and fails on the first it cannot decode.
SnapshotsLoad(state) == CheckpointIsInstalled(state) /\ \A f \in files : Decodes(f)

\* Open, LoadNewest and the application of the recovered entries (applyThrough,
\* which indexes the log up to the commit index) all succeed.
Restartable(state) ==
  /\ state.ok
  /\ SnapshotsLoad(state)
  /\ state.commit <= LastIndex(state)

Init ==
  /\ open = FALSE
  /\ created = FALSE
  /\ segments = <<>>
  /\ torn = FALSE
  /\ headless = FALSE
  /\ files = {}
  /\ hardState = NoHardState
  /\ lastLogIndex = 0
  /\ commitIndex = 0
  /\ snapshotIndex = 0
  /\ snapshotTerm = 0
  /\ log = <<>>
  /\ base = 0
  /\ capture = NoCapture
  /\ calls = 0
  /\ conflict = 0
  /\ stale = 0
  /\ truncations = 0
  /\ installs = 0
  /\ overlaid = FALSE

Call ==
  /\ calls < MaxCalls
  /\ calls' = calls + 1

\* The first Open of a data directory.
Create ==
  /\ segments = <<>>
  /\ ~headless
  /\ open' = TRUE
  /\ created' = TRUE
  /\ segments' = << <<IdentityRecord(1), IdentityRecord(2)>> >>
  /\ UNCHANGED <<torn, headless, files, memory, conflict, stale, capture, bounds, overlaid>>

\* It is interrupted before both identity records are synced.
CrashInCreate ==
  /\ segments = <<>>
  /\ ~headless
  /\ Call
  /\ \/ /\ segments' \in { << <<>> >>, << <<IdentityRecord(1)>> >> }
        /\ torn' \in BOOLEAN
        /\ UNCHANGED headless
     \/ /\ headless' = TRUE
        /\ UNCHANGED <<segments, torn>>
  /\ UNCHANGED <<open, created, files, memory, capture, truncations, conflict, stale, installs, overlaid>>

\* Open of an existing directory, and the core started from what it recovers.
Open ==
  LET state == RecoverSegments
  IN /\ ~open
     /\ segments # <<>>
     /\ Restartable(state)
     /\ open' = TRUE
     /\ torn' = FALSE
     /\ hardState' = state.hard
     /\ lastLogIndex' = LastIndex(state)
     /\ commitIndex' = state.commit
     /\ snapshotIndex' = state.index
     /\ snapshotTerm' = state.term
     /\ log' = [k \in 1..LastIndex(state) |->
                  IF k > state.index THEN state.log[k - state.index]
                  ELSE IF k = state.index THEN state.term ELSE 0]
     /\ base' = LoadNewest(state).index
     /\ capture' = NoCapture
     /\ conflict' = 0
     /\ UNCHANGED <<created, stale, segments, headless, files, bounds, overlaid>>

-----------------------------------------------------------------------------
(* Calls of the runtime *)

SaveHardState(h) ==
  /\ open
  /\ conflict = 0
  /\ \/ h.term > hardState.term
     \/ h.term = hardState.term /\ hardState.vote = NoVote /\ h.vote # NoVote
  /\ Call
  /\ segments' = AppendRecord(segments, HardStateRecord(h))
  /\ hardState' = h
  /\ stale' = IF h.term > hardState.term THEN lastLogIndex ELSE stale
  /\ UNCHANGED <<open, created, torn, headless, files, lastLogIndex, commitIndex, snapshotIndex,
                 snapshotTerm, log, base, capture, truncations, conflict, installs, overlaid>>

\* The core appends entries of terms that do not fall, up to its own.
SaveLogEntries(terms) ==
  /\ open
  /\ Len(log) + Len(terms) <= MaxIndex
  /\ terms[1] # conflict
  /\ terms[Len(terms)] <= hardState.term
  /\ \A k \in Len(log)..Len(log) + Len(terms) - 1 :
       k > 0 => (log \o terms)[k] <= (log \o terms)[k + 1]
  /\ Call
  /\ segments' = FoldLeft(AppendRecord, segments,
                          [k \in 1..Len(terms) |-> EntryRecord(lastLogIndex + k, terms[k])])
  /\ lastLogIndex' = lastLogIndex + Len(terms)
  /\ log' = log \o terms
  /\ conflict' = 0
  /\ UNCHANGED <<open, created, torn, headless, files, hardState, commitIndex, snapshotIndex,
                 snapshotTerm, base, stale, capture, truncations, installs, overlaid>>

\* Mutant: one entry too many is given up.
TruncateLogBelow(first) ==
  /\ open
  /\ conflict = 0
  /\ first > commitIndex
  /\ first <= lastLogIndex
  /\ first <= stale
  /\ Call
  /\ truncations < MaxTruncations
  /\ truncations' = truncations + 1
  /\ segments' = AppendRecord(segments, TruncationRecord(first))
  /\ lastLogIndex' = first - 2
  /\ log' = SubSeq(log, 1, first - 1)
  /\ conflict' = log[first]
  /\ stale' = first - 1
  /\ UNCHANGED <<open, created, torn, headless, files, hardState, commitIndex, snapshotIndex,
                 snapshotTerm, base, capture, installs, overlaid>>

\* The entry at `first` conflicts with the Leader of the current term, and so was
\* not received from it; the step goes on to append its replacement, and only the
\* Snapshot goroutine may call in between.
TruncateLog(first) ==
  /\ open
  /\ conflict = 0
  /\ first > commitIndex
  /\ first <= lastLogIndex
  /\ first <= stale
  /\ Call
  /\ truncations < MaxTruncations
  /\ truncations' = truncations + 1
  /\ segments' = AppendRecord(segments, TruncationRecord(first))
  /\ lastLogIndex' = first - 1
  /\ log' = SubSeq(log, 1, first - 1)
  /\ conflict' = log[first]
  /\ stale' = first - 1
  /\ UNCHANGED <<open, created, torn, headless, files, hardState, commitIndex, snapshotIndex,
                 snapshotTerm, base, capture, installs, overlaid>>

SaveCommitIndex(index) ==
  /\ open
  /\ conflict = 0
  /\ index > commitIndex
  /\ index <= lastLogIndex
  /\ Call
  /\ segments' = AppendRecord(segments, CommitRecord(index))
  /\ commitIndex' = index
  /\ UNCHANGED <<open, created, torn, headless, files, hardState, lastLogIndex, snapshotIndex,
                 snapshotTerm, log, base, capture, truncations, conflict, stale, installs, overlaid>>

-----------------------------------------------------------------------------
(* Snapshots *)

\* Mutant: an entry at the first index beyond the Snapshot counts as covered.
CoveredPastSnapshot(segment, index) ==
  \A k \in 1..Len(segment) :
    /\ segment[k].kind = "Entry" => segment[k].index <= index + 1
    /\ segment[k].kind = "Truncation" => segment[k].first <= index

\* segmentCoveredBySnapshot
CoveredBySnapshot(segment, index) ==
  \A k \in 1..Len(segment) :
    /\ segment[k].kind = "Entry" => segment[k].index <= index
    /\ segment[k].kind = "Truncation" => segment[k].first <= index

\* The segments but for those of a set, never the active one.
Without(segs, removed) ==
  SelectSeq(Front(segs), LAMBDA s : s \notin removed) \o <<Last(segs)>>

\* The checkpoint lies below the newest one, or is committed past a truncation
\* that replay will meet again, or follows one that discarded a suffix.
Overlays(index, commit) ==
  \/ index < snapshotIndex
  \/ \E r \in ToSet(FlattenSeq(segments)) :
       \/ r.kind = "Truncation" /\ r.first <= commit
       \/ r.kind = "Checkpoint" /\ r.truncateFrom # 0

\* installSnapshotCheckpoint: one synced batch, then the covered segments go.
\* A crash leaves the checkpoint without its truncation record, or some of the
\* covered segments.
InstallSnapshotCheckpoint(index, term, commit, truncateFrom) ==
  LET checkpoint == CheckpointRecord(index, term, commit, truncateFrom)
      batch   == IF truncateFrom = 0 THEN <<checkpoint>>
                 ELSE <<checkpoint, TruncationRecord(truncateFrom)>>
      ready   == PrepareRecordBatch(segments, Len(batch))
      after   == Extend(ready, batch)
      covered == {s \in ToSet(Front(after)) : CoveredBySnapshot(s, index)}
  IN /\ \/ /\ open' = TRUE
           /\ segments' = Without(after, covered)
        \/ /\ open' = FALSE
           /\ \E removed \in SUBSET covered : segments' = Without(after, removed)
        \/ /\ open' = FALSE
           /\ Len(batch) = 2
           /\ segments' = Extend(ready, <<checkpoint>>)
     /\ snapshotIndex' = index
     /\ snapshotTerm' = term
     /\ overlaid' = (overlaid \/ Overlays(index, commit))

\* startSnapshot captures the applied state and its goroutine saves the file.
StartSnapshot ==
  /\ open
  /\ conflict = 0
  /\ capture = NoCapture
  /\ commitIndex > 0
  /\ Call
  /\ capture' = [index |-> commitIndex, term |-> log[commitIndex], compacted |-> FALSE]
  /\ files' = files \cup {SnapshotFile(commitIndex, log[commitIndex])}
  /\ UNCHANGED <<open, created, disk, memory, truncations, conflict, stale, installs, overlaid>>

\* The goroutine compacts the WAL through the captured index, whatever the loop
\* has done meanwhile.
Compact ==
  /\ open
  /\ capture # NoCapture
  /\ ~capture.compacted
  /\ Call
  /\ InstallSnapshotCheckpoint(capture.index, capture.term, commitIndex, 0)
  /\ capture' = [capture EXCEPT !.compacted = TRUE]
  /\ UNCHANGED <<created, torn, headless, files, hardState, lastLogIndex, commitIndex, log, base,
                 truncations, conflict, stale, installs>>

\* The sync fails and the transaction is rolled back: a manual Snapshot reports
\* the error and the Node goes on, perhaps in a new segment.
CompactRolledBack ==
  /\ open
  /\ capture # NoCapture
  /\ ~capture.compacted
  /\ Call
  /\ segments' = PrepareRecordBatch(segments, 1)
  /\ capture' = NoCapture
  /\ UNCHANGED <<open, created, torn, headless, files, memory, truncations, conflict, stale, installs, overlaid>>

\* The loop handles the completion (SnapshotCompacted).
FinishSnapshot ==
  /\ open
  /\ conflict = 0
  /\ capture.compacted
  /\ capture' = NoCapture
  /\ base' = IF capture.index > base /\ log[capture.index] = capture.term
               THEN capture.index ELSE base
  /\ UNCHANGED <<open, created, disk, files, hardState, lastLogIndex, commitIndex, snapshotIndex,
                 snapshotTerm, log, conflict, stale, bounds, overlaid>>

\* The core installs a received Snapshot beyond its own logBaseIndex, which has
\* been saved as a file.  It agrees with what this Node has committed.
ReceiveSnapshot(index, term) ==
  LET retain == index <= Len(log) /\ log[index] = term
      from   == IF ~retain /\ index < lastLogIndex THEN index + 1 ELSE 0
  IN /\ open
     /\ conflict = 0
     /\ index > base
     /\ index <= commitIndex => log[index] = term
     /\ term <= hardState.term
     /\ Call
     /\ installs < MaxInstalls
     /\ installs' = installs + 1
     /\ files' = files \cup {SnapshotFile(index, term)}
     /\ \/ \* the Node stops: the WAL refuses an index below its newest checkpoint,
           \* of which the core may not know yet, or a crash follows the save
           /\ open' = FALSE
           /\ UNCHANGED <<segments, memory, stale, overlaid>>
        \/ /\ index >= snapshotIndex
           /\ InstallSnapshotCheckpoint(index, term, IF commitIndex > index THEN commitIndex ELSE index, from)
           /\ commitIndex' = IF commitIndex > index THEN commitIndex ELSE index
           /\ lastLogIndex' = IF retain THEN lastLogIndex ELSE index
           /\ log' = [k \in 1..(IF retain THEN Len(log) ELSE index) |->
                        IF k = index THEN term ELSE IF k <= Len(log) THEN log[k] ELSE 0]
           /\ base' = index
           /\ stale' = IF retain THEN stale ELSE index
           /\ UNCHANGED hardState
     /\ UNCHANGED <<created, torn, headless, capture, truncations, conflict>>

-----------------------------------------------------------------------------
(* Crashes *)

\* Between calls, or in a call before its next record is complete.
Crash ==
  /\ open
  /\ Call
  /\ open' = FALSE
  /\ torn' \in BOOLEAN
  /\ UNCHANGED <<created, segments, headless, files, memory, capture, truncations, conflict, stale, installs, overlaid>>

\* While a full segment is followed by a new one: the new file has its header
\* and no record, or no complete header.
CrashInCreateSegment ==
  /\ open
  /\ PrepareRecordBatch(segments, 1) # segments
  /\ Call
  /\ open' = FALSE
  /\ \/ segments' = PrepareRecordBatch(segments, 1) /\ UNCHANGED headless
     \/ headless' = TRUE /\ UNCHANGED segments
  /\ UNCHANGED <<created, torn, files, memory, capture, truncations, conflict, stale, installs, overlaid>>

\* While a Snapshot file is saved: the state applied so far, by the goroutine, or
\* a received one, by the loop.
CrashInSave(index, term) ==
  /\ open
  /\ conflict = 0
  /\ \/ index = commitIndex /\ term = log[index] /\ capture = NoCapture
     \/ /\ installs < MaxInstalls
        /\ index > base
        /\ index <= commitIndex => log[index] = term
        /\ term <= hardState.term
  /\ Call
  /\ open' = FALSE
  /\ \E left \in FilesLeft(index, term) : files' = files \cup left
  /\ UNCHANGED <<created, disk, memory, capture, truncations, conflict, stale, installs, overlaid>>

Next ==
  \/ Create
  \/ CrashInCreate
  \/ Open
  \/ \E t \in 1..MaxTerm, v \in Voter \cup {NoVote} : SaveHardState([term |-> t, vote |-> v])
  \/ \E n \in 1..MaxBatch : \E terms \in [1..n -> 1..MaxTerm] : SaveLogEntries(terms)
  \/ \E index \in 1..MaxIndex : \/ TruncateLog(index)
                                \/ SaveCommitIndex(index)
                                \/ \E t \in 1..MaxTerm : \/ ReceiveSnapshot(index, t)
                                                         \/ CrashInSave(index, t)
  \/ StartSnapshot
  \/ Compact
  \/ CompactRolledBack
  \/ FinishSnapshot
  \/ Crash
  \/ CrashInCreateSegment

Spec == Init /\ [][Next]_vars

-----------------------------------------------------------------------------
(* Properties *)

Record ==
  [kind : {"Identity"}, part : 1..2]
  \cup [kind : {"HardState"}, hard : [term : Nat, vote : Voter \cup {NoVote}]]
  \cup [kind : {"Entry"}, index : Nat, term : Nat]
  \cup [kind : {"Truncation"}, first : Nat]
  \cup [kind : {"Commit"}, index : Nat]
  \cup [kind : {"Checkpoint"}, hard : [term : Nat, vote : Voter \cup {NoVote}],
        commit : Nat, index : Nat, term : Nat, truncateFrom : Nat]

\* The WAL's fields, the segment files and the Snapshot in progress keep their
\* types.
WALTypeOK ==
  /\ {open, created, torn, headless, overlaid} \subseteq BOOLEAN
  /\ \A k \in 1..Len(segments) : ToSet(segments[k]) \subseteq Record
  /\ files \subseteq [index : Nat, term : Nat, whole : BOOLEAN]
  /\ hardState \in [term : Nat, vote : Voter \cup {NoVote}]
  /\ {lastLogIndex, commitIndex, snapshotIndex, snapshotTerm, base, conflict, stale} \subseteq Nat
  /\ ToSet(log) \subseteq Nat
  /\ capture \in [index : Nat, term : Nat, compacted : BOOLEAN]

\* A Node runs only on a WAL whose identity and segment headers are complete: what
\* an interrupted first Open or an interrupted createSegment leaves is refused,
\* and never taken for an empty or a shorter WAL.
RunsOnWholeWAL == open => created /\ segments # <<>> /\ ~headless

\* Recovery yields exactly what the completed calls promised.
RecoversExactly ==
  LET state == RecoverSegments
  IN /\ state.ok
     /\ state.hard = hardState
     /\ state.commit = commitIndex
     /\ state.index = snapshotIndex
     /\ state.term = snapshotTerm
     /\ LastIndex(state) = lastLogIndex
     /\ lastLogIndex = Len(log)
     /\ \A k \in 1..Len(state.log) : state.log[k] = log[state.index + k]

\* At every moment the segments replay to the term, vote, log, commit index and
\* Snapshot position that the completed calls promised, whatever was rotated,
\* rolled back, interrupted or removed; except after a checkpoint that overlays a
\* truncation or a later checkpoint, and when a new segment lost its header.
RecoveryIsExact == created /\ ~headless /\ ~overlaid => RecoversExactly

\* LoadNewest never stands in the way of a restart: every final Snapshot file is
\* whole, wherever Save was interrupted, and the one that the recovered
\* checkpoint requires is among them, at every point between saving a file and
\* compacting the WAL.
SnapshotsAlwaysLoad == created => SnapshotsLoad(RecoverSegments)

\* A Node that has run once can be started again: no sequence of completed calls
\* leaves a WAL whose recovery is refused.
WALReopens == created /\ ~headless => Restartable(RecoverSegments)

=============================================================================
