------------------------------ MODULE Transfer ------------------------------
(***************************************************************************)
(* The repair of one lagging Follower by its Leader, end to end: the core's *)
(* choice between AppendEntries and InstallSnapshot, the transport that     *)
(* reads the Snapshot file and reports failed sends, the two bounded owner  *)
(* queues, and the staging of chunks at the Follower.                      *)
(*                                                                         *)
(* The third Node keeps up, so the Leader stays Leader and commits; every   *)
(* entry is of its Term, and a log is its length.  One action is one whole  *)
(* iteration of a Node's event loop, sends included.                       *)
(***************************************************************************)
EXTENDS RaftLog

CONSTANTS MaxIndex,     \* entries the Leader's log grows to
          Length,       \* chunks of the Snapshot file at each index
          QueueCap,     \* capacity of an owner queue
          MaxFaults,    \* failed sends, late answers and lost messages
          MayLose,      \* messages that may be lost after they were accepted
          MayOvertake   \* the Follower compacts further than the Leader

ASSUME TransferAssumption ==
  /\ MaxIndex \in Nat \ {0}
  /\ Length \in [1..MaxIndex -> Nat \ {0}]
  /\ QueueCap \in Nat \ {0}
  /\ MaxFaults \in Nat
  /\ MayLose \subseteq {"AppendEntries", "AppendEntriesResponse",
                        "InstallSnapshot", "InstallSnapshotResponse"}
  /\ MayOvertake \in BOOLEAN

VARIABLES
  last,      \* the Leader's lastLogIndex
  base,      \* its logBaseIndex
  files,     \* indexes of its installed Snapshot files
  capture,   \* index a Snapshot goroutine is saving, 0 if none runs
  progress,  \* match, next and the requests in flight to the Follower
  cached,    \* index of the transport's cached reader, 0 if none
  open,      \* indexes of the open readers
  stopped,   \* the Leader's process was told to stop
  replies,   \* the Follower's messages in the Leader's queue
  flast,     \* the Follower's lastLogIndex
  fbase,     \* its logBaseIndex
  incoming,  \* the transfer it is assembling
  inbox,     \* its queue
  faults

leaderVars == <<last, base, files, capture>>
transportVars == <<cached, open>>
followerVars == <<flast, fbase, incoming>>
vars == <<leaderVars, progress, transportVars, stopped, replies,
          followerVars, inbox, faults>>

NoMessage == [type |-> "None", request |-> 0]

NoIncoming == [index |-> 0, data |-> <<>>]

\* The encoding of the Snapshot at index: its chunks, each marked with its file.
File(index) == [k \in 1..Length[index] |-> index]

LogTo(n) == [k \in 1..n |-> [term |-> 1]]

TransferInit ==
  /\ last \in 1..MaxIndex
  /\ base \in 0..last
  /\ files = IF base = 0 THEN {} ELSE {base}
  /\ capture = 0
  /\ progress = [match |-> 0, next |-> last + 1, append |-> 0, snapshot |-> 0]
  /\ cached = 0
  /\ open = {}
  /\ stopped = FALSE
  /\ replies = <<>>
  /\ flast \in 0..last
  /\ fbase \in 0..(IF MayOvertake THEN flast ELSE Smaller(base, flast))
  /\ incoming = NoIncoming
  /\ inbox = <<>>
  /\ faults = 0

-----------------------------------------------------------------------------
(* The Leader's core *)

\* nextRequestID only ever tells requests apart: the least number that no
\* request in flight and no message under way carries.
FreshRequest ==
  LET used == {progress.append, progress.snapshot}
                \cup {inbox[k].request : k \in DOMAIN inbox}
                \cup {replies[k].request : k \in DOMAIN replies}
  IN Min(1..(2 * QueueCap + 3) \ used)

\* A chunk of the file at the Snapshot boundary of the moment.
SnapshotChunk(request, offset) ==
  LET end == Smaller(offset + 1, Length[base])
  IN [type |-> "InstallSnapshot", request |-> request, index |-> base,
      length |-> Length[base], offset |-> offset,
      size |-> end - offset, done |-> end = Length[base]]

\* Progress p after sendAppendEntriesTo with a log of lastIndex entries, and what
\* it sends.
SendAppendEntriesTo(p, lastIndex) ==
  LET next == Smaller(p.next, lastIndex + 1)
      id   == FreshRequest
  IN IF p.append # 0 \/ (next <= base /\ p.snapshot # 0)
       THEN [progress |-> p, sent |-> NoMessage]
     ELSE IF next <= base
       THEN [progress |-> [p EXCEPT !.snapshot = id],
             sent |-> SnapshotChunk(id, 0)]
       ELSE [progress |-> [p EXCEPT !.append = id],
             sent |-> [type |-> "AppendEntries", request |-> id, prev |-> next - 1,
                       entries |-> Len(EntriesBatch(LogTo(lastIndex), next))]]

Quiet(p) == [progress |-> p, sent |-> NoMessage]

\* handleAppendEntriesFailed
Expire(p, request) ==
  [p EXCEPT !.append   = IF @ = request THEN 0 ELSE @,
            !.snapshot = IF @ = request THEN 0 ELSE @]

-----------------------------------------------------------------------------
(* The transport: a message is accepted when the owner queue of the peer     *)
(* takes it.                                                               *)

\* Mutant: the reader that is replaced stays open.
AcquireWithoutEviction(index) ==
  /\ cached' = index
  /\ open' = open \cup {index}

\* The reader of the file at index, opened unless it is the cached one; the
\* one it replaces has no user left and is closed.
AcquireSnapshot(index) ==
  /\ cached' = index
  /\ open' = IF cached = index THEN open ELSE (open \ {cached}) \cup {index}

\* Mutant: the queue takes what exceeds its capacity.
AcceptedBeyondCapacity(out, spent) ==
  /\ inbox' = Append(inbox, out.sent)
  /\ progress' = out.progress
  /\ faults' = spent

Accepted(out, spent) ==
  /\ Len(inbox) < QueueCap
  /\ inbox' = Append(inbox, out.sent)
  /\ progress' = out.progress
  /\ faults' = spent

\* The peer takes the message, but after the sender's deadline.
AcceptedLate(out, spent) ==
  /\ Len(inbox) < QueueCap
  /\ spent < MaxFaults
  /\ inbox' = Append(inbox, out.sent)
  /\ progress' = Expire(out.progress, out.sent.request)
  /\ faults' = spent + 1

\* No connection, no handshake, or no room in the peer's queue in time.
Refused(out, spent) ==
  /\ progress' = Expire(out.progress, out.sent.request)
  /\ \/ spent < MaxFaults /\ faults' = spent + 1
     \/ Len(inbox) = QueueCap /\ faults' = spent
  /\ UNCHANGED inbox

\* sendSnapshot gives up on an offset beyond the file before it connects.
Unreadable(m) == m.type = "InstallSnapshot" /\ m.offset > m.length

\* The message of out, when `spent` faults have occurred.
Transmit(out, spent) ==
  \/ /\ out.sent = NoMessage
     /\ progress' = out.progress
     /\ faults' = spent
     /\ UNCHANGED <<transportVars, inbox>>
  \/ /\ out.sent # NoMessage
     /\ IF out.sent.type = "InstallSnapshot"
          THEN AcquireSnapshot(out.sent.index)
          ELSE UNCHANGED transportVars
     /\ \/ /\ Unreadable(out.sent)
           /\ progress' = Expire(out.progress, out.sent.request)
           /\ faults' = spent
           /\ UNCHANGED inbox
        \/ /\ ~Unreadable(out.sent)
           /\ Accepted(out, spent) \/ AcceptedLate(out, spent) \/ Refused(out, spent)

-----------------------------------------------------------------------------
(* The Leader's loop *)

\* The next message from the Follower, which out answers.
Take(out) ==
  /\ replies' = Tail(replies)
  /\ Transmit(out, faults)
  /\ UNCHANGED <<leaderVars, stopped, followerVars>>

\* The heartbeat interval is also the deadline of a response, and a later one is
\* ignored: a round that overtakes an answer counts as a fault.
HeartbeatRound ==
  /\ ~stopped
  /\ \E spent \in {faults, faults + 1} :
       /\ spent = faults => inbox = <<>> /\ replies = <<>>
       /\ spent <= MaxFaults
       /\ Transmit(SendAppendEntriesTo([progress EXCEPT !.append = 0], last), spent)
  /\ UNCHANGED <<leaderVars, stopped, replies, followerVars>>

\* A proposal, which the third Node helps commit.
Propose ==
  /\ ~stopped
  /\ last < MaxIndex
  /\ last' = last + 1
  /\ Transmit(SendAppendEntriesTo(progress, last + 1), faults)
  /\ UNCHANGED <<base, files, capture, stopped, replies, followerVars>>

\* `resend` also stands for a waiting read or a newer commit index.
HandleAppendEntriesResponse(m) ==
  LET match == IF m.success THEN Larger(progress.match, m.match) ELSE progress.match
      next  == IF m.success THEN match + 1
               ELSE NextIndexFromConflict(LogTo(last), base, m.conflictTerm, m.conflictIndex)
      p     == [progress EXCEPT !.append = 0, !.match = match, !.next = next]
  IN /\ m.type = "AppendEntriesResponse"
     /\ IF progress.append \notin {0, m.request}
          THEN Take(Quiet(progress))
          ELSE \E resend \in {TRUE, ~m.success \/ next <= last} :
                 Take(IF resend THEN SendAppendEntriesTo(p, last) ELSE Quiet(p))

\* Mutant: a chunk that the Follower refused stays in flight.
AbandonNothing(p) == p

\* A refused chunk ends the transfer; a heartbeat starts the next one.
AbandonTransfer(p) == [p EXCEPT !.snapshot = 0]

\* Mutant: every accepted chunk counts as the whole Snapshot.
AnyChunkCompletes(m) == m.success

TransferDone(m) == m.success /\ m.done

HandleInstallSnapshotResponse(m) ==
  LET done == [progress EXCEPT !.snapshot = 0, !.next = m.index + 1,
                               !.match = Larger(progress.match, m.index)]
  IN /\ m.type = "InstallSnapshotResponse"
     /\ Take(IF progress.snapshot # m.request THEN Quiet(progress)
             ELSE IF ~m.success THEN Quiet(AbandonTransfer(progress))
             ELSE IF TransferDone(m) THEN SendAppendEntriesTo(done, last)
             ELSE [progress |-> progress, sent |-> SnapshotChunk(m.request, m.nextOffset)])

LeaderReceive ==
  /\ ~stopped
  /\ replies # <<>>
  /\ \/ HandleAppendEntriesResponse(Head(replies))
     \/ HandleInstallSnapshotResponse(Head(replies))

\* A Snapshot of the applied state is captured, saved and compacted by a
\* goroutine, and its completion moves the boundary.
StartSnapshot ==
  /\ ~stopped
  /\ capture = 0
  /\ capture' \in (base + 1)..last
  /\ UNCHANGED <<last, base, files, progress, transportVars, stopped, replies,
                 followerVars, inbox, faults>>

InstallSnapshot ==
  /\ capture \notin files \cup {0}
  /\ files' = files \cup {capture}
  /\ UNCHANGED <<last, base, capture, progress, transportVars, stopped, replies,
                 followerVars, inbox, faults>>

\* SnapshotCompacted
FinishSnapshot ==
  /\ ~stopped
  /\ capture \in files
  /\ base' = Larger(base, capture)
  /\ capture' = 0
  /\ UNCHANGED <<last, files, progress, transportVars, stopped, replies,
                 followerVars, inbox, faults>>

\* The loop returns and Run closes the transport.
CloseTransport ==
  /\ ~stopped
  /\ stopped' = TRUE
  /\ cached' = 0
  /\ open' = open \ {cached}
  /\ UNCHANGED <<leaderVars, progress, replies, followerVars, inbox, faults>>

-----------------------------------------------------------------------------
(* The Follower's loop *)

\* A response is sent once: when the transport fails, it is gone.
Reply(m) ==
  /\ inbox' = Tail(inbox)
  /\ \/ /\ Len(replies) < QueueCap
        /\ replies' = Append(replies, m)
        /\ UNCHANGED faults
     \/ /\ m.type \in MayLose
        /\ faults < MaxFaults
        /\ faults' = faults + 1
        /\ UNCHANGED replies
  /\ UNCHANGED <<leaderVars, progress, transportVars, stopped>>

\* An entry differs from one in the log only where the log is compacted, and what is
\* compacted is committed.
HandleAppendEntries(m) ==
  LET matches == Matches(LogTo(flast), fbase, m.prev, IF m.prev = 0 THEN 0 ELSE 1)
      fits    == EntriesToAppend(LogTo(flast), fbase, fbase, m.prev, LogTo(m.entries)).ok
      success == matches /\ fits
      hint    == ConflictHint(LogTo(flast), fbase, IF matches THEN m.prev + 1 ELSE m.prev)
      length  == Larger(flast, m.prev + m.entries)
  IN /\ m.type = "AppendEntries"
     /\ flast' = IF success THEN length ELSE flast
     /\ Reply([type |-> "AppendEntriesResponse", request |-> m.request,
               success |-> success, match |-> flast',
               conflictTerm |-> hint.term, conflictIndex |-> hint.index])
     /\ UNCHANGED <<fbase, incoming>>

\* Mutant: a transfer is continued whatever Snapshot it is of.
FitsAnySnapshot(staged, m) == m.offset = Len(staged.data)

\* Chunk m continues the staged transfer.
Fits(staged, m) ==
  /\ staged.index = m.index
  /\ m.offset = Len(staged.data)

\* A complete transfer that decodes is saved and replaces the log up to its
\* index, unless a newer Snapshot did; the entries beyond it stay.
HandleInstallSnapshot(m) ==
  LET staged == IF m.offset = 0 THEN [index |-> m.index, data |-> <<>>] ELSE incoming
      fits   == Fits(staged, m)
      data   == staged.data \o [k \in 1..m.size |-> m.index]
      whole  == fits /\ m.done /\ data = File(m.index)
      taken  == fits /\ (m.done => whole)
  IN /\ m.type = "InstallSnapshot"
     /\ incoming' = IF fits /\ m.done THEN NoIncoming
                    ELSE IF fits THEN [staged EXCEPT !.data = data]
                    ELSE staged
     /\ fbase' = IF whole THEN Larger(fbase, m.index) ELSE fbase
     /\ flast' = IF whole /\ m.index > fbase THEN Larger(flast, m.index) ELSE flast
     /\ Reply([type |-> "InstallSnapshotResponse", request |-> m.request, index |-> m.index,
               success |-> taken, nextOffset |-> IF taken THEN Len(data) ELSE 0,
               done |-> whole])

FollowerReceive ==
  /\ inbox # <<>>
  /\ \/ HandleAppendEntries(Head(inbox))
     \/ HandleInstallSnapshot(Head(inbox))

\* The Follower compacts its own log: everything it holds is committed.  Unless
\* MayOvertake, no further than the Leader has.
CompactFollower ==
  /\ fbase' \in (fbase + 1)..flast
  /\ MayOvertake \/ fbase' <= base
  /\ UNCHANGED <<leaderVars, progress, transportVars, stopped, replies,
                 flast, incoming, inbox, faults>>

\* The Follower's process restarts: what its disk holds survives.
RestartFollower ==
  /\ faults < MaxFaults
  /\ \A k \in DOMAIN inbox : inbox[k].type \in MayLose
  /\ incoming # NoIncoming \/ inbox # <<>>
  /\ faults' = faults + 1
  /\ incoming' = NoIncoming
  /\ inbox' = <<>>
  /\ UNCHANGED <<leaderVars, progress, transportVars, stopped, replies,
                 flast, fbase>>

-----------------------------------------------------------------------------
TransferNext ==
  \/ HeartbeatRound
  \/ Propose
  \/ LeaderReceive
  \/ StartSnapshot
  \/ InstallSnapshot
  \/ FinishSnapshot
  \/ CloseTransport
  \/ FollowerReceive
  \/ CompactFollower
  \/ RestartFollower

\* The loops keep running: select takes every ready queue and timer in the end,
\* and the Snapshot goroutine finishes.
TransferFairness ==
  /\ WF_vars(HeartbeatRound)
  /\ WF_vars(LeaderReceive)
  /\ WF_vars(InstallSnapshot)
  /\ WF_vars(FinishSnapshot)
  /\ WF_vars(FollowerReceive)

TransferSpec == TransferInit /\ [][TransferNext]_vars /\ TransferFairness

-----------------------------------------------------------------------------
(* Properties *)

TransferTypeOK ==
  /\ last \in 1..MaxIndex
  /\ base \in 0..last
  /\ files \subseteq 1..MaxIndex
  /\ capture \in 0..last
  /\ progress \in [match : 0..MaxIndex, next : 1..(MaxIndex + 1), append : Nat, snapshot : Nat]
  /\ cached \in 0..MaxIndex
  /\ open \subseteq 1..MaxIndex
  /\ stopped \in BOOLEAN
  /\ Len(replies) <= QueueCap
  /\ fbase \in 0..flast
  /\ flast \in 0..MaxIndex
  /\ incoming.index \in 0..MaxIndex
  /\ Len(inbox) <= QueueCap
  /\ faults \in 0..MaxFaults

\* What the Leader counts as replicated to the Follower is in the Follower's log
\* or Snapshot, however chunks, responses, restarts and local Snapshots interleave.
MatchIsHeld == progress.match <= flast

\* Chunks of two Snapshots are never assembled into one: what is staged are the
\* first chunks of one file, although the Leader names its newest file in every
\* chunk and its own compaction moves on in the middle of a transfer.
StagedIsOneFile ==
  incoming # NoIncoming =>
    incoming.data = SubSeq(File(incoming.index), 1, Len(incoming.data))

\* The transport holds one open reader at most, the cached one, and none once it
\* is closed: a Snapshot that local compaction replaces in the middle of a
\* transfer does not leak its file.
NoReaderLeaks ==
  /\ open \subseteq {cached}
  /\ stopped => open = {}

\* "A stale Follower is repaired by conflict hints, or by Snapshot": while the
\* Leader runs, it always gets to know again that the Follower holds its log.
FollowerIsRepaired == []<>(stopped \/ progress.match = last)

=============================================================================
