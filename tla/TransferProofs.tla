--------------------------- MODULE TransferProofs ---------------------------
(***************************************************************************)
(* The safety of Transfer for every log, Snapshot length, queue capacity    *)
(* and number of faults.  The properties rest on one inductive invariant,    *)
(* which adds what the messages in the two queues carry.                    *)
(***************************************************************************)
EXTENDS Transfer, RaftLogProofs, FiniteSetTheorems

\* What the Leader may have sent, with l entries in its log and its boundary at b:
\* entries it has, and chunks within a file.
Request(l, b) ==
  {m \in [type : {"AppendEntries"}, request : Nat, prev : Nat, entries : Nat] :
     m.prev + m.entries <= l}
  \cup {m \in [type : {"InstallSnapshot"}, request : Nat, index : 1..b, length : Nat,
               offset : Nat, size : Nat, done : BOOLEAN] :
          m.offset + m.size <= Length[m.index]}

\* What a Follower with f entries may have answered: no match beyond its log, and
\* no Snapshot as installed that its log does not reach.
Response(b, f) ==
  [type : {"AppendEntriesResponse"}, request : Nat, success : BOOLEAN, match : 0..f,
   conflictTerm : Nat, conflictIndex : Nat]
  \cup {m \in [type : {"InstallSnapshotResponse"}, request : Nat, index : 1..b,
               success : BOOLEAN, nextOffset : Nat, done : BOOLEAN] :
          m.done => m.index <= f}

Progress == [match : 0..MaxIndex, next : 1..(MaxIndex + 1), append : Nat, snapshot : Nat]

\* The first chunks of one file.
Staged(s) ==
  /\ s \in [index : 0..MaxIndex, data : Seq(1..MaxIndex)]
  /\ s # NoIncoming => /\ s.index # 0
                       /\ Len(s.data) <= Length[s.index]
                       /\ \A k \in 1..Len(s.data) : s.data[k] = s.index

LeaderInv ==
  /\ last \in 1..MaxIndex
  /\ base \in 0..last
  /\ files \subseteq 1..MaxIndex
  /\ capture \in 0..last

TransportInv ==
  /\ cached \in 0..MaxIndex
  /\ open \subseteq 1..MaxIndex
  /\ stopped \in BOOLEAN
  /\ NoReaderLeaks

FollowerInv ==
  /\ flast \in 0..MaxIndex
  /\ fbase \in 0..flast
  /\ Staged(incoming)

QueueInv ==
  /\ progress \in Progress
  /\ MatchIsHeld
  /\ inbox \in Seq(Request(last, base))
  /\ Len(inbox) <= QueueCap
  /\ replies \in Seq(Response(base, flast))
  /\ Len(replies) <= QueueCap
  /\ faults \in 0..MaxFaults

TransferInv == LeaderInv /\ TransportInv /\ FollowerInv /\ QueueInv

-----------------------------------------------------------------------------
(* Sequences and numbers *)

\* The sequences over a set are the functions on the first numbers.
LEMMA SeqDef ==
  ASSUME NEW S
  PROVE  Seq(S) = UNION {[1..n -> S] : n \in Nat}
OBVIOUS

\* More elements, more sequences.
LEMMA SeqMonotonic ==
  ASSUME NEW S, NEW T, S \subseteq T
  PROVE  Seq(S) \subseteq Seq(T)
OBVIOUS

\* The first element of a sequence and the others.
LEMMA HeadTailProperties ==
  ASSUME NEW S, NEW s \in Seq(S), s # <<>>
  PROVE  /\ Head(s) \in S
         /\ Tail(s) \in Seq(S)
         /\ Len(Tail(s)) = Len(s) - 1
         /\ \A k \in 1..Len(Tail(s)) : Tail(s)[k] = s[k + 1]
OBVIOUS

\* The order of the natural numbers is well founded.
LEMMA NaturalsAreOrdered == LeastElements
<1>. SUFFICES ASSUME NEW S \in SUBSET Nat, S # {}
              PROVE  \E x \in S : \A y \in S : x <= y
  BY Zenon DEF LeastElements
<1>1. PICK x \in S : \A y \in S : ~(<<y, x>> \in OpToRel(<, Nat))
  BY WFMin, NatLessThanWellFounded, Zenon
<1>2. OpToRel(<, Nat) = {ss \in Nat \X Nat : ss[1] < ss[2]}
  BY Zenon DEF OpToRel
<1>3. ASSUME NEW y \in S  PROVE x <= y
  <2>1. ~(<<y, x>> \in {ss \in Nat \X Nat : ss[1] < ss[2]})
    BY <1>1, <1>2, Zenon
  <2>. QED  BY <2>1
<1>. QED  BY <1>3, Zenon

-----------------------------------------------------------------------------
(* Requests *)

\* Requests stay what they were as the Leader's log and boundary grow.
LEMMA RequestsKeep ==
  ASSUME NEW l \in Nat, NEW l2 \in Nat, l <= l2, NEW b \in Nat, NEW b2 \in Nat, b <= b2,
         NEW s \in Seq(Request(l, b))
  PROVE  s \in Seq(Request(l2, b2))
<1>1. Request(l, b) \subseteq Request(l2, b2)
  BY DEF Request
<1>. QED  BY <1>1, SeqMonotonic, Zenon

\* And responses, as the boundary and the Follower's log grow.
LEMMA ResponsesKeep ==
  ASSUME NEW b \in Nat, NEW b2 \in Nat, b <= b2, NEW f \in Nat, NEW f2 \in Nat, f <= f2,
         NEW s \in Seq(Response(b, f))
  PROVE  s \in Seq(Response(b2, f2))
<1>1. Response(b, f) \subseteq Response(b2, f2)
  BY SMTT(30) DEF Response
<1>. QED  BY <1>1, SeqMonotonic, Zenon

\* At most as many requests as messages.
LEMMA FewRequests ==
  ASSUME NEW S, NEW s \in Seq(S)
  PROVE  LET used == {s[k].request : k \in DOMAIN s}
         IN IsFiniteSet(used) /\ Cardinality(used) <= Len(s)
<1>. DEFINE used == {s[k].request : k \in DOMAIN s}
            f == [k \in DOMAIN s |-> s[k].request]
<1>1. Len(s) \in Nat /\ DOMAIN s = 1..Len(s)
  BY LenProperties
<1>2. IsFiniteSet(DOMAIN s) /\ Cardinality(DOMAIN s) = Len(s)
  BY <1>1, FS_Interval, SMTT(30)
<1>3. f \in Surjection(DOMAIN s, used)
  BY DEF Surjection
<1>. HIDE DEF f
<1>. QED  BY <1>2, <1>3, FS_Surjection

\* A pair has two elements at most.
LEMMA PairSize ==
  ASSUME NEW a, NEW b
  PROVE  IsFiniteSet({a, b}) /\ Cardinality({a, b}) \in Nat /\ Cardinality({a, b}) <= 2
<1>. DEFINE S == {a}
            size == Cardinality(S \cup {b})
<1>1. IsFiniteSet(S) /\ Cardinality(S) = 1
  BY FS_Singleton, Zenon
<1>2. {a, b} = S \cup {b}
  BY Zenon
<1>. HIDE DEF S
<1>3. /\ IsFiniteSet(S \cup {b})
      /\ size = IF b \in S THEN Cardinality(S) ELSE Cardinality(S) + 1
  BY <1>1, FS_AddElement, Zenon
<1>. HIDE DEF size
<1>4. size \in Nat /\ size <= 2
  BY <1>1, <1>3
<1>. QED  BY <1>2, <1>3, <1>4, Zenon DEF size

\* nextRequestID: a number that nothing under way carries always exists among those
\* the model uses.
LEMMA FreshRequestExists ==
  ASSUME QueueInv
  PROVE  FreshRequest \in Nat \ {0}
<1>. DEFINE U == {progress.append, progress.snapshot}
            I == {inbox[k].request : k \in DOMAIN inbox}
            R == {replies[k].request : k \in DOMAIN replies}
            used == U \cup I \cup R
            top == 2 * QueueCap + 3
<1>1. IsFiniteSet(U) /\ Cardinality(U) \in Nat /\ Cardinality(U) <= 2
  BY PairSize, Zenon
<1>2. IsFiniteSet(I) /\ Cardinality(I) \in Nat /\ Cardinality(I) <= QueueCap
  <2>1. IsFiniteSet(I) /\ Cardinality(I) <= Len(inbox)
    BY FewRequests DEF QueueInv
  <2>2. Len(inbox) \in Nat
    BY LenProperties DEF QueueInv
  <2>. QED  BY <2>1, <2>2, FS_CardinalityType, TransferAssumption DEF QueueInv
<1>3. IsFiniteSet(R) /\ Cardinality(R) \in Nat /\ Cardinality(R) <= QueueCap
  <2>1. IsFiniteSet(R) /\ Cardinality(R) <= Len(replies)
    BY FewRequests DEF QueueInv
  <2>2. Len(replies) \in Nat
    BY LenProperties DEF QueueInv
  <2>. QED  BY <2>1, <2>2, FS_CardinalityType, TransferAssumption DEF QueueInv
<1>. HIDE DEF U, I, R
<1>4. IsFiniteSet(U \cup I) /\ Cardinality(U \cup I) \in Nat /\ Cardinality(U \cup I) <= 2 + QueueCap
  <2>1. /\ IsFiniteSet(U \cup I)
        /\ Cardinality(U \cup I) = Cardinality(U) + Cardinality(I) - Cardinality(U \cap I)
    BY <1>1, <1>2, FS_Union
  <2>2. Cardinality(U \cap I) \in Nat
    BY <1>1, FS_Subset, FS_CardinalityType
  <2>3. Cardinality(U \cup I) \in Nat
    BY <2>1, FS_CardinalityType
  <2>. QED  BY <1>1, <1>2, <2>1, <2>2, <2>3, TransferAssumption, SMTT(30)
<1>5. IsFiniteSet(used) /\ Cardinality(used) \in Nat /\ Cardinality(used) <= 2 + 2 * QueueCap
  <2>. DEFINE V == U \cup I
  <2>1. IsFiniteSet(V) /\ Cardinality(V) \in Nat /\ Cardinality(V) <= 2 + QueueCap
    BY <1>4
  <2>. HIDE DEF V
  <2>2. /\ IsFiniteSet(V \cup R)
        /\ Cardinality(V \cup R) = Cardinality(V) + Cardinality(R) - Cardinality(V \cap R)
    BY <1>3, <2>1, FS_Union
  <2>3. Cardinality(V \cap R) \in Nat
    BY <2>1, FS_Subset, FS_CardinalityType
  <2>4. Cardinality(V \cup R) \in Nat
    BY <2>2, FS_CardinalityType
  <2>5. used = V \cup R
    BY DEF V
  <2>. HIDE DEF used
  <2>6. Cardinality(V \cup R) <= 2 + 2 * QueueCap
    BY <1>3, <2>1, <2>2, <2>3, <2>4, TransferAssumption, SMTT(30)
  <2>. QED  BY <2>2, <2>4, <2>5, <2>6
<1>. HIDE DEF used
<1>6. top \in Nat /\ IsFiniteSet(1..top) /\ Cardinality(1..top) = top
  <2>1. top \in Nat /\ 1 \in Int /\ top \in Int /\ ~(1 > top) /\ top - 1 + 1 = top
    BY TransferAssumption
  <2>. HIDE DEF top
  <2>. QED  BY <2>1, FS_Interval
<1>. HIDE DEF top
<1>7. (1..top) \ used # {}
  <2>. SUFFICES ASSUME (1..top) \ used = {}  PROVE FALSE
    OBVIOUS
  <2>1. (1..top) \in SUBSET used
    OBVIOUS
  <2>2. Cardinality(1..top) <= Cardinality(used)
    BY <1>5, <2>1, FS_Subset, Zenon
  <2>3. top > 2 + 2 * QueueCap
    BY TransferAssumption DEF top
  <2>. QED  BY <1>5, <1>6, <2>2, <2>3, TransferAssumption, SMTT(30)
<1>8. Min((1..top) \ used) \in (1..top) \ used
  <2>1. (1..top) \ used \in SUBSET Nat
    BY <1>6
  <2>. QED  BY <1>7, <2>1, NaturalsAreOrdered, MinIsLeast, Zenon
<1>9. FreshRequest = Min((1..top) \ used)
  BY Zenon DEF FreshRequest, used, U, I, R, top
<1>. QED  BY <1>6, <1>8, <1>9

\* A function on an initial interval is a sequence.
LEMMA FunctionIsSequence ==
  ASSUME NEW S, NEW n \in Nat, NEW f \in [1..n -> S]
  PROVE  f \in Seq(S)
OBVIOUS

\* A log is as long as it says.
LEMMA LogToType ==
  ASSUME NEW n \in Nat
  PROVE  LogTo(n) \in Seq([term : {1}]) /\ Len(LogTo(n)) = n
<1>1. LogTo(n) \in [1..n -> [term : {1}]]
  BY DEF LogTo
<1>2. LogTo(n) \in Seq([term : {1}])
  BY <1>1, FunctionIsSequence, Zenon
<1>3. DOMAIN LogTo(n) = 1..n
  BY <1>1
<1>. QED  BY <1>2, <1>3, LenProperties

\* entriesBatch: what a request carries ends within the log.
LEMMA BatchFits ==
  ASSUME NEW l \in Nat, NEW next \in 1..(l + 1)
  PROVE  LET size == Len(EntriesBatch(LogTo(l), next))
         IN size \in Nat /\ next - 1 + size <= l
<1>. DEFINE n == Smaller(l, next + MaxBatch - 1)
<1>1. n \in Nat /\ n <= l
  BY MaxBatchAssumption DEF Smaller
<1>2. EntriesBatch(LogTo(l), next) = SubSeq(LogTo(l), next, n)
  BY LogToType, Zenon DEF EntriesBatch
<1>. HIDE DEF n
<1>3. Len(SubSeq(LogTo(l), next, n)) = IF next <= n THEN n - next + 1 ELSE 0
  BY <1>1, LogToType, SubSeqType
<1>. QED  BY <1>1, <1>2, <1>3

\* sendSnapshot: a chunk lies within the newest file, or starts beyond its end.
LEMMA ChunkFits ==
  ASSUME LeaderInv, base # 0, NEW request \in Nat, NEW offset \in Nat
  PROVE  LET m == SnapshotChunk(request, offset)
         IN /\ m.type = "InstallSnapshot"
            /\ m.request = request
            /\ m.index = base
            /\ base \in 1..MaxIndex
            /\ Unreadable(m) \/ m \in Request(last, base)
<1>. DEFINE m == SnapshotChunk(request, offset)
            end == Smaller(offset + 1, Length[base])
<1>1. base \in 1..MaxIndex /\ Length[base] \in Nat \ {0}
  BY TransferAssumption DEF LeaderInv
<1>2. m = [type |-> "InstallSnapshot", request |-> request, index |-> base,
           length |-> Length[base], offset |-> offset,
           size |-> end - offset, done |-> end = Length[base]]
  BY DEF SnapshotChunk
<1>3. ASSUME ~(offset > Length[base])  PROVE m \in Request(last, base)
  <2>1. end - offset \in Nat /\ offset + (end - offset) <= Length[base]
    BY <1>1, <1>3 DEF Smaller
  <2>2. base \in 1..base
    BY <1>1
  <2>. HIDE DEF end
  <2>. QED  BY <1>1, <1>2, <2>1, <2>2 DEF Request
<1>. QED  BY <1>1, <1>2, <1>3 DEF Unreadable

\* What a handler hands to the transport: nothing, or a message it may send, and a
\* progress that counts no more than the Follower holds.
Sendable(out, l) ==
  /\ out.progress \in Progress
  /\ out.progress.match <= flast
  /\ out.sent # NoMessage =>
       /\ out.sent.request \in Nat
       /\ out.sent.type = "InstallSnapshot" => out.sent.index \in 1..MaxIndex
       /\ Unreadable(out.sent) \/ out.sent \in Request(l, base)

\* A step may send nothing.
LEMMA QuietIsSendable ==
  ASSUME NEW p \in Progress, p.match <= flast, NEW l
  PROVE  Sendable(Quiet(p), l)
BY DEF Sendable, Quiet

\* sendAppendEntriesTo leaves what is matched alone, and sends entries the Leader
\* has or the beginning of its Snapshot.
LEMMA SendIsSendable ==
  ASSUME LeaderInv, QueueInv, NEW p \in Progress, p.match <= flast,
         NEW l \in last..MaxIndex
  PROVE  Sendable(SendAppendEntriesTo(p, l), l)
<1>. DEFINE next == Smaller(p.next, l + 1)
            id   == FreshRequest
            out  == SendAppendEntriesTo(p, l)
<1>0. l \in Nat /\ last \in Nat /\ base \in Nat /\ last <= l /\ MaxIndex \in Nat
  BY TransferAssumption DEF LeaderInv
<1>1. next \in 1..(l + 1)
  BY <1>0 DEF Smaller, Progress
<1>2. id \in Nat
  BY FreshRequestExists
<1>. HIDE DEF next, id
<1>3. CASE p.append # 0 \/ (next <= base /\ p.snapshot # 0)
  <2>1. out = Quiet(p)
    BY <1>3, Zenon DEF SendAppendEntriesTo, Quiet, next
  <2>. QED  BY <2>1, QuietIsSendable
<1>4. CASE p.append = 0 /\ next <= base /\ p.snapshot = 0
  <2>1. out = [progress |-> [p EXCEPT !.snapshot = id], sent |-> SnapshotChunk(id, 0)]
    BY <1>4 DEF SendAppendEntriesTo, next, id
  <2>2. base # 0
    BY <1>0, <1>1, <1>4
  <2>3. [p EXCEPT !.snapshot = id] \in Progress /\ [p EXCEPT !.snapshot = id].match = p.match
    BY <1>2 DEF Progress
  <2>. DEFINE m == SnapshotChunk(id, 0)
  <2>4. /\ m.type = "InstallSnapshot" /\ m.request = id /\ m.index = base
        /\ base \in 1..MaxIndex
        /\ Unreadable(m) \/ m \in Request(last, base)
    BY <1>2, <2>2, ChunkFits
  <2>5. m \in Request(last, base) => m \in Request(l, base)
    BY <1>0 DEF Request
  <2>. HIDE DEF m
  <2>6. out.progress = [p EXCEPT !.snapshot = id] /\ out.sent = m
    BY <2>1 DEF m
  <2>. QED  BY <1>2, <2>3, <2>4, <2>5, <2>6 DEF Sendable
<1>5. CASE p.append = 0 /\ ~(next <= base)
  <2>. DEFINE size == Len(EntriesBatch(LogTo(l), next))
              m == [type |-> "AppendEntries", request |-> id, prev |-> next - 1, entries |-> size]
  <2>1. out = [progress |-> [p EXCEPT !.append = id], sent |-> m]
    BY <1>5 DEF SendAppendEntriesTo, next, id
  <2>2. size \in Nat /\ next - 1 + size <= l
    BY <1>0, <1>1, BatchFits
  <2>3. [p EXCEPT !.append = id] \in Progress /\ [p EXCEPT !.append = id].match = p.match
    BY <1>2 DEF Progress
  <2>. HIDE DEF size
  <2>4. m \in Request(l, base) /\ m.request = id /\ m.type = "AppendEntries"
    BY <1>0, <1>1, <1>2, <2>2 DEF Request
  <2>. HIDE DEF m
  <2>5. out.progress = [p EXCEPT !.append = id] /\ out.sent = m
    BY <2>1
  <2>. QED  BY <1>2, <2>3, <2>4, <2>5 DEF Sendable
<1>. QED  BY <1>3, <1>4, <1>5

-----------------------------------------------------------------------------
(* The transport *)

\* handleAppendEntriesFailed forgets a request and nothing else.
LEMMA ExpireType ==
  ASSUME NEW p \in Progress, NEW request \in Nat
  PROVE  Expire(p, request) \in Progress /\ Expire(p, request).match = p.match
BY Zenon DEF Expire, Progress

\* The cached reader is the open one, whichever file is asked for.
LEMMA AcquireKeeps ==
  ASSUME TransportInv, ~stopped, NEW index \in 1..MaxIndex, AcquireSnapshot(index)
  PROVE  cached' \in 0..MaxIndex /\ open' \subseteq 1..MaxIndex /\ open' \subseteq {cached'}
BY TransferAssumption DEF TransportInv, NoReaderLeaks, AcquireSnapshot

\* However a send ends.
LEMMA TransmitKeeps ==
  ASSUME TransferInv, ~stopped, NEW l \in last..MaxIndex, NEW out, Sendable(out, l),
         NEW spent \in 0..MaxFaults, Transmit(out, spent)
  PROVE  /\ progress' \in Progress
         /\ progress'.match <= flast
         /\ inbox' \in Seq(Request(l, base))
         /\ Len(inbox') <= QueueCap
         /\ faults' \in 0..MaxFaults
         /\ cached' \in 0..MaxIndex
         /\ open' \subseteq 1..MaxIndex
         /\ open' \subseteq {cached'}
<1>. USE TransferAssumption
<1>0. l \in Nat /\ last \in Nat /\ base \in Nat /\ flast \in Nat /\ last <= l
  BY DEF TransferInv, LeaderInv, FollowerInv
<1>1. inbox \in Seq(Request(l, base)) /\ Len(inbox) <= QueueCap /\ Len(inbox) \in Nat
  <2>1. inbox \in Seq(Request(last, base)) /\ Len(inbox) <= QueueCap
    BY DEF TransferInv, QueueInv
  <2>2. inbox \in Seq(Request(l, base))
    BY <1>0, <2>1, RequestsKeep
  <2>. QED  BY <2>1, <2>2, LenProperties
<1>2. /\ out.progress \in Progress
      /\ out.progress.match <= flast
  BY DEF Sendable
<1>3. CASE out.sent = NoMessage
  <2>1. /\ progress' = out.progress /\ faults' = spent
        /\ cached' = cached /\ open' = open /\ inbox' = inbox
    BY <1>3, Zenon DEF Transmit, transportVars
  <2>. QED  BY <1>1, <1>2, <2>1 DEF TransferInv, TransportInv, NoReaderLeaks
<1>4. CASE out.sent # NoMessage
  <2>. DEFINE request == out.sent.request
  <2>1. /\ request \in Nat
        /\ out.sent.type = "InstallSnapshot" => out.sent.index \in 1..MaxIndex
        /\ Unreadable(out.sent) \/ out.sent \in Request(l, base)
    BY <1>4 DEF Sendable
  <2>2. cached' \in 0..MaxIndex /\ open' \subseteq 1..MaxIndex /\ open' \subseteq {cached'}
    <3>1. CASE out.sent.type = "InstallSnapshot"
      <4>1. AcquireSnapshot(out.sent.index)
        BY <1>4, <3>1, Zenon DEF Transmit
      <4>. QED  BY <2>1, <3>1, <4>1, AcquireKeeps DEF TransferInv
    <3>2. CASE out.sent.type # "InstallSnapshot"
      <4>1. cached' = cached /\ open' = open
        BY <1>4, <3>2, Zenon DEF Transmit, transportVars
      <4>. QED  BY <4>1 DEF TransferInv, TransportInv, NoReaderLeaks
    <3>. QED  BY <3>1, <3>2
  <2>3. /\ Expire(out.progress, request) \in Progress
        /\ Expire(out.progress, request).match <= flast
    BY <1>2, <2>1, ExpireType, Zenon
  <2>4. CASE Unreadable(out.sent)
    <3>1. /\ progress' = Expire(out.progress, request)
          /\ faults' = spent /\ inbox' = inbox
      BY <1>4, <2>4, Zenon DEF Transmit
    <3>. QED  BY <1>1, <2>2, <2>3, <3>1, SMTT(30)
  <2>5. CASE ~Unreadable(out.sent)
    <3>0. Accepted(out, spent) \/ AcceptedLate(out, spent) \/ Refused(out, spent)
      BY <1>4, <2>5, Zenon DEF Transmit
    <3>1. out.sent \in Request(l, base)
      BY <2>1, <2>5
    <3>2. /\ Append(inbox, out.sent) \in Seq(Request(l, base))
          /\ Len(Append(inbox, out.sent)) = Len(inbox) + 1
      BY <1>1, <3>1, AppendProperties
    <3>3. CASE Accepted(out, spent)
      <4>1. /\ Len(inbox) < QueueCap /\ inbox' = Append(inbox, out.sent)
            /\ progress' = out.progress /\ faults' = spent
        BY <3>3, Zenon DEF Accepted
      <4>2. Len(inbox') <= QueueCap
        BY <1>1, <3>2, <4>1
      <4>. QED  BY <1>2, <2>2, <3>2, <4>1, <4>2
    <3>4. CASE AcceptedLate(out, spent)
      <4>1. /\ Len(inbox) < QueueCap /\ inbox' = Append(inbox, out.sent)
            /\ progress' = Expire(out.progress, request)
            /\ spent < MaxFaults /\ faults' = spent + 1
        BY <3>4, Zenon DEF AcceptedLate
      <4>2. Len(inbox') <= QueueCap /\ faults' \in 0..MaxFaults
        BY <1>1, <3>2, <4>1, SMTT(30)
      <4>. QED  BY <2>2, <2>3, <3>2, <4>1, <4>2, SMTT(30)
    <3>5. CASE Refused(out, spent)
      <4>1. /\ progress' = Expire(out.progress, request)
            /\ inbox' = inbox
            /\ (spent < MaxFaults /\ faults' = spent + 1) \/ faults' = spent
        BY <3>5, Zenon DEF Refused
      <4>2. faults' \in 0..MaxFaults
        BY <4>1
      <4>. QED  BY <1>1, <2>2, <2>3, <4>1, <4>2, SMTT(30)
    <3>. QED  BY <3>0, <3>3, <3>4, <3>5
  <2>. QED  BY <2>4, <2>5
<1>. QED  BY <1>3, <1>4

-----------------------------------------------------------------------------
(* The Leader *)

\* A send of the Leader that leaves its log and the Follower alone.
LEMMA TransmitPreserves ==
  ASSUME TransferInv, ~stopped, NEW out, Sendable(out, last), NEW spent \in 0..MaxFaults,
         Transmit(out, spent), UNCHANGED <<leaderVars, stopped, followerVars>>,
         replies' \in Seq(Response(base, flast)), Len(replies') <= QueueCap
  PROVE  TransferInv'
<1>0. last \in last..MaxIndex
  BY TransferAssumption DEF TransferInv, LeaderInv
<1>1. /\ progress' \in Progress /\ progress'.match <= flast
      /\ inbox' \in Seq(Request(last, base)) /\ Len(inbox') <= QueueCap
      /\ faults' \in 0..MaxFaults
      /\ cached' \in 0..MaxIndex /\ open' \subseteq 1..MaxIndex /\ open' \subseteq {cached'}
  BY <1>0, TransmitKeeps
<1>2. /\ last' = last /\ base' = base /\ files' = files /\ capture' = capture
      /\ stopped' = stopped /\ flast' = flast /\ fbase' = fbase /\ incoming' = incoming
  BY DEF leaderVars, followerVars
<1>3. LeaderInv' /\ FollowerInv'
  BY <1>2 DEF TransferInv, LeaderInv, FollowerInv, Staged
<1>4. TransportInv'
  BY <1>1, <1>2 DEF TransferInv, TransportInv, NoReaderLeaks
<1>5. QueueInv'
  BY <1>1, <1>2 DEF QueueInv, MatchIsHeld
<1>. QED  BY <1>3, <1>4, <1>5, SMTT(30) DEF TransferInv

\* heartbeat: the last request is given up, whether or not it was answered.
LEMMA HeartbeatPreserves ==
  ASSUME TransferInv, HeartbeatRound
  PROVE  TransferInv'
<1>. DEFINE p == [progress EXCEPT !.append = 0]
<1>1. PICK spent \in {faults, faults + 1} :
        spent <= MaxFaults /\ Transmit(SendAppendEntriesTo(p, last), spent)
  BY DEF HeartbeatRound
<1>2. /\ ~stopped /\ UNCHANGED <<leaderVars, stopped, followerVars>> /\ replies' = replies
  BY DEF HeartbeatRound
<1>3. spent \in 0..MaxFaults
  BY <1>1, TransferAssumption DEF TransferInv, QueueInv
<1>4. p \in Progress /\ p.match <= flast
  BY DEF TransferInv, QueueInv, MatchIsHeld, Progress
<1>5. last \in last..MaxIndex
  BY TransferAssumption DEF TransferInv, LeaderInv
<1>. HIDE DEF p
<1>6. Sendable(SendAppendEntriesTo(p, last), last)
  BY <1>4, <1>5, SendIsSendable DEF TransferInv
<1>7. replies' \in Seq(Response(base, flast)) /\ Len(replies') <= QueueCap
  BY <1>2 DEF TransferInv, QueueInv
<1>. QED  BY <1>1, <1>2, <1>3, <1>6, <1>7, TransmitPreserves, SMTT(30)

\* A proposal appends one entry before it is sent.
LEMMA ProposePreserves ==
  ASSUME TransferInv, Propose
  PROVE  TransferInv'
<1>1. /\ ~stopped /\ last < MaxIndex /\ last' = last + 1
      /\ Transmit(SendAppendEntriesTo(progress, last + 1), faults)
      /\ base' = base /\ files' = files /\ capture' = capture
      /\ stopped' = stopped /\ replies' = replies
      /\ flast' = flast /\ fbase' = fbase /\ incoming' = incoming
  BY DEF Propose, followerVars
<1>2. last + 1 \in last..MaxIndex
  BY <1>1, TransferAssumption DEF TransferInv, LeaderInv
<1>3. Sendable(SendAppendEntriesTo(progress, last + 1), last + 1)
  BY <1>2, SendIsSendable DEF TransferInv, QueueInv, MatchIsHeld
<1>4. /\ progress' \in Progress /\ progress'.match <= flast
      /\ inbox' \in Seq(Request(last + 1, base)) /\ Len(inbox') <= QueueCap
      /\ faults' \in 0..MaxFaults
      /\ cached' \in 0..MaxIndex /\ open' \subseteq 1..MaxIndex /\ open' \subseteq {cached'}
  BY <1>1, <1>2, <1>3, TransmitKeeps DEF TransferInv, QueueInv
<1>5. LeaderInv'
  BY <1>1, TransferAssumption DEF TransferInv, LeaderInv
<1>6. FollowerInv'
  BY <1>1 DEF TransferInv, FollowerInv, Staged
<1>7. TransportInv'
  BY <1>1, <1>4 DEF TransferInv, TransportInv, NoReaderLeaks
<1>8. QueueInv'
  BY <1>1, <1>4 DEF TransferInv, QueueInv, MatchIsHeld
<1>. QED  BY <1>5, <1>6, <1>7, <1>8, SMTT(30) DEF TransferInv

\* The queue of the Leader, and the message it takes.
LEMMA NextReply ==
  ASSUME TransferInv, replies # <<>>
  PROVE  /\ Head(replies) \in Response(base, flast)
         /\ Tail(replies) \in Seq(Response(base, flast))
         /\ Len(Tail(replies)) <= QueueCap
<1>1. replies \in Seq(Response(base, flast)) /\ Len(replies) <= QueueCap
  BY DEF TransferInv, QueueInv
<1>2. /\ Head(replies) \in Response(base, flast)
      /\ Tail(replies) \in Seq(Response(base, flast))
      /\ Len(Tail(replies)) = Len(replies) - 1
  BY <1>1, HeadTailProperties
<1>. QED  BY <1>1, <1>2, LenProperties, TransferAssumption, SMTT(30)

\* The Leader takes a message and sends what follows from it.
LEMMA TakePreserves ==
  ASSUME TransferInv, ~stopped, replies # <<>>, NEW out, Sendable(out, last), Take(out)
  PROVE  TransferInv'
<1>1. /\ replies' = Tail(replies) /\ Transmit(out, faults)
      /\ UNCHANGED <<leaderVars, stopped, followerVars>>
  BY DEF Take
<1>2. faults \in 0..MaxFaults
  BY DEF TransferInv, QueueInv
<1>. QED  BY <1>1, <1>2, NextReply, TransmitPreserves, SMTT(30)

\* A response counts what the Follower held when it was sent, and it holds it still.
LEMMA AppendEntriesResponsePreserves ==
  ASSUME TransferInv, ~stopped, replies # <<>>,
         HandleAppendEntriesResponse(Head(replies))
  PROVE  TransferInv'
<1>. DEFINE m     == Head(replies)
            match == IF m.success THEN Larger(progress.match, m.match) ELSE progress.match
            next  == IF m.success THEN match + 1
                     ELSE NextIndexFromConflict(LogTo(last), base, m.conflictTerm, m.conflictIndex)
            p     == [progress EXCEPT !.append = 0, !.match = match, !.next = next]
<1>0. /\ last \in 1..MaxIndex /\ base \in Nat /\ flast \in 0..MaxIndex
      /\ progress \in Progress /\ progress.match <= flast /\ MaxIndex \in Nat
  BY TransferAssumption DEF TransferInv, LeaderInv, FollowerInv, QueueInv, MatchIsHeld
<1>1. /\ m.type = "AppendEntriesResponse"
      /\ \/ Take(Quiet(progress))
         \/ Take(SendAppendEntriesTo(p, last))
         \/ Take(Quiet(p))
  BY DEF HandleAppendEntriesResponse
<1>2. /\ m \in Response(base, flast)
  BY NextReply
<1>3. m.match \in 0..flast /\ m.conflictTerm \in Nat /\ m.conflictIndex \in Nat
  BY <1>1, <1>2 DEF Response
<1>. HIDE DEF m
<1>4. match \in 0..MaxIndex /\ match <= flast
  BY <1>0, <1>3 DEF Larger, Progress
<1>5. next \in 1..(MaxIndex + 1)
  <2>1. NextIndexFromConflict(LogTo(last), base, m.conflictTerm, m.conflictIndex) \in 1..(last + 1)
    <3>1. last \in Nat
      BY <1>0
    <3>2. LogTo(last) \in Seq([term : {1}]) /\ Len(LogTo(last)) = last
      BY <3>1, LogToType
    <3>3. NextIndexFromConflict(LogTo(last), base, m.conflictTerm, m.conflictIndex)
            \in 1..(Len(LogTo(last)) + 1)
      BY <1>0, <1>3, <3>2, NaturalsAreOrdered, NextIndexFromConflictType, Zenon
    <3>. QED  BY <3>2, <3>3
  <2>. QED  BY <1>0, <1>4, <2>1, SMTT(30)
<1>. HIDE DEF match, next
<1>6. p \in Progress /\ p.match = match
  BY <1>0, <1>4, <1>5, Zenon DEF Progress
<1>. HIDE DEF p
<1>7. last \in last..MaxIndex
  BY <1>0
<1>8. /\ Sendable(Quiet(progress), last) /\ Sendable(Quiet(p), last)
      /\ Sendable(SendAppendEntriesTo(p, last), last)
  <2>1. p.match <= flast
    BY <1>4, <1>6
  <2>. QED  BY <1>0, <1>6, <1>7, <2>1, QuietIsSendable, SendIsSendable, SMTT(30) DEF TransferInv
<1>. QED  BY <1>1, <1>8, TakePreserves, SMTT(30)

\* An installed Snapshot raises what is matched to its index, no more; the next
\* chunk is read from the newest file.
LEMMA InstallSnapshotResponsePreserves ==
  ASSUME TransferInv, ~stopped, replies # <<>>,
         HandleInstallSnapshotResponse(Head(replies))
  PROVE  TransferInv'
<1>. DEFINE m    == Head(replies)
            done == [progress EXCEPT !.snapshot = 0, !.next = m.index + 1,
                                     !.match = Larger(progress.match, m.index)]
            more == [progress |-> progress, sent |-> SnapshotChunk(m.request, m.nextOffset)]
            quit == AbandonTransfer(progress)
<1>0. /\ last \in 1..MaxIndex /\ base \in 0..last /\ flast \in 0..MaxIndex
      /\ progress \in Progress /\ progress.match <= flast /\ MaxIndex \in Nat
  BY TransferAssumption DEF TransferInv, LeaderInv, FollowerInv, QueueInv, MatchIsHeld
<1>1. /\ m.type = "InstallSnapshotResponse"
      /\ \/ Take(Quiet(progress))
         \/ Take(Quiet(quit))
         \/ TransferDone(m) /\ Take(SendAppendEntriesTo(done, last))
         \/ Take(more)
  BY DEF HandleInstallSnapshotResponse
<1>2. m \in Response(base, flast)
  BY NextReply
<1>3. /\ m.index \in 1..base /\ m.request \in Nat /\ m.nextOffset \in Nat
      /\ m.done => m.index <= flast
  BY <1>1, <1>2 DEF Response
<1>. HIDE DEF m
<1>4. quit \in Progress /\ quit.match <= flast
  BY <1>0, SMTT(30) DEF Progress, AbandonTransfer
<1>5. ASSUME TransferDone(m)  PROVE done \in Progress /\ done.match <= flast
  <2>1. m.index <= flast
    BY <1>3, <1>5 DEF TransferDone
  <2>2. Larger(progress.match, m.index) \in 0..MaxIndex /\ Larger(progress.match, m.index) <= flast
    BY <1>0, <1>3, <2>1, SMTT(30) DEF Larger, Progress
  <2>3. m.index + 1 \in 1..(MaxIndex + 1)
    BY <1>0, <1>3, SMTT(30)
  <2>. QED  BY <1>0, <2>2, <2>3, Zenon DEF Progress
<1>6. Sendable(more, last)
  <2>. DEFINE c == SnapshotChunk(m.request, m.nextOffset)
  <2>1. base # 0
    BY <1>0, <1>3
  <2>2. /\ c.type = "InstallSnapshot" /\ c.request = m.request /\ c.index = base
        /\ base \in 1..MaxIndex
        /\ Unreadable(c) \/ c \in Request(last, base)
    BY <1>3, <2>1, ChunkFits, SMTT(30) DEF TransferInv
  <2>. HIDE DEF c
  <2>3. more.progress = progress /\ more.sent = c
    BY DEF c
  <2>. QED  BY <1>0, <1>3, <2>2, <2>3, SMTT(30) DEF Sendable
<1>. HIDE DEF done, more, quit
<1>7. last \in last..MaxIndex
  BY <1>0
<1>8. Sendable(Quiet(progress), last) /\ Sendable(Quiet(quit), last)
  BY <1>0, <1>4, QuietIsSendable, SMTT(30)
<1>9. TransferDone(m) => Sendable(SendAppendEntriesTo(done, last), last)
  BY <1>5, <1>7, SendIsSendable DEF TransferInv
<1>. QED  BY <1>1, <1>6, <1>8, <1>9, TakePreserves, SMTT(30)

\* The Snapshots the Leader takes of its own, and the end of its process.
LEMMA LocalSnapshotPreserves ==
  ASSUME TransferInv, StartSnapshot \/ InstallSnapshot \/ FinishSnapshot
  PROVE  TransferInv'
<1>. USE TransferAssumption
<1>0. /\ last' = last /\ progress' = progress /\ cached' = cached /\ open' = open
      /\ stopped' = stopped /\ replies' = replies /\ inbox' = inbox /\ faults' = faults
      /\ flast' = flast /\ fbase' = fbase /\ incoming' = incoming
  BY DEF StartSnapshot, InstallSnapshot, FinishSnapshot, transportVars, followerVars
<1>1. LeaderInv' /\ base <= base'
  <2>1. CASE StartSnapshot
    BY <1>0, <2>1 DEF TransferInv, LeaderInv, StartSnapshot
  <2>2. CASE InstallSnapshot
    BY <1>0, <2>2 DEF TransferInv, LeaderInv, InstallSnapshot
  <2>3. CASE FinishSnapshot
    BY <1>0, <2>3 DEF TransferInv, LeaderInv, FinishSnapshot, Larger
  <2>. QED  BY <2>1, <2>2, <2>3
<1>2. TransportInv'
  BY <1>0 DEF TransferInv, TransportInv, NoReaderLeaks
<1>3. FollowerInv'
  BY <1>0 DEF TransferInv, FollowerInv, Staged
<1>4. last \in Nat /\ base \in Nat /\ base' \in Nat /\ flast \in Nat
  BY <1>1 DEF TransferInv, LeaderInv, FollowerInv
<1>5. /\ inbox \in Seq(Request(last, base'))
      /\ replies \in Seq(Response(base', flast))
  BY <1>1, <1>4, RequestsKeep, ResponsesKeep DEF TransferInv, QueueInv
<1>6. QueueInv'
  BY <1>0, <1>5 DEF TransferInv, QueueInv, MatchIsHeld
<1>. QED  BY <1>1, <1>2, <1>3, <1>6, SMTT(30) DEF TransferInv

\* close releases the cached reader, the only one that is open.
LEMMA ClosePreserves ==
  ASSUME TransferInv, CloseTransport
  PROVE  TransferInv'
<1>0. /\ stopped' = TRUE /\ cached' = 0 /\ open' = open \ {cached}
      /\ last' = last /\ base' = base /\ files' = files /\ capture' = capture
      /\ progress' = progress /\ replies' = replies /\ inbox' = inbox /\ faults' = faults
      /\ flast' = flast /\ fbase' = fbase /\ incoming' = incoming
  BY DEF CloseTransport, leaderVars, followerVars
<1>1. LeaderInv' /\ FollowerInv' /\ QueueInv'
  BY <1>0 DEF TransferInv, LeaderInv, FollowerInv, Staged, QueueInv, MatchIsHeld
<1>2. TransportInv'
  BY <1>0, TransferAssumption, SMTT(30) DEF TransferInv, TransportInv, NoReaderLeaks
<1>. QED  BY <1>1, <1>2 DEF TransferInv

-----------------------------------------------------------------------------
(* The Follower *)

\* The message the Follower takes.
LEMMA NextRequest ==
  ASSUME TransferInv, inbox # <<>>
  PROVE  /\ Head(inbox) \in Request(last, base)
         /\ Tail(inbox) \in Seq(Request(last, base))
         /\ Len(Tail(inbox)) <= QueueCap
<1>1. inbox \in Seq(Request(last, base)) /\ Len(inbox) <= QueueCap
  BY DEF TransferInv, QueueInv
<1>2. /\ Head(inbox) \in Request(last, base)
      /\ Tail(inbox) \in Seq(Request(last, base))
      /\ Len(Tail(inbox)) = Len(inbox) - 1
  BY <1>1, HeadTailProperties
<1>. QED  BY <1>1, <1>2, LenProperties, TransferAssumption

\* A step of the Follower that answers with what its new log holds.
LEMMA ReplyPreserves ==
  ASSUME TransferInv, inbox # <<>>, FollowerInv', flast <= flast',
         NEW m, m \in Response(base, flast'), Reply(m)
  PROVE  TransferInv'
<1>. USE TransferAssumption
<1>0. /\ inbox' = Tail(inbox)
      /\ last' = last /\ base' = base /\ files' = files /\ capture' = capture
      /\ progress' = progress /\ cached' = cached /\ open' = open /\ stopped' = stopped
  BY DEF Reply, leaderVars, transportVars
<1>1. /\ base \in Nat /\ flast \in Nat /\ flast' \in Nat
  BY DEF TransferInv, LeaderInv, FollowerInv
<1>2. replies \in Seq(Response(base, flast')) /\ Len(replies) <= QueueCap /\ Len(replies) \in Nat
  <2>1. replies \in Seq(Response(base, flast)) /\ Len(replies) <= QueueCap
    BY DEF TransferInv, QueueInv
  <2>2. replies \in Seq(Response(base, flast'))
    BY <1>1, <2>1, ResponsesKeep
  <2>. QED  BY <2>1, <2>2, LenProperties, SMTT(30)
<1>3. /\ replies' \in Seq(Response(base, flast')) /\ Len(replies') <= QueueCap
      /\ faults' \in 0..MaxFaults
  <2>1. CASE Len(replies) < QueueCap /\ replies' = Append(replies, m) /\ faults' = faults
    <3>1. /\ Append(replies, m) \in Seq(Response(base, flast'))
          /\ Len(Append(replies, m)) = Len(replies) + 1
      BY <1>2, AppendProperties
    <3>. QED  BY <1>2, <2>1, <3>1, SMTT(30) DEF TransferInv, QueueInv
  <2>2. CASE faults < MaxFaults /\ faults' = faults + 1 /\ replies' = replies
    BY <1>2, <2>2 DEF TransferInv, QueueInv
  <2>. QED  BY <2>1, <2>2, Zenon DEF Reply
<1>4. LeaderInv' /\ TransportInv'
  BY <1>0 DEF TransferInv, LeaderInv, TransportInv, NoReaderLeaks
<1>5. progress' \in Progress /\ MatchIsHeld'
  BY <1>0, <1>1, SMTT(30) DEF TransferInv, QueueInv, MatchIsHeld, Progress
<1>6. inbox' \in Seq(Request(last, base)) /\ Len(inbox') <= QueueCap
  BY <1>0, NextRequest
<1>7. QueueInv'
  BY <1>0, <1>3, <1>5, <1>6, SMTT(30) DEF QueueInv
<1>. QED  BY <1>4, <1>7, SMTT(30) DEF TransferInv

\* handleAppendEntries answers with a match that its log has reached.
LEMMA AppendEntriesPreserves ==
  ASSUME TransferInv, inbox # <<>>, HandleAppendEntries(Head(inbox))
  PROVE  TransferInv'
<1>. USE TransferAssumption
<1>. DEFINE m       == Head(inbox)
            matches == Matches(LogTo(flast), fbase, m.prev, IF m.prev = 0 THEN 0 ELSE 1)
            fits    == EntriesToAppend(LogTo(flast), fbase, fbase, m.prev, LogTo(m.entries)).ok
            success == matches /\ fits
            probe   == IF matches THEN m.prev + 1 ELSE m.prev
            hint    == ConflictHint(LogTo(flast), fbase, probe)
            answer  == [type |-> "AppendEntriesResponse", request |-> m.request,
                        success |-> success, match |-> flast',
                        conflictTerm |-> hint.term, conflictIndex |-> hint.index]
<1>1. /\ m.type = "AppendEntries"
      /\ flast' = IF success THEN Larger(flast, m.prev + m.entries) ELSE flast
      /\ Reply(answer)
      /\ fbase' = fbase /\ incoming' = incoming
  BY DEF HandleAppendEntries
<1>2. m \in Request(last, base)
  BY NextRequest, SMTT(30)
<1>3. m.prev \in Nat /\ m.entries \in Nat /\ m.request \in Nat /\ m.prev + m.entries <= last
  BY <1>1, <1>2 DEF Request
<1>. HIDE DEF m
<1>. HIDE DEF matches, fits
<1>4. success \in BOOLEAN /\ probe \in Nat
  BY <1>3
<1>. HIDE DEF probe
<1>5. hint.term \in Nat /\ hint.index \in Nat
  <2>1. flast \in Nat /\ fbase \in Nat
    BY DEF TransferInv, FollowerInv
  <2>2. LogTo(flast) \in Seq([term : {1}]) /\ Len(LogTo(flast)) = flast
    BY <2>1, LogToType, Zenon
  <2>3. \A e \in [term : {1}] : e.term \in Nat
    OBVIOUS
  <2>4. hint \in [term : Nat, index : 1..(Len(LogTo(flast)) + 1)]
    BY <1>4, <2>1, <2>2, <2>3, NaturalsAreOrdered, ConflictHintType, ZenonT(40)
  <2>. HIDE DEF hint
  <2>. QED  BY <2>1, <2>2, <2>4, SMTT(30)
<1>. HIDE DEF success, hint
<1>6. flast' \in 0..MaxIndex /\ flast <= flast'
  BY <1>1, <1>3, SMTT(30) DEF TransferInv, FollowerInv, LeaderInv, Larger
<1>7. FollowerInv'
  BY <1>1, <1>6, SMTT(30) DEF TransferInv, FollowerInv, Staged
<1>8. answer \in Response(base, flast')
  BY <1>3, <1>4, <1>5, <1>6, SMTT(30) DEF Response
<1>. HIDE DEF answer
<1>. QED  BY <1>1, <1>6, <1>7, <1>8, ReplyPreserves, ZenonT(40)

\* Marks of one file after marks of the same file.
LEMMA ConcatSame ==
  ASSUME NEW S, NEW e \in S, NEW s \in Seq(S), \A k \in 1..Len(s) : s[k] = e, NEW size \in Nat
  PROVE  LET data == s \o [k \in 1..size |-> e]
         IN /\ data \in Seq(S)
            /\ Len(data) = Len(s) + size
            /\ \A k \in 1..Len(data) : data[k] = e
<1>. DEFINE chunk == [k \in 1..size |-> e]
            data == s \o chunk
<1>1. Len(s) \in Nat
  BY LenProperties
<1>2. chunk \in [1..size -> S] /\ \A k \in 1..size : chunk[k] = e
  OBVIOUS
<1>. HIDE DEF chunk
<1>3. chunk \in Seq(S)
  BY <1>2, SeqDef
<1>4. Len(chunk) = size
  BY <1>2, <1>3, LenProperties
<1>5. /\ data \in Seq(S) /\ Len(data) = Len(s) + size
      /\ \A k \in 1..(Len(s) + size) :
           data[k] = IF k <= Len(s) THEN s[k] ELSE chunk[k - Len(s)]
  BY <1>3, <1>4, ConcatProperties, SMTT(30)
<1>. HIDE DEF data
<1>6. ASSUME NEW k \in 1..Len(data)  PROVE data[k] = e
  <2>1. k \in 1..(Len(s) + size)
    BY <1>5
  <2>2. CASE k <= Len(s)
    BY <1>1, <1>5, <2>1, <2>2
  <2>3. CASE ~(k <= Len(s))
    <3>1. k - Len(s) \in 1..size
      BY <1>1, <2>1, <2>3
    <3>2. data[k] = chunk[k - Len(s)]
      BY <1>5, <2>1, <2>3
    <3>. QED  BY <1>2, <3>1, <3>2
  <2>. QED  BY <2>2, <2>3
<1>. QED  BY <1>5, <1>6 DEF data, chunk

\* A chunk that fits continues the file it is of.
LEMMA ChunkContinues ==
  ASSUME NEW s, Staged(s), NEW index \in 1..MaxIndex, NEW size \in Nat,
         s.index = index, Len(s.data) + size <= Length[index]
  PROVE  LET data == s.data \o [k \in 1..size |-> index]
         IN Len(data) \in Nat /\ Staged([s EXCEPT !.data = data])
<1>. DEFINE data == s.data \o [k \in 1..size |-> index]
            r == [s EXCEPT !.data = data]
<1>1. s \in [index : 0..MaxIndex, data : Seq(1..MaxIndex)] /\ s # NoIncoming
  BY TransferAssumption DEF Staged, NoIncoming
<1>2. s.data \in Seq(1..MaxIndex) /\ \A k \in 1..Len(s.data) : s.data[k] = index
  BY <1>1 DEF Staged
<1>3. Len(s.data) \in Nat
  BY <1>2, LenProperties, SMTT(30)
<1>4. /\ data \in Seq(1..MaxIndex) /\ Len(data) = Len(s.data) + size
      /\ \A k \in 1..Len(data) : data[k] = index
  BY <1>2, ConcatSame
<1>. HIDE DEF data
<1>5. r \in [index : 0..MaxIndex, data : Seq(1..MaxIndex)] /\ r.index = index /\ r.data = data
  BY <1>1, <1>4, ZenonT(40)
<1>. HIDE DEF r
<1>6. index # 0
  OBVIOUS
<1>7. Staged(r)
  BY <1>4, <1>5, <1>6, Zenon DEF Staged
<1>. QED  BY <1>3, <1>4, <1>7, SMTT(30) DEF r, data

\* handleInstallSnapshot stages chunks of one file, and reports a Snapshot as
\* installed only when the log reaches its index.
LEMMA InstallSnapshotPreserves ==
  ASSUME TransferInv, inbox # <<>>, HandleInstallSnapshot(Head(inbox))
  PROVE  TransferInv'
<1>. USE TransferAssumption
<1>. DEFINE m      == Head(inbox)
            staged == IF m.offset = 0 THEN [index |-> m.index, data |-> <<>>] ELSE incoming
            fits   == Fits(staged, m)
            data   == staged.data \o [k \in 1..m.size |-> m.index]
            whole  == fits /\ m.done /\ data = File(m.index)
            taken  == fits /\ (m.done => whole)
            answer == [type |-> "InstallSnapshotResponse", request |-> m.request,
                       index |-> m.index, success |-> taken,
                       nextOffset |-> IF taken THEN Len(data) ELSE 0, done |-> whole]
<1>1. /\ m.type = "InstallSnapshot"
      /\ incoming' = IF fits /\ m.done THEN NoIncoming
                     ELSE IF fits THEN [staged EXCEPT !.data = data]
                     ELSE staged
      /\ fbase' = IF whole THEN Larger(fbase, m.index) ELSE fbase
      /\ flast' = IF whole /\ m.index > fbase THEN Larger(flast, m.index) ELSE flast
      /\ Reply(answer)
  BY Zenon DEF HandleInstallSnapshot
<1>2. m \in Request(last, base)
  BY NextRequest
<1>3. /\ m.index \in 1..base /\ m.request \in Nat /\ m.offset \in Nat /\ m.size \in Nat
      /\ m.done \in BOOLEAN /\ m.offset + m.size <= Length[m.index]
  BY <1>1, <1>2, Zenon DEF Request
<1>. HIDE DEF m
<1>4. /\ m.index \in 1..MaxIndex /\ Length[m.index] \in Nat
      /\ flast \in 0..MaxIndex /\ fbase \in 0..flast
  BY <1>3 DEF TransferInv, LeaderInv, FollowerInv
<1>5. Staged(staged)
  <2>1. CASE m.offset = 0
    <3>. DEFINE s == [index |-> m.index, data |-> <<>>]
    <3>1. <<>> \in Seq(1..MaxIndex) /\ Len(<<>>) = 0
      BY EmptySeq
    <3>2. s \in [index : 0..MaxIndex, data : Seq(1..MaxIndex)] /\ s.index = m.index /\ s.data = <<>>
      BY <1>4, <3>1
    <3>. HIDE DEF s
    <3>3. Staged(s)
      BY <1>4, <3>1, <3>2 DEF Staged
    <3>. QED  BY <2>1, <3>3 DEF s
  <2>2. CASE m.offset # 0
    BY <2>2 DEF TransferInv, FollowerInv
  <2>. QED  BY <2>1, <2>2
<1>. HIDE DEF staged
<1>6. ASSUME fits  PROVE Len(data) \in Nat /\ Staged([staged EXCEPT !.data = data])
  <2>1. staged.index = m.index /\ m.offset = Len(staged.data)
    BY <1>6 DEF Fits
  <2>. QED  BY <1>3, <1>4, <1>5, <2>1, ChunkContinues, ZenonT(40)
<1>7. fits \in BOOLEAN /\ whole \in BOOLEAN /\ taken \in BOOLEAN /\ (taken => fits)
  BY DEF Fits
<1>. HIDE DEF fits, data
<1>8. Staged(NoIncoming)
  BY EmptySeq DEF Staged, NoIncoming
<1>9. Staged(incoming')
  BY <1>1, <1>5, <1>6, <1>8, Zenon
<1>. HIDE DEF whole
<1>10. /\ flast' \in 0..MaxIndex /\ flast <= flast' /\ fbase' \in 0..flast'
       /\ whole => m.index <= flast'
  BY <1>1, <1>4, <1>7, SMTT(30) DEF Larger
<1>11. FollowerInv'
  BY <1>9, <1>10 DEF FollowerInv, Staged, NoIncoming
<1>. HIDE DEF taken
<1>12. answer \in Response(base, flast')
  BY <1>3, <1>6, <1>7, <1>10, SMTT(30) DEF Response
<1>. HIDE DEF answer
<1>. QED  BY <1>1, <1>10, <1>11, <1>12, ReplyPreserves, SMTT(30)

\* The Follower compacts its log or restarts; its last index stays.
LEMMA FollowerAlonePreserves ==
  ASSUME TransferInv, CompactFollower \/ RestartFollower
  PROVE  TransferInv'
<1>. USE TransferAssumption
<1>0. /\ last' = last /\ base' = base /\ files' = files /\ capture' = capture
      /\ progress' = progress /\ cached' = cached /\ open' = open /\ stopped' = stopped
      /\ replies' = replies /\ flast' = flast
  BY DEF CompactFollower, RestartFollower, leaderVars, transportVars
<1>1. LeaderInv' /\ TransportInv'
  BY <1>0 DEF TransferInv, LeaderInv, TransportInv, NoReaderLeaks
<1>2. CASE CompactFollower
  <2>1. /\ fbase' \in (fbase + 1)..flast /\ incoming' = incoming
        /\ inbox' = inbox /\ faults' = faults
    BY <1>2 DEF CompactFollower
  <2>2. FollowerInv'
    BY <1>0, <2>1 DEF TransferInv, FollowerInv, Staged
  <2>3. QueueInv'
    BY <1>0, <2>1, SMTT(30) DEF TransferInv, QueueInv, MatchIsHeld
  <2>. QED  BY <1>1, <2>2, <2>3 DEF TransferInv
<1>3. CASE RestartFollower
  <2>1. /\ faults < MaxFaults /\ faults' = faults + 1 /\ incoming' = NoIncoming
        /\ inbox' = <<>> /\ fbase' = fbase
    BY <1>3 DEF RestartFollower
  <2>2. Staged(NoIncoming)
    BY EmptySeq, SMTT(30) DEF Staged, NoIncoming
  <2>3. FollowerInv'
    BY <1>0, <2>1, <2>2, SMTT(30) DEF TransferInv, FollowerInv, Staged, NoIncoming
  <2>4. <<>> \in Seq(Request(last, base)) /\ Len(<<>>) = 0
    BY EmptySeq
  <2>5. QueueInv'
    BY <1>0, <2>1, <2>4 DEF TransferInv, QueueInv, MatchIsHeld
  <2>. QED  BY <1>1, <2>3, <2>5 DEF TransferInv
<1>. QED  BY <1>2, <1>3, SMTT(30)

-----------------------------------------------------------------------------
(* The invariant *)

\* The invariant holds of a Leader that was just elected, whatever the Follower has.
LEMMA InitInv ==
  ASSUME TransferInit
  PROVE  TransferInv
<1>. USE TransferAssumption
<1>0. /\ last \in 1..MaxIndex /\ base \in 0..last
      /\ files = (IF base = 0 THEN {} ELSE {base}) /\ capture = 0
      /\ progress = [match |-> 0, next |-> last + 1, append |-> 0, snapshot |-> 0]
      /\ cached = 0 /\ open = {} /\ stopped = FALSE
      /\ replies = <<>> /\ inbox = <<>> /\ incoming = NoIncoming /\ faults = 0
      /\ flast \in 0..last
      /\ fbase \in 0..(IF MayOvertake THEN flast ELSE Smaller(base, flast))
  BY DEF TransferInit
<1>1. LeaderInv
  BY <1>0 DEF LeaderInv
<1>2. TransportInv
  <2>1. stopped \in BOOLEAN /\ (stopped => open = {})
    BY <1>0, Zenon
  <2>2. cached \in 0..MaxIndex
    BY <1>0
  <2>3. open \subseteq 1..MaxIndex /\ open \subseteq {cached}
    BY <1>0, Zenon
  <2>. QED  BY <2>1, <2>2, <2>3, Zenon DEF TransportInv, NoReaderLeaks
<1>3. FollowerInv
  <2>1. Staged(NoIncoming)
    BY EmptySeq DEF Staged, NoIncoming
  <2>2. flast \in 0..MaxIndex /\ fbase \in 0..flast
    BY <1>0 DEF Smaller
  <2>. QED  BY <1>0, <2>1, <2>2, SMTT(30) DEF FollowerInv
<1>4. QueueInv
  <2>1. /\ <<>> \in Seq(Request(last, base)) /\ <<>> \in Seq(Response(base, flast))
        /\ Len(<<>>) = 0
    BY EmptySeq
  <2>2. progress \in Progress /\ progress.match = 0
    BY <1>0, SMTT(30) DEF Progress
  <2>3. MatchIsHeld
    BY <1>0, <2>2 DEF MatchIsHeld
  <2>. QED  BY <1>0, <2>1, <2>2, <2>3, SMTT(30) DEF QueueInv
<1>. QED  BY <1>1, <1>2, <1>3, <1>4, ZenonT(40) DEF TransferInv

\* A step that changes nothing.
LEMMA StutterPreserves ==
  ASSUME TransferInv, UNCHANGED vars
  PROVE  TransferInv'
<1>1. /\ last' = last /\ base' = base /\ files' = files /\ capture' = capture
      /\ progress' = progress /\ cached' = cached /\ open' = open /\ stopped' = stopped
      /\ replies' = replies /\ flast' = flast /\ fbase' = fbase /\ incoming' = incoming
      /\ inbox' = inbox /\ faults' = faults
  BY DEF vars, leaderVars, transportVars, followerVars
<1>2. LeaderInv' /\ TransportInv'
  BY <1>1, SMTT(30) DEF TransferInv, LeaderInv, TransportInv, NoReaderLeaks
<1>3. FollowerInv' /\ QueueInv'
  BY <1>1 DEF TransferInv, FollowerInv, Staged, QueueInv, MatchIsHeld
<1>. QED  BY <1>2, <1>3 DEF TransferInv

\* Every iteration of either loop preserves the invariant.
LEMMA StepPreserves ==
  ASSUME TransferInv, [TransferNext]_vars
  PROVE  TransferInv'
<1>1. CASE HeartbeatRound
  BY <1>1, HeartbeatPreserves
<1>2. CASE Propose
  BY <1>2, ProposePreserves
<1>3. CASE LeaderReceive
  BY <1>3, AppendEntriesResponsePreserves, InstallSnapshotResponsePreserves, SMTT(30) DEF LeaderReceive
<1>4. CASE StartSnapshot \/ InstallSnapshot \/ FinishSnapshot
  BY <1>4, LocalSnapshotPreserves, SMTT(30)
<1>5. CASE CloseTransport
  BY <1>5, ClosePreserves
<1>6. CASE FollowerReceive
  BY <1>6, AppendEntriesPreserves, InstallSnapshotPreserves, SMTT(30) DEF FollowerReceive
<1>7. CASE CompactFollower \/ RestartFollower
  BY <1>7, FollowerAlonePreserves
<1>8. CASE UNCHANGED vars
  BY <1>8, StutterPreserves
<1>. QED  BY <1>1, <1>2, <1>3, <1>4, <1>5, <1>6, <1>7, <1>8, ZenonT(40) DEF TransferNext

\* Marks of one file are a prefix of any longer sequence of them.
LEMMA PrefixOfSame ==
  ASSUME NEW S, NEW e \in S, NEW s \in Seq(S), NEW file \in Seq(S), Len(s) <= Len(file),
         \A k \in 1..Len(s) : s[k] = e, \A k \in 1..Len(file) : file[k] = e
  PROVE  s = SubSeq(file, 1, Len(s))
<1>1. Len(s) \in Nat /\ Len(file) \in Nat
  BY LenProperties
<1>2. /\ SubSeq(file, 1, Len(s)) \in Seq(S)
      /\ Len(SubSeq(file, 1, Len(s))) = Len(s)
      /\ \A k \in 1..Len(s) : SubSeq(file, 1, Len(s))[k] = file[k]
  BY <1>1, SubSeqType
<1>3. \A k \in 1..Len(s) : s[k] = SubSeq(file, 1, Len(s))[k]
  BY <1>1, <1>2
<1>. QED  BY <1>2, <1>3, SeqEqual, SMTT(30)

\* What the invariant says of the staged chunks is StagedIsOneFile.
LEMMA StagedPrefix ==
  ASSUME FollowerInv
  PROVE  StagedIsOneFile
<1>. DEFINE index == incoming.index
            data  == incoming.data
            n     == Len(data)
            file  == File(index)
<1>1. SUFFICES ASSUME incoming # NoIncoming
               PROVE  data = SubSeq(file, 1, n)
  BY DEF StagedIsOneFile
<1>2. /\ incoming \in [index : 0..MaxIndex, data : Seq(1..MaxIndex)]
      /\ index # 0 /\ n <= Length[index] /\ \A k \in 1..n : data[k] = index
  BY <1>1, Zenon DEF FollowerInv, Staged
<1>3. index \in 1..MaxIndex /\ data \in Seq(1..MaxIndex)
  BY <1>2, TransferAssumption
<1>4. n \in Nat /\ Length[index] \in Nat
  BY <1>3, LenProperties, TransferAssumption
<1>5. file \in [1..Length[index] -> 1..MaxIndex] /\ \A k \in 1..Length[index] : file[k] = index
  BY <1>3, Zenon DEF File
<1>. HIDE DEF index, data, n, file
<1>6. file \in Seq(1..MaxIndex)
  BY <1>4, <1>5, SeqDef, Zenon
<1>7. Len(file) = Length[index]
  BY <1>4, <1>5, <1>6, LenProperties, SMTT(30)
<1>8. \A k \in 1..Len(file) : file[k] = index
  BY <1>5, <1>7
<1>9. n <= Len(file)
  BY <1>2, <1>7
<1>. QED  BY <1>2, <1>3, <1>6, <1>8, <1>9, PrefixOfSame, SMTT(30) DEF n

\* The inductive invariant holds in every state.
THEOREM TransferInvariant == TransferSpec => []TransferInv
<1>1. TransferInit => TransferInv
  BY InitInv
<1>2. TransferInv /\ [TransferNext]_vars => TransferInv'
  BY StepPreserves
<1>. QED  BY <1>1, <1>2, PTL DEF TransferSpec

\* Every variable keeps its type, and neither owner queue exceeds its capacity.
THEOREM TransferTypeCorrect == TransferSpec => []TransferTypeOK
<1>1. TransferInv => TransferTypeOK
  BY Zenon DEF TransferInv, LeaderInv, TransportInv, FollowerInv, QueueInv, Staged, Progress,
         TransferTypeOK
<1>. QED  BY <1>1, TransferInvariant, PTL

\* What the Leader counts as replicated is held by the Follower, whatever the
\* Snapshots, faults and restarts between a response and its arrival.
THEOREM MatchedIsHeld == TransferSpec => []MatchIsHeld
<1>1. TransferInv => MatchIsHeld
  BY DEF TransferInv, QueueInv
<1>. QED  BY <1>1, TransferInvariant, PTL

\* Chunks of two Snapshots are never assembled into one.
THEOREM OneFileIsStaged == TransferSpec => []StagedIsOneFile
<1>1. TransferInv => StagedIsOneFile
  BY StagedPrefix, SMTT(30) DEF TransferInv
<1>. QED  BY <1>1, TransferInvariant, PTL

\* The transport keeps no file open that is not its cached one, and none once
\* it is closed.
THEOREM ReadersAreClosed == TransferSpec => []NoReaderLeaks
<1>1. TransferInv => NoReaderLeaks
  BY DEF TransferInv, TransportInv
<1>. QED  BY <1>1, TransferInvariant, PTL

=============================================================================
