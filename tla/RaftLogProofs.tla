--------------------------- MODULE RaftLogProofs ---------------------------
(***************************************************************************)
(* Facts about the log arithmetic of RaftLog.                              *)
(***************************************************************************)
EXTENDS LogChains, TLAPS

-----------------------------------------------------------------------------
(* Sequences *)

\* The empty sequence is the one without entries.
LEMMA EmptySeq ==
  ASSUME NEW S
  PROVE  <<>> \in Seq(S) /\ \A s \in Seq(S) : s = <<>> <=> Len(s) = 0
OBVIOUS

\* A sequence is a function on the indexes up to its length.
LEMMA LenProperties ==
  ASSUME NEW S, NEW s \in Seq(S)
  PROVE  Len(s) \in Nat /\ DOMAIN s = 1..Len(s) /\ s \in [1..Len(s) -> S]
OBVIOUS

\* Its entries are of its element set.
LEMMA ElementOfSeq ==
  ASSUME NEW S, NEW s \in Seq(S), NEW k \in 1..Len(s)
  PROVE  s[k] \in S
OBVIOUS

\* Sequences with the same entries are equal.
LEMMA SeqEqual ==
  ASSUME NEW S, NEW s \in Seq(S), NEW t \in Seq(S), Len(s) = Len(t), \A k \in 1..Len(s) : s[k] = t[k]
  PROVE  s = t
OBVIOUS

\* What Append adds, and where.
LEMMA AppendProperties ==
  ASSUME NEW S, NEW s \in Seq(S), NEW e \in S
  PROVE  /\ Append(s, e) \in Seq(S)
         /\ Len(Append(s, e)) = Len(s) + 1
         /\ Append(s, e) # <<>>
         /\ Append(s, e)[Len(s) + 1] = e
         /\ \A k \in 1..Len(s) : Append(s, e)[k] = s[k]
OBVIOUS

\* Where the entries of a concatenation come from.
LEMMA ConcatProperties ==
  ASSUME NEW S, NEW s \in Seq(S), NEW t \in Seq(S)
  PROVE  /\ s \o t \in Seq(S)
         /\ Len(s \o t) = Len(s) + Len(t)
         /\ \A k \in 1..(Len(s) + Len(t)) : (s \o t)[k] = IF k <= Len(s) THEN s[k] ELSE t[k - Len(s)]
OBVIOUS

\* The empty sequence adds nothing.
LEMMA ConcatEmptySeq ==
  ASSUME NEW S, NEW s \in Seq(S)
  PROVE  s \o <<>> = s /\ <<>> \o s = s
OBVIOUS

\* All of a sequence is the sequence.
LEMMA SubSeqFull ==
  ASSUME NEW S, NEW s \in Seq(S)
  PROVE  SubSeq(s, 1, Len(s)) = s
OBVIOUS

-----------------------------------------------------------------------------
(* Least and greatest elements *)

\* A term or an index that stays is not exceeded.
LEMMA NotAboveItself == \A n \in Nat : n >= n /\ ~(n > n)
OBVIOUS

\* A number that is larger than another is at least as large, and the larger one.
LEMMA Above == \A a, b \in Nat : a > b => a >= b /\ a # b /\ Larger(b, a) = a
BY DEF Larger

\* One that is not smaller is at least as large.
LEMMA NotBelow == \A a, b \in Nat : ~(a < b) => a >= b
OBVIOUS

\* An index of a range that starts above c.
LEMMA InRange ==
  ASSUME NEW c \in Nat, NEW l \in Nat, NEW n \in (c + 1)..l
  PROVE  n > c /\ n > 0 /\ n <= l /\ \A a \in Nat : a <= c => n > a
OBVIOUS

\* The next number is larger.
LEMMA Successor == \A n \in Nat : n + 1 \in Nat /\ n + 1 > n
OBVIOUS

\* The larger of two numbers is a number that neither exceeds.
LEMMA LargerBounds ==
  \A a, b \in Nat : Larger(a, b) \in Nat /\ Larger(a, b) >= a /\ a <= Larger(a, b) /\ b <= Larger(a, b)
BY DEF Larger

\* The smaller of two numbers does not exceed the second.
LEMMA SmallerInRange == \A a, b \in Nat : Smaller(a, b) \in 0..b
BY DEF Smaller

\* A number is not larger than itself.
LEMMA Reflexive == \A a \in Nat : a <= a
OBVIOUS

\* What does not exceed a number that does not exceed another does not exceed that one.
LEMMA Transitive ==
  ASSUME NEW a \in Nat, NEW b \in Nat, NEW c \in Nat, a <= b, b <= c
  PROVE  a <= c
OBVIOUS

\* An index that stays or moves up a range.
LEMMA StaysOrRises ==
  ASSUME NEW c \in Nat, NEW l \in Nat, NEW n, n = c \/ n \in (c + 1)..l
  PROVE  n \in Nat /\ n >= c
OBVIOUS

\* A range that holds a number ends above its start.
LEMMA RangeEnds == \A c, l \in Nat : (\E k \in (c + 1)..l : TRUE) => l > c
OBVIOUS

\* Of two numbers one is not larger than the other.
LEMMA Comparable == \A a, b \in Nat : /\ a <= b \/ a > b
                                     /\ ~(a <= b /\ a > b)
                                     /\ a > b => a # 0
OBVIOUS

\* The term of an entry behind the Snapshot is the one the log holds.
LEMMA TermAtInside ==
  ASSUME NEW entries, NEW b \in Nat, NEW n \in Nat, Len(entries) \in Nat, n > b, n <= Len(entries)
  PROVE  TermAt(entries, b, n) = entries[n].term
BY DEF TermAt

\* A position in a log of length l, or none.
LEMMA PositionRange ==
  ASSUME NEW l \in Nat, NEW n \in 0..l
  PROVE  n \in Nat /\ n \in Int /\ n <= l /\ (n # 0 => n \in 1..(l + 1))
OBVIOUS

\* A position is a number.
LEMMA PositionIsNat == \A l \in Nat : 1..(l + 1) \subseteq Nat
OBVIOUS

\* Every non-empty set of natural numbers has a least element, which Min denotes.
LEMMA MinIsLeast ==
  ASSUME LeastElements, NEW S \in SUBSET Nat, S # {}
  PROVE  /\ Min(S) \in S
         /\ \A y \in S : Min(S) <= y
<1>1. PICK x \in S : \A y \in S : x <= y
  BY Zenon DEF LeastElements
<1>. QED  BY <1>1, Zenon DEF Min

\* Every non-empty set of natural numbers with an upper bound has a greatest
\* element, which Max denotes.
LEMMA MaxIsGreatest ==
  ASSUME LeastElements, NEW S \in SUBSET Nat, S # {}, NEW n \in Nat, \A y \in S : y <= n
  PROVE  /\ Max(S) \in S
         /\ \A y \in S : Max(S) >= y
<1>. DEFINE above == {u \in Nat : \A y \in S : y <= u}
<1>1. above # {}  OBVIOUS
<1>2. /\ Min(above) \in above
      /\ \A u \in above : Min(above) <= u
  BY <1>1, MinIsLeast
<1>3. Min(above) \in S
  <2>. SUFFICES ASSUME Min(above) \notin S  PROVE FALSE
    OBVIOUS
  <2>1. \A y \in S : y < Min(above)
    BY <1>2
  <2>2. Min(above) \in Nat
    BY <1>2
  <2>3. PICK y \in S : y \in Nat
    BY Zenon
  <2>4. Min(above) > 0
    BY <2>1, <2>2, <2>3
  <2>5. Min(above) - 1 \in above
    BY <2>1, <2>2, <2>4
  <2>. QED  BY <1>2, <2>2, <2>5
<1>. QED  BY <1>2, <1>3, Zenon DEF Max

\* A part of a sequence is a sequence of the same entries.
LEMMA SubSeqType ==
  ASSUME NEW S, NEW s \in Seq(S), NEW m \in Nat \ {0}, NEW n \in Int, n <= Len(s)
  PROVE  /\ SubSeq(s, m, n) \in Seq(S)
         /\ Len(SubSeq(s, m, n)) = IF m <= n THEN n - m + 1 ELSE 0
         /\ \A k \in 1..(n - m + 1) : SubSeq(s, m, n)[k] = s[m + k - 1]
OBVIOUS

-----------------------------------------------------------------------------
(* Types of the helpers, for any set of entries that carry a term. *)

\* termAt returns a term: of an entry, or 0.
LEMMA TermAtType ==
  ASSUME NEW S, \A e \in S : e.term \in Nat,
         NEW log \in Seq(S), NEW base \in Nat, NEW index \in Nat
  PROVE  TermAt(log, base, index) \in Nat
<1>1. CASE index = 0 \/ index < base \/ index > Len(log)
  BY <1>1 DEF TermAt
<1>2. CASE ~(index = 0 \/ index < base \/ index > Len(log))
  <2>1. index \in 1..Len(log)
    BY <1>2, LenProperties
  <2>2. log[index] \in S
    BY <2>1, ElementOfSeq
  <2>. QED  BY <1>2, <2>2 DEF TermAt
<1>. QED  BY <1>1, <1>2

\* The last log term is a term.
LEMMA LastLogTermType ==
  ASSUME NEW S, \A e \in S : e.term \in Nat, NEW log \in Seq(S)
  PROVE  LastLogTerm(log) \in Nat
<1>1. CASE log = <<>>
  BY <1>1 DEF LastLogTerm
<1>2. CASE log # <<>>
  <2>1. Len(log) \in 1..Len(log)
    BY <1>2, EmptySeq, LenProperties
  <2>2. log[Len(log)] \in S
    BY <2>1, ElementOfSeq
  <2>. QED  BY <1>2, <2>2 DEF LastLogTerm
<1>. QED  BY <1>1, <1>2

\* A prefix is a log of the same entries.
LEMMA PrefixType ==
  ASSUME NEW S, NEW log \in Seq(S), NEW n \in Nat
  PROVE  /\ Prefix(log, n) \in Seq(S)
         /\ Len(Prefix(log, n)) = Smaller(n, Len(log))
         /\ \A k \in 1..Smaller(n, Len(log)) : Prefix(log, n)[k] = log[k]
<1>1. Len(log) \in Nat
  BY LenProperties
<1>2. Smaller(n, Len(log)) \in Nat /\ Smaller(n, Len(log)) <= Len(log)
  BY <1>1 DEF Smaller
<1>. QED  BY <1>1, <1>2, SubSeqType DEF Prefix

\* A truncated log is the log up to the entry before firstIndex.
LEMMA TruncateLogType ==
  ASSUME NEW S, NEW log \in Seq(S), NEW firstIndex \in 1..(Len(log) + 1)
  PROVE  /\ TruncateLog(log, firstIndex) \in Seq(S)
         /\ Len(TruncateLog(log, firstIndex)) = firstIndex - 1
         /\ \A k \in 1..(firstIndex - 1) : TruncateLog(log, firstIndex)[k] = log[k]
<1>1. Len(log) \in Nat
  BY LenProperties
<1>2. firstIndex - 1 \in Nat /\ firstIndex - 1 <= Len(log)
  BY <1>1
<1>. QED  BY <1>1, <1>2, SubSeqType DEF TruncateLog

\* A request carries a part of the log.
LEMMA EntriesBatchType ==
  ASSUME NEW S, NEW log \in Seq(S), NEW first \in Nat \ {0}
  PROVE  EntriesBatch(log, first) \in Seq(S)
<1>1. Len(log) \in Nat
  BY LenProperties
<1>. DEFINE n == Smaller(Len(log), first + MaxBatch - 1)
<1>2. n \in Int /\ n <= Len(log)
  BY <1>1, MaxBatchAssumption DEF Smaller
<1>. QED  BY <1>2, SubSeqType DEF EntriesBatch

\* A conflict hint is a term and an index of the log or the one after it.
LEMMA ConflictHintType ==
  ASSUME LeastElements, NEW S, \A e \in S : e.term \in Nat,
         NEW log \in Seq(S), NEW base \in Nat, NEW index \in Nat
  PROVE  ConflictHint(log, base, index) \in [term : Nat, index : 1..(Len(log) + 1)]
<1>1. Len(log) \in Nat
  BY LenProperties
<1>2. CASE index = 0 \/ index > Len(log)
  BY <1>1, <1>2 DEF ConflictHint
<1>3. CASE ~(index = 0 \/ index > Len(log))
  <2>. DEFINE t == TermAt(log, base, index)
              run == {k \in 1..index :
                        \A x \in k..(index - 1) : x > base /\ TermAt(log, base, x) = t}
  <2>1. t \in Nat
    BY TermAtType, Zenon
  <2>2. run \in SUBSET Nat /\ index \in run
    BY <1>3
  <2>3. Min(run) \in run
    BY <2>2, MinIsLeast, Zenon
  <2>4. Min(run) \in 1..(Len(log) + 1)
    BY <1>1, <1>3, <2>3
  <2>. HIDE DEF run, t
  <2>5. ConflictHint(log, base, index) = [term |-> t, index |-> Min(run)]
    BY <1>3 DEF ConflictHint, run, t
  <2>. QED  BY <2>1, <2>4, <2>5
<1>. QED  BY <1>2, <1>3

\* After a conflict a Leader resumes at an index of its log or the one after it.
LEMMA NextIndexFromConflictType ==
  ASSUME LeastElements, NEW S, NEW log \in Seq(S), NEW base \in Nat,
         NEW conflictTerm \in Nat, NEW conflictIndex \in Nat
  PROVE  NextIndexFromConflict(log, base, conflictTerm, conflictIndex) \in 1..(Len(log) + 1)
<1>1. Len(log) \in Nat
  BY LenProperties
<1>. DEFINE own == {k \in 1..Len(log) : TermAt(log, base, k) = conflictTerm}
            next == IF conflictTerm # 0 /\ own # {} THEN Max(own) + 1 ELSE conflictIndex
<1>2. next \in Nat
  <2>1. ASSUME own # {}  PROVE Max(own) \in Nat
    <3>1. own \in SUBSET Nat /\ \A k \in own : k <= Len(log)
      BY <1>1
    <3>2. Max(own) \in own
      BY <1>1, <2>1, <3>1, MaxIsGreatest, Zenon
    <3>. QED  BY <3>1, <3>2
  <2>. QED  BY <2>1
<1>. HIDE DEF next
<1>3. NextIndexFromConflict(log, base, conflictTerm, conflictIndex)
        = Smaller(Larger(next, 1), Len(log) + 1)
  BY DEF NextIndexFromConflict, next
<1>. QED  BY <1>1, <1>2, <1>3 DEF Smaller, Larger

\* What a Follower appends is part of the request, and it cuts its own log, if at
\* all, at one of its entries that is not committed.
LEMMA EntriesToAppendType ==
  ASSUME LeastElements, NEW S, NEW log \in Seq(S), NEW base \in Nat, NEW commitIndex \in Nat,
         NEW prevIndex \in Nat, NEW entries \in Seq(S)
  PROVE  LET add == EntriesToAppend(log, base, commitIndex, prevIndex, entries)
         IN /\ add \in [ok : BOOLEAN, truncateFrom : 0..Len(log), entries : Seq(S)]
            /\ add.ok /\ add.truncateFrom # 0 => add.truncateFrom > commitIndex
<1>1. Len(log) \in Nat /\ Len(entries) \in Nat
  BY LenProperties
<1>. DEFINE fresh == {k \in 1..Len(entries) :
                        \/ prevIndex + k > Len(log)
                        \/ TermAt(log, base, prevIndex + k) # entries[k].term}
            add == EntriesToAppend(log, base, commitIndex, prevIndex, entries)
<1>2. CASE fresh = {}
  <2>1. add = [ok |-> TRUE, truncateFrom |-> 0, entries |-> <<>>]
    BY <1>2 DEF EntriesToAppend
  <2>. QED  BY <1>1, <2>1, EmptySeq
<1>3. CASE fresh # {}
  <2>. DEFINE first == Min(fresh)
              index == prevIndex + first
              rest == SubSeq(entries, first, Len(entries))
              cut == IF index > Len(log) THEN 0 ELSE index
  <2>1. fresh \in SUBSET Nat
    BY <1>1
  <2>2. first \in fresh
    BY <1>3, <2>1, MinIsLeast, Zenon
  <2>3. first \in Nat \ {0}
    BY <1>1, <2>2
  <2>4. rest \in Seq(S)
    <3>. HIDE DEF first
    <3>1. Len(entries) \in Int /\ Len(entries) <= Len(entries)
      BY <1>1
    <3>. QED  BY <2>3, <3>1, SubSeqType
  <2>5. add = [ok |-> index > Len(log) \/ index > commitIndex,
               truncateFrom |-> cut, entries |-> rest]
    BY <1>3 DEF EntriesToAppend
  <2>6. index \in Nat \ {0}
    BY <2>3
  <2>. HIDE DEF first, index, rest, add
  <2>7. cut \in 0..Len(log)
    BY <1>1, <2>6
  <2>8. (index > Len(log) \/ index > commitIndex) /\ cut # 0 => cut > commitIndex
    BY <1>1, <2>6
  <2>. HIDE DEF cut
  <2>9. add \in [ok : BOOLEAN, truncateFrom : 0..Len(log), entries : Seq(S)]
    BY <2>4, <2>5, <2>7
  <2>10. add.ok /\ add.truncateFrom # 0 => add.truncateFrom > commitIndex
    BY <2>5, <2>8, Zenon
  <2>. QED  BY <2>9, <2>10 DEF add
<1>. QED  BY <1>2, <1>3

-----------------------------------------------------------------------------
(* Chains *)

\* What begins with c begins with whatever c begins with.
LEMMA StartsWithTrans ==
  ASSUME NEW S, NEW s \in Seq(S), NEW t \in Seq(S), NEW u \in Seq(S),
         StartsWith(s, t), StartsWith(t, u)
  PROVE  StartsWith(s, u)
<1>1. Len(s) \in Nat /\ Len(t) \in Nat /\ Len(u) \in Nat
  BY LenProperties
<1>. QED  BY <1>1 DEF StartsWith

\* Two prefixes of one log: the longer begins with the shorter.
LEMMA PrefixesCompare ==
  ASSUME NEW S, NEW s \in Seq(S), NEW t \in Seq(S), NEW u \in Seq(S),
         StartsWith(s, t), StartsWith(s, u)
  PROVE  Len(u) <= Len(t) => StartsWith(t, u)
<1>1. Len(s) \in Nat /\ Len(t) \in Nat /\ Len(u) \in Nat
  BY LenProperties
<1>. QED  BY <1>1 DEF StartsWith

\* The first k entries of a log.
LEMMA FirstEntries ==
  ASSUME NEW S, NEW s \in Seq(S), NEW k \in 0..Len(s)
  PROVE  /\ SubSeq(s, 1, k) \in Seq(S)
         /\ Len(SubSeq(s, 1, k)) = k
         /\ \A x \in 1..k : SubSeq(s, 1, k)[x] = s[x]
         /\ StartsWith(s, SubSeq(s, 1, k))
         /\ k > 0 => LastLogTerm(SubSeq(s, 1, k)) = s[k].term
<1>1. Len(s) \in Nat /\ k \in Nat /\ k \in Int /\ k <= Len(s) /\ 1 \in Nat \ {0}
  BY LenProperties
<1>2. /\ SubSeq(s, 1, k) \in Seq(S)
      /\ Len(SubSeq(s, 1, k)) = IF 1 <= k THEN k - 1 + 1 ELSE 0
      /\ \A x \in 1..(k - 1 + 1) : SubSeq(s, 1, k)[x] = s[1 + x - 1]
  BY <1>1, SubSeqType
<1>3. Len(SubSeq(s, 1, k)) = k /\ \A x \in 1..k : SubSeq(s, 1, k)[x] = s[x]
  BY <1>1, <1>2
<1>4. k > 0 => SubSeq(s, 1, k) # <<>>
  BY <1>1, <1>3, EmptySeq
<1>. QED  BY <1>1, <1>2, <1>3, <1>4 DEF StartsWith, LastLogTerm

\* Logs with the same first k entries have the same prefix of that length.
LEMMA SamePrefix ==
  ASSUME NEW S, NEW s \in Seq(S), NEW t \in Seq(S), NEW k \in Nat,
         k <= Len(s), k <= Len(t), \A x \in 1..k : s[x] = t[x]
  PROVE  SubSeq(s, 1, k) = SubSeq(t, 1, k)
<1>1. k \in 0..Len(s) /\ k \in 0..Len(t)
  BY LenProperties
<1>. DEFINE a == SubSeq(s, 1, k)
            b == SubSeq(t, 1, k)
<1>2. /\ a \in Seq(S) /\ Len(a) = k /\ \A x \in 1..k : a[x] = s[x]
      /\ b \in Seq(S) /\ Len(b) = k /\ \A x \in 1..k : b[x] = t[x]
  BY <1>1, FirstEntries
<1>. HIDE DEF a, b
<1>3. a = b
  <2>1. Len(a) = Len(b) /\ \A x \in 1..Len(a) : a[x] = b[x]
    BY <1>2
  <2>. QED  BY <1>2, <2>1, SeqEqual, Zenon
<1>. QED  BY <1>3, Zenon DEF a, b

\* A log is its longest prefix.
LEMMA WholePrefix ==
  ASSUME NEW S, NEW s \in Seq(S), NEW c \in Seq(S), StartsWith(s, c), Len(c) = Len(s)
  PROVE  c = s
<1>1. Len(s) \in Nat /\ \A x \in 1..Len(c) : c[x] = s[x]
  BY LenProperties DEF StartsWith
<1>. QED  BY <1>1, SeqEqual

\* A chain that a log begins with is one of its prefixes.
LEMMA ChainIsPrefix ==
  ASSUME NEW S, NEW s \in Seq(S), NEW c \in Seq(S), StartsWith(s, c)
  PROVE  c = SubSeq(s, 1, Len(c))
<1>1. Len(c) \in Nat /\ Len(c) \in 0..Len(s) /\ Len(s) \in Nat
  BY LenProperties DEF StartsWith
<1>. DEFINE a == SubSeq(s, 1, Len(c))
<1>2. a \in Seq(S) /\ Len(a) = Len(c) /\ \A x \in 1..Len(c) : a[x] = s[x]
  BY <1>1, FirstEntries
<1>. HIDE DEF a
<1>3. \A x \in 1..Len(c) : c[x] = a[x]
  BY <1>2 DEF StartsWith
<1>4. c = a
  BY <1>2, <1>3, SeqEqual
<1>. QED  BY <1>4 DEF a

\* Prefixes of a rooted log are rooted.
LEMMA RootedPrefix ==
  ASSUME NEW S, NEW C, NEW s \in Seq(S), NEW t \in Seq(S), StartsWith(s, t), Rooted(s, C)
  PROVE  Rooted(t, C)
<1>. SUFFICES ASSUME NEW k \in 1..Len(t)  PROVE SubSeq(t, 1, k) \in C
  BY DEF Rooted
<1>1. Len(s) \in Nat /\ Len(t) \in Nat
  BY LenProperties
<1>2. /\ k \in Nat /\ k <= Len(s) /\ k <= Len(t) /\ k \in 1..Len(s)
      /\ \A x \in 1..k : s[x] = t[x]
  BY <1>1 DEF StartsWith
<1>3. SubSeq(s, 1, k) = SubSeq(t, 1, k)
  BY <1>2, SamePrefix
<1>4. SubSeq(s, 1, k) \in C
  BY <1>2 DEF Rooted
<1>. QED  BY <1>3, <1>4, Zenon

\* More chains root at least as much.
LEMMA RootedMore ==
  ASSUME NEW C, NEW D, C \subseteq D, NEW s, Rooted(s, C)
  PROVE  Rooted(s, D)
BY DEF Rooted

\* A rooted log that is not empty is a chain.
LEMMA RootedIsChain ==
  ASSUME NEW S, NEW C, NEW s \in Seq(S), Rooted(s, C), s # <<>>
  PROVE  s \in C
<1>1. Len(s) \in 1..Len(s)
  BY EmptySeq
<1>2. SubSeq(s, 1, Len(s)) \in C
  BY <1>1, Zenon DEF Rooted
<1>. QED  BY <1>2, SubSeqFull, Zenon

\* Logs that hold an entry of one term at one index are equal up to it.
LEMMA RootedAgree ==
  ASSUME NEW S, NEW C \in SUBSET Seq(S), ChainsOK(C),
         NEW s \in Seq(S), NEW t \in Seq(S), Rooted(s, C), Rooted(t, C),
         NEW k \in 1..Len(s), k <= Len(t), s[k].term = t[k].term
  PROVE  \A x \in 1..k : s[x] = t[x]
<1>1. Len(s) \in Nat /\ Len(t) \in Nat
  BY LenProperties
<1>2. k \in 0..Len(s) /\ k \in 0..Len(t) /\ k \in 1..Len(t) /\ k > 0 /\ k \in Nat
  BY <1>1
<1>. DEFINE c == SubSeq(s, 1, k)
            d == SubSeq(t, 1, k)
<1>3. /\ c \in C /\ Len(c) = k /\ (\A x \in 1..k : c[x] = s[x]) /\ LastLogTerm(c) = s[k].term
      /\ d \in C /\ Len(d) = k /\ (\A x \in 1..k : d[x] = t[x]) /\ LastLogTerm(d) = t[k].term
  BY <1>2, FirstEntries DEF Rooted
<1>. HIDE DEF c, d
<1>4. LastLogTerm(c) = LastLogTerm(d) /\ Len(c) <= Len(d)
  BY <1>2, <1>3
<1>5. StartsWith(d, c)
  BY <1>3, <1>4, Zenon DEF ChainsOK
<1>. QED  BY <1>3, <1>5 DEF StartsWith

\* Terms are at least 1 and never fall along a rooted log.
LEMMA RootedAscends ==
  ASSUME NEW S, NEW C \in SUBSET Seq(S), ChainsOK(C),
         NEW s \in Seq(S), Rooted(s, C), NEW k \in 1..Len(s)
  PROVE  1 <= s[k].term /\ \A x \in 1..k : s[x].term <= s[k].term
<1>1. Len(s) \in Nat /\ k \in 0..Len(s) /\ k > 0
  BY LenProperties
<1>. DEFINE c == SubSeq(s, 1, k)
<1>2. c \in C /\ Len(c) = k /\ (\A x \in 1..k : c[x] = s[x]) /\ LastLogTerm(c) = s[k].term
  BY <1>1, FirstEntries DEF Rooted
<1>. HIDE DEF c
<1>3. \A x \in 1..Len(c) : 1 <= c[x].term /\ c[x].term <= LastLogTerm(c)
  BY <1>2, Zenon DEF ChainsOK
<1>. QED  BY <1>1, <1>2, <1>3

\* The chains of one term compare.
LEMMA ChainsCompare ==
  ASSUME NEW S, NEW C \in SUBSET Seq(S), ChainsOK(C), NEW c \in C, NEW d \in C,
         LastLogTerm(c) = LastLogTerm(d)
  PROVE  StartsWith(c, d) \/ StartsWith(d, c)
<1>1. Len(c) \in Nat /\ Len(d) \in Nat
  BY LenProperties
<1>2. Len(c) <= Len(d) \/ Len(d) <= Len(c)
  BY <1>1
<1>. QED  BY <1>2, Zenon DEF ChainsOK

\* The log n extends s to the longest chain of term t in D.
ExtendsChains(n, s, D, t) ==
  /\ LastLogTerm(n) = t
  /\ StartsWith(n, s)
  /\ Rooted(n, D)
  /\ ChainsOK(D)
  /\ \A c \in D : LastLogTerm(c) = t => StartsWith(n, c)

\* A Leader of term t whose log holds every chain of its term makes a chain by
\* appending an entry.
LEMMA AppendedChain ==
  ASSUME NEW S, \A e \in S : e.term \in Nat, NEW C \in SUBSET Seq(S), ChainsOK(C),
         NEW s \in Seq(S), Rooted(s, C), NEW e \in S, e.term >= 1,
         \A k \in 1..Len(s) : s[k].term <= e.term,
         \A c \in C : LastLogTerm(c) = e.term => StartsWith(s, c)
  PROVE  /\ Append(s, e) \in Seq(S)
         /\ ExtendsChains(Append(s, e), s, C \cup {Append(s, e)}, e.term)
<1>. DEFINE n == Append(s, e)
            D == C \cup {n}
<1>1. /\ n \in Seq(S) /\ Len(n) = Len(s) + 1
      /\ \A x \in 1..Len(s) : n[x] = s[x]
      /\ n[Len(s) + 1] = e
      /\ Len(s) \in Nat
  BY AppendProperties, LenProperties
<1>. HIDE DEF n
<1>2. n # <<>> /\ LastLogTerm(n) = e.term
  BY <1>1, EmptySeq DEF LastLogTerm
<1>3. StartsWith(n, s)
  BY <1>1 DEF StartsWith
<1>4. Rooted(n, D)
  <2>. SUFFICES ASSUME NEW k \in 1..Len(n)  PROVE SubSeq(n, 1, k) \in D
    BY DEF Rooted
  <2>1. CASE k = Len(n)
    BY <1>1, <2>1, SubSeqFull
  <2>2. CASE k # Len(n)
    <3>1. k \in 1..Len(s) /\ k \in Nat /\ k <= Len(s) /\ k <= Len(n)
      BY <1>1, <2>2
    <3>2. \A x \in 1..k : s[x] = n[x]
      BY <1>1, <3>1
    <3>3. SubSeq(s, 1, k) = SubSeq(n, 1, k)
      BY <1>1, <3>1, <3>2, SamePrefix
    <3>. QED  BY <3>1, <3>3, Zenon DEF Rooted
  <2>. QED  BY <2>1, <2>2
<1>5. \A c \in C : Rooted(c, D) /\ c \in Seq(S)
  BY DEF ChainsOK, Rooted
<1>6. \A x \in 1..Len(n) : 1 <= n[x].term /\ n[x].term <= LastLogTerm(n)
  <2>1. \A x \in 1..Len(s) : 1 <= s[x].term
    BY RootedAscends
  <2>2. e.term \in Nat
    OBVIOUS
  <2>. QED  BY <1>1, <1>2, <2>1, <2>2, SMTT(30)
<1>7. ASSUME NEW c \in C, LastLogTerm(c) = e.term  PROVE StartsWith(n, c) /\ Len(c) < Len(n)
  <2>1. StartsWith(s, c) /\ c \in Seq(S) /\ Len(c) \in Nat
    BY <1>7, LenProperties
  <2>2. StartsWith(n, c)
    BY <1>1, <1>3, <2>1, StartsWithTrans
  <2>. QED  BY <1>1, <2>1, <2>2 DEF StartsWith
<1>8. StartsWith(n, n)
  BY <1>1 DEF StartsWith
<1>9. ASSUME NEW c \in D, NEW d \in D, LastLogTerm(c) = LastLogTerm(d), Len(c) <= Len(d)
      PROVE  StartsWith(d, c)
  <2>1. CASE c \in C /\ d \in C
    BY <1>9, <2>1, Zenon DEF ChainsOK
  <2>2. CASE d = n
    BY <1>2, <1>7, <1>8, <1>9, <2>2
  <2>3. CASE d \in C /\ c = n
    <3>1. Len(d) < Len(n) /\ d \in Seq(S)
      BY <1>2, <1>7, <1>9, <2>3
    <3>. QED  BY <1>1, <1>9, <2>3, <3>1, LenProperties
  <2>. QED  BY <2>1, <2>2, <2>3
<1>10. ChainsOK(D)
  <2>1. \A c \in C : c # <<>> /\ \A x \in 1..Len(c) : 1 <= c[x].term /\ c[x].term <= LastLogTerm(c)
    BY DEF ChainsOK
  <2>2. \A c \in D : /\ c # <<>>
                     /\ Rooted(c, D)
                     /\ \A x \in 1..Len(c) : 1 <= c[x].term /\ c[x].term <= LastLogTerm(c)
    BY <1>2, <1>4, <1>5, <1>6, <2>1, Zenon
  <2>. QED  BY <1>9, <2>2, Zenon DEF ChainsOK
<1>11. \A c \in D : LastLogTerm(c) = e.term => StartsWith(n, c)
  BY <1>7, <1>8
<1>12. ExtendsChains(n, s, D, e.term)
  BY <1>2, <1>3, <1>4, <1>10, <1>11, Zenon DEF ExtendsChains
<1>. QED  BY <1>1, <1>12 DEF n

\* A log that begins with f is f followed by the rest of the log.
LEMMA PrefixRestored ==
  ASSUME NEW S, NEW s \in Seq(S), NEW f \in Seq(S), StartsWith(s, f)
  PROVE  f \o SubSeq(s, Len(f) + 1, Len(s)) = s
<1>1. Len(f) \in Nat /\ Len(s) \in Nat /\ Len(f) <= Len(s)
  BY LenProperties DEF StartsWith
<1>. DEFINE r == SubSeq(s, Len(f) + 1, Len(s))
<1>2. /\ r \in Seq(S) /\ Len(r) = Len(s) - Len(f)
      /\ \A x \in 1..(Len(s) - Len(f)) : r[x] = s[Len(f) + x]
  <2>1. Len(f) + 1 \in Nat \ {0} /\ Len(s) \in Int /\ Len(s) <= Len(s)
    BY <1>1
  <2>2. /\ r \in Seq(S)
        /\ Len(r) = IF Len(f) + 1 <= Len(s) THEN Len(s) - (Len(f) + 1) + 1 ELSE 0
        /\ \A x \in 1..(Len(s) - (Len(f) + 1) + 1) : r[x] = s[Len(f) + 1 + x - 1]
    BY <2>1, SubSeqType
  <2>. QED  BY <1>1, <2>2
<1>. HIDE DEF r
<1>. DEFINE w == f \o r
<1>3. /\ w \in Seq(S) /\ Len(w) = Len(f) + Len(r)
      /\ \A x \in 1..(Len(f) + Len(r)) : w[x] = IF x <= Len(f) THEN f[x] ELSE r[x - Len(f)]
  BY <1>2, ConcatProperties
<1>. HIDE DEF w
<1>4. Len(w) = Len(s)
  BY <1>1, <1>2, <1>3
<1>5. ASSUME NEW x \in 1..Len(w)  PROVE w[x] = s[x]
  <2>1. CASE x <= Len(f)
    BY <1>1, <1>2, <1>3, <2>1 DEF StartsWith
  <2>2. CASE x > Len(f)
    <3>1. x - Len(f) \in 1..(Len(s) - Len(f)) /\ Len(f) + (x - Len(f)) = x
      BY <1>1, <1>4, <2>2
    <3>2. r[x - Len(f)] = s[x]
      BY <1>2, <3>1
    <3>. QED  BY <1>1, <1>2, <1>3, <2>2, <3>2
  <2>. QED  BY <1>1, <2>1, <2>2
<1>6. w = s
  BY <1>3, <1>4, <1>5, SeqEqual, Zenon
<1>. QED  BY <1>6, Zenon DEF w, r

\* A rooted log whose entry at the end of a rooted f has f's last term holds f.
LEMMA BoundaryMatches ==
  ASSUME NEW S, NEW C \in SUBSET Seq(S), ChainsOK(C),
         NEW s \in Seq(S), NEW f \in Seq(S), Rooted(s, C), Rooted(f, C),
         NEW b \in Nat, Len(f) <= Len(s), TermAt(s, b, Len(f)) = LastLogTerm(f)
  PROVE  StartsWith(s, f)
<1>1. Len(s) \in Nat /\ Len(f) \in Nat
  BY LenProperties
<1>2. CASE f = <<>>
  BY <1>1, <1>2 DEF StartsWith
<1>3. CASE f # <<>>
  <2>1. Len(f) \in 1..Len(f) /\ Len(f) # 0 /\ LastLogTerm(f) = f[Len(f)].term
    BY <1>1, <1>3, EmptySeq DEF LastLogTerm
  <2>2. 1 <= f[Len(f)].term
    BY <2>1, RootedAscends
  <2>3. f[Len(f)].term = s[Len(f)].term
    BY <1>1, <2>1, <2>2 DEF TermAt
  <2>4. \A x \in 1..Len(f) : f[x] = s[x]
    BY <2>1, <2>3, RootedAgree
  <2>. QED  BY <2>4 DEF StartsWith
<1>. QED  BY <1>2, <1>3

\* The same for the match a Follower requires of a Leader's request, whose
\* prevTerm is the term of the Leader's chain s at prevIndex.
LEMMA PrevAgrees ==
  ASSUME NEW S, NEW C \in SUBSET Seq(S), ChainsOK(C),
         NEW l \in Seq(S), NEW s \in Seq(S), Rooted(l, C), Rooted(s, C),
         NEW b \in Nat, NEW prev \in Nat, prev <= Len(s),
         Matches(l, b, prev, IF prev = 0 THEN 0 ELSE s[prev].term)
  PROVE  prev <= Len(l) /\ \A x \in 1..prev : l[x] = s[x]
<1>1. Len(s) \in Nat /\ Len(l) \in Nat
  BY LenProperties
<1>2. CASE prev = 0
  BY <1>1, <1>2
<1>3. CASE prev # 0
  <2>1. prev \in 1..Len(s)
    BY <1>1, <1>3
  <2>2. 1 <= s[prev].term
    BY <2>1, RootedAscends
  <2>3. prev <= Len(l) /\ l[prev].term = s[prev].term
    BY <1>1, <1>3, <2>2 DEF Matches, TermAt
  <2>4. prev \in 1..Len(l) /\ prev <= Len(s)
    BY <1>1, <2>1, <2>3
  <2>. QED  BY <2>3, <2>4, RootedAgree
<1>. QED  BY <1>2, <1>3

\* Entry k of a request is in the log already.
Stands(l, b, prev, entries, k) ==
  prev + k <= Len(l) /\ TermAt(l, b, prev + k) = entries[k].term

\* What EntriesToAppend makes of a request whose first missing entry is `first`.
AppendsFrom(l, b, commit, prev, entries, first) ==
  LET add == EntriesToAppend(l, b, commit, prev, entries)
  IN /\ \A k \in 1..(first - 1) : Stands(l, b, prev, entries, k)
     /\ ~Stands(l, b, prev, entries, first)
     /\ add.ok <=> (prev + first > Len(l) \/ prev + first > commit)
     /\ add.truncateFrom = IF prev + first > Len(l) THEN 0 ELSE prev + first
     /\ add.entries = SubSeq(entries, first, Len(entries))

\* What EntriesToAppend finds: the request is in the log, or `first` is its first
\* entry that is not.
LEMMA EntriesToAppendCases ==
  ASSUME LeastElements, NEW l, NEW b, NEW commit, NEW prev \in Nat, NEW entries,
         Len(l) \in Nat, Len(entries) \in Nat
  PROVE  \/ /\ EntriesToAppend(l, b, commit, prev, entries).ok
            /\ EntriesToAppend(l, b, commit, prev, entries).truncateFrom = 0
            /\ EntriesToAppend(l, b, commit, prev, entries).entries = <<>>
            /\ \A k \in 1..Len(entries) : Stands(l, b, prev, entries, k)
         \/ \E first \in 1..Len(entries) : AppendsFrom(l, b, commit, prev, entries, first)
<1>. DEFINE
            fresh == {k \in 1..Len(entries) :
                       \/ prev + k > Len(l)
                       \/ TermAt(l, b, prev + k) # entries[k].term}
            first == Min(fresh)
            add == EntriesToAppend(l, b, commit, prev, entries)
<1>1. Len(l) \in Nat /\ Len(entries) \in Nat
  OBVIOUS
<1>2. \A k \in 1..Len(entries) : k \in fresh <=> ~Stands(l, b, prev, entries, k)
  BY <1>1 DEF Stands
<1>3. fresh \in SUBSET Int /\ fresh \subseteq 1..Len(entries) /\ \A k \in fresh : 1 <= k
  BY <1>1
<1>4. CASE fresh = {}
  <2>1. add = [ok |-> TRUE, truncateFrom |-> 0, entries |-> <<>>]
    BY <1>4, Zenon DEF EntriesToAppend
  <2>2. add.ok /\ add.truncateFrom = 0 /\ add.entries = <<>>
    <3>. HIDE DEF add
    <3>. QED  BY <2>1
  <2>3. \A k \in 1..Len(entries) : Stands(l, b, prev, entries, k)
    BY <1>2, <1>4, Zenon
  <2>. QED  BY <2>2, <2>3, Zenon
<1>5. CASE fresh # {}
  <2>1. add = [ok |-> prev + first > Len(l) \/ prev + first > commit,
               truncateFrom |-> IF prev + first > Len(l) THEN 0 ELSE prev + first,
               entries |-> SubSeq(entries, first, Len(entries))]
    BY <1>5, Zenon DEF EntriesToAppend
  <2>. HIDE DEF fresh, add
  <2>2. first \in fresh /\ \A k \in fresh : first <= k
    BY <1>3, <1>5, MinIsLeast
  <2>. HIDE DEF first
  <2>3. first \in 1..Len(entries) /\ ~Stands(l, b, prev, entries, first)
    BY <1>2, <1>3, <2>2
  <2>4. \A k \in 1..(first - 1) : Stands(l, b, prev, entries, k)
    BY <1>1, <1>2, <2>2, <2>3
  <2>5. /\ add.ok <=> (prev + first > Len(l) \/ prev + first > commit)
        /\ add.truncateFrom = IF prev + first > Len(l) THEN 0 ELSE prev + first
        /\ add.entries = SubSeq(entries, first, Len(entries))
    BY <2>1, Zenon
  <2>. QED  BY <2>3, <2>4, <2>5, Zenon DEF AppendsFrom, add
<1>. QED  BY <1>4, <1>5, Zenon

\* A log that agrees with s up to n, cut there and followed by some of what s has
\* next, is a prefix of s.
LEMMA CutAndWrite ==
  ASSUME NEW S, NEW s \in Seq(S), NEW n \in Nat,
         NEW cut \in Seq(S), Len(cut) = n, StartsWith(s, cut),
         NEW rest \in Seq(S), CutFrom(s, n, rest),
         NEW written \in 0..Len(rest)
  PROVE  LET new == cut \o SubSeq(rest, 1, written)
         IN new \in Seq(S) /\ Len(new) = n + written /\ StartsWith(s, new)
<1>. DEFINE part == SubSeq(rest, 1, written)
            new == cut \o part
<1>1. Len(rest) \in Nat /\ Len(s) \in Nat /\ written \in Nat /\ written <= Len(rest)
  BY LenProperties
<1>2. /\ part \in Seq(S) /\ Len(part) = written
      /\ \A x \in 1..written : part[x] = rest[x]
  BY FirstEntries, Zenon
<1>. HIDE DEF part
<1>3. /\ new \in Seq(S)
      /\ Len(new) = n + written
      /\ \A x \in 1..(n + written) : new[x] = IF x <= n THEN cut[x] ELSE part[x - n]
  <2>1. /\ cut \o part \in Seq(S)
        /\ Len(cut \o part) = Len(cut) + Len(part)
        /\ \A x \in 1..(Len(cut) + Len(part)) :
             (cut \o part)[x] = IF x <= Len(cut) THEN cut[x] ELSE part[x - Len(cut)]
    BY <1>2, ConcatProperties, Zenon
  <2>. QED  BY <1>2, <2>1, Zenon
<1>. HIDE DEF new
<1>4. ASSUME NEW x \in 1..(n + written)  PROVE s[x] = new[x]
  <2>1. CASE x <= n
    <3>1. x \in 1..Len(cut)
      BY <2>1
    <3>2. s[x] = cut[x]
      BY <3>1, Zenon DEF StartsWith
    <3>3. new[x] = cut[x]
      BY <1>3, <2>1, Zenon
    <3>. QED  BY <3>2, <3>3, Zenon
  <2>2. CASE ~(x <= n)
    <3>1. x - n \in 1..written /\ x - n \in 1..Len(rest) /\ n + (x - n) = x
      BY <1>1, <2>2
    <3>2. rest[x - n] = s[n + (x - n)] /\ part[x - n] = rest[x - n]
      BY <1>2, <3>1, Zenon DEF CutFrom
    <3>3. new[x] = part[x - n]
      BY <1>3, <2>2, Zenon
    <3>. QED  BY <3>1, <3>2, <3>3, Zenon
  <2>. QED  BY <2>1, <2>2
<1>5. StartsWith(s, new)
  BY <1>1, <1>3, <1>4 DEF StartsWith, CutFrom
<1>. QED  BY <1>3, <1>5, Zenon DEF new, part

\* The same at every index.
LEMMA TermsAgree ==
  ASSUME NEW S, NEW C \in SUBSET Seq(S), ChainsOK(C),
         NEW s \in Seq(S), NEW t \in Seq(S), Rooted(s, C), Rooted(t, C)
  PROVE  \A n \in 1..Len(s) : n <= Len(t) /\ s[n].term = t[n].term => Agree(s, t, n)
<1>. SUFFICES ASSUME NEW n \in 1..Len(s), n <= Len(t), s[n].term = t[n].term
              PROVE  Agree(s, t, n)
  OBVIOUS
<1>1. \A x \in 1..n : s[x] = t[x]
  BY RootedAgree
<1>2. n <= Len(s)
  BY LenProperties
<1>. QED  BY <1>1, <1>2 DEF Agree

\* The log l with n of the entries that EntriesToAppend gave written to it.
MergedLog(l, add, n) ==
  (IF add.truncateFrom = 0 THEN l ELSE TruncateLog(l, add.truncateFrom)) \o SubSeq(add.entries, 1, n)

\* The entries follow index `prev` of the chain s, and l matches s there.
MergeReady(S, C, l, s, b, commit, prev, entries) ==
  /\ C \in SUBSET Seq(S) /\ ChainsOK(C)
  /\ l \in Seq(S) /\ s \in Seq(S) /\ Rooted(l, C) /\ Rooted(s, C)
  /\ b \in Nat /\ commit \in Nat /\ b <= commit
  /\ prev \in Nat /\ entries \in Seq(S) /\ CutFrom(s, prev, entries)
  /\ Matches(l, b, prev, IF prev = 0 THEN 0 ELSE s[prev].term)

\* The log `new` followed s and kept what is committed; once all is written it
\* agrees with s up to the index `last`.
MergeDone(S, l, s, commit, all, last, new) ==
  /\ new \in Seq(S)
  /\ Moved(l, s, new)
  /\ \A k \in 1..commit : k <= Len(l) => k <= Len(new) /\ new[k] = l[k]
  /\ all => last <= Len(new) /\ \A x \in 1..last : new[x] = s[x]

\* A request cut from the chain s, merged into the log l: the log follows s, also
\* when only some of the new entries are written, and keeps what is committed.
LEMMA MergeFollows ==
  ASSUME LeastElements, NEW S, NEW C, NEW l, NEW s, NEW b, NEW commit, NEW prev, NEW entries,
         MergeReady(S, C, l, s, b, commit, prev, entries),
         NEW add, add = EntriesToAppend(l, b, commit, prev, entries), add.ok,
         NEW written \in 0..Len(add.entries)
  PROVE  MergeDone(S, l, s, commit, written = Len(add.entries), prev + Len(entries),
                   MergedLog(l, add, written))
<1>. SUFFICES ASSUME C \in SUBSET Seq(S), ChainsOK(C),
                     l \in Seq(S), s \in Seq(S), Rooted(l, C), Rooted(s, C),
                     b \in Nat, commit \in Nat, b <= commit,
                     prev \in Nat, entries \in Seq(S), CutFrom(s, prev, entries),
                     Matches(l, b, prev, IF prev = 0 THEN 0 ELSE s[prev].term),
                     NEW new, new = MergedLog(l, add, written)
              PROVE  /\ new \in Seq(S)
                     /\ Moved(l, s, new)
                     /\ \A k \in 1..commit : k <= Len(l) => k <= Len(new) /\ new[k] = l[k]
                     /\ written = Len(add.entries) =>
                          /\ prev + Len(entries) <= Len(new)
                          /\ \A x \in 1..(prev + Len(entries)) : new[x] = s[x]
  BY Zenon DEF MergeReady, MergeDone
<1>. DEFINE cut == IF add.truncateFrom = 0 THEN l ELSE TruncateLog(l, add.truncateFrom)
            Full == prev + Len(entries) <= Len(new) /\ \A x \in 1..(prev + Len(entries)) : new[x] = s[x]
            Kept == \A k \in 1..commit : k <= Len(l) => k <= Len(new) /\ new[k] = l[k]
<1>1. /\ Len(l) \in Nat /\ Len(s) \in Nat /\ Len(entries) \in Nat
      /\ prev + Len(entries) <= Len(s) /\ prev + 0 = prev
  BY LenProperties DEF CutFrom
<1>2. Agree(l, s, prev)
  <2>1. prev <= Len(s)
    BY <1>1
  <2>2. prev <= Len(l) /\ \A x \in 1..prev : l[x] = s[x]
    BY <2>1, PrevAgrees, Zenon
  <2>. QED  BY <2>1, <2>2, Zenon DEF Agree
<1>0. new = cut \o SubSeq(add.entries, 1, written)
  BY DEF MergedLog
<1>. HIDE DEF cut, Full, Kept
<1>7. \A n \in 1..Len(l) : n <= Len(s) /\ l[n].term = s[n].term => Agree(l, s, n)
  BY TermsAgree
<1>3. ASSUME NEW k \in 1..Len(entries), Stands(l, b, prev, entries, k)  PROVE Agree(l, s, prev + k)
  <2>1. prev + k <= Len(l) /\ TermAt(l, b, prev + k) = entries[k].term /\ entries[k] = s[prev + k]
    BY <1>3, Zenon DEF CutFrom, Stands
  <2>2. prev + k \in 1..Len(s) /\ prev + k \in 1..Len(l) /\ prev + k # 0 /\ prev + k <= Len(s)
    BY <1>1, <2>1
  <2>3. 1 <= s[prev + k].term
    BY <2>2, RootedAscends, Zenon
  <2>4. l[prev + k].term = s[prev + k].term
    BY <1>1, <2>1, <2>2, <2>3 DEF TermAt
  <2>. QED  BY <1>7, <2>2, <2>4, Zenon
<1>4. CASE add.truncateFrom = 0 /\ add.entries = <<>> /\ \A k \in 1..Len(entries) : Stands(l, b, prev, entries, k)
  <2>1. written = 0
    BY <1>4, EmptySeq
  <2>2. SubSeq(add.entries, 1, written) = <<>>
    <3>1. 0 \in 0..Len(<<>>) /\ <<>> \in Seq(S)
      BY EmptySeq
    <3>2. SubSeq(<<>>, 1, 0) \in Seq(S) /\ Len(SubSeq(<<>>, 1, 0)) = 0
      BY <3>1, FirstEntries, Zenon
    <3>3. SubSeq(<<>>, 1, 0) = <<>>
      BY <3>2, EmptySeq
    <3>. QED  BY <1>4, <2>1, <3>3, Zenon
  <2>3. new = l
    <3>. QED  BY <1>0, <1>4, <2>2, ConcatEmptySeq, Zenon DEF cut
  <2>4. Agree(l, s, prev + Len(entries))
    <3>1. CASE Len(entries) = 0
      BY <1>1, <1>2, <3>1, Zenon
    <3>2. CASE Len(entries) # 0
      <4>1. Len(entries) \in 1..Len(entries)
        BY <1>1, <3>2
      <4>. QED  BY <1>3, <1>4, <4>1, Zenon
    <3>. QED  BY <3>1, <3>2, Zenon
  <2>. QED  BY <2>3, <2>4, Zenon DEF Moved, Agree, Full, Kept
<1>5. CASE \E first \in 1..Len(entries) : AppendsFrom(l, b, commit, prev, entries, first)
  <2>1. PICK first \in 1..Len(entries) : AppendsFrom(l, b, commit, prev, entries, first)
    BY <1>5, Zenon
  <2>. DEFINE n == prev + (first - 1)
              rest == SubSeq(entries, first, Len(entries))
  <2>2. /\ prev + first > Len(l) \/ prev + first > commit
        /\ add.truncateFrom = IF prev + first > Len(l) THEN 0 ELSE prev + first
        /\ add.entries = rest
    BY <2>1, Zenon DEF AppendsFrom
  <2>3. n \in Nat /\ n + 1 = prev + first /\ n + 1 <= Len(s) /\ n + 1 # 0
    BY <1>1
  <2>4. Agree(l, s, n)
    <3>1. CASE first = 1
      BY <1>2, <3>1
    <3>2. CASE first # 1
      <4>1. first - 1 \in 1..Len(entries) /\ first - 1 \in 1..(first - 1)
        BY <1>1, <3>2
      <4>. QED  BY <1>3, <2>1, <4>1, Zenon DEF AppendsFrom
    <3>. QED  BY <3>1, <3>2, Zenon
  <2>5. n <= Len(l) /\ \A x \in 1..n : l[x] = s[x]
    BY <2>4, Zenon DEF Agree
  <2>6. n + 1 > Len(l) \/ (n + 1 > commit /\ l[n + 1] # s[n + 1])
    <3>1. CASE n + 1 <= Len(l)
      <4>1. TermAt(l, b, n + 1) # entries[first].term /\ entries[first] = s[n + 1] /\ n + 1 > commit
        BY <2>1, <2>2, <2>3, <3>1 DEF CutFrom, Stands, AppendsFrom
      <4>2. TermAt(l, b, n + 1) = l[n + 1].term
        <5>. HIDE DEF n
        <5>. QED  BY <1>1, <2>3, <3>1, <4>1, SMTT(30) DEF TermAt
      <4>. QED  BY <4>1, <4>2, Zenon
    <3>. QED  BY <1>1, <2>3, <3>1
  <2>7. /\ rest \in Seq(S) /\ Len(rest) = Len(entries) - first + 1
        /\ \A x \in 1..(Len(entries) - first + 1) : rest[x] = entries[first + x - 1]
    <3>1. first \in Nat \ {0} /\ Len(entries) \in Int /\ Len(entries) <= Len(entries) /\ first <= Len(entries)
      BY <1>1
    <3>. QED  BY <3>1, SubSeqType, SMTT(30)
  <2>. HIDE DEF rest
  <2>8. n + Len(rest) = prev + Len(entries) /\ CutFrom(s, n, rest)
    <3>1. ASSUME NEW x \in 1..Len(rest)  PROVE rest[x] = s[n + x]
      <4>1. x \in 1..(Len(entries) - first + 1)
        BY <2>7, Zenon
      <4>2. first + x - 1 \in 1..Len(entries) /\ prev + (first + x - 1) = n + x
        BY <1>1, <4>1
      <4>3. rest[x] = entries[first + x - 1]
        BY <2>7, <4>1, Zenon
      <4>4. entries[first + x - 1] = s[prev + (first + x - 1)]
        BY <4>2, Zenon DEF CutFrom
      <4>. QED  BY <4>2, <4>3, <4>4, Zenon
    <3>2. n + Len(rest) = prev + Len(entries)
      BY <1>1, <2>7
    <3>. QED  BY <1>1, <3>1, <3>2, Zenon DEF CutFrom
  <2>9. cut \in Seq(S) /\ Len(cut) = n /\ \A x \in 1..n : cut[x] = l[x]
    <3>. HIDE DEF n
    <3>1. CASE n + 1 > Len(l)
      <4>1. Len(l) = n /\ cut = l
        BY <1>1, <2>2, <2>3, <2>5, <3>1, SMTT(30) DEF cut
      <4>. QED  BY <4>1, Zenon
    <3>2. CASE n + 1 <= Len(l)
      <4>1. cut = SubSeq(l, 1, (n + 1) - 1) /\ n \in 0..Len(l) /\ (n + 1) - 1 = n
        <5>1. ~(n + 1 > Len(l)) /\ add.truncateFrom = n + 1 /\ add.truncateFrom # 0
          BY <1>1, <2>2, <2>3, <3>2, SMTT(30)
        <5>2. cut = TruncateLog(l, add.truncateFrom)
          BY <5>1, Zenon DEF cut
        <5>3. cut = TruncateLog(l, n + 1)
          BY <5>1, <5>2, Zenon
        <5>4. cut = SubSeq(l, 1, (n + 1) - 1)
          BY <5>3 DEF TruncateLog
        <5>. QED  BY <1>1, <2>3, <2>5, <5>4
      <4>2. cut = SubSeq(l, 1, n)
        BY <4>1, Zenon
      <4>3. /\ SubSeq(l, 1, n) \in Seq(S)
            /\ Len(SubSeq(l, 1, n)) = n
            /\ \A x \in 1..n : SubSeq(l, 1, n)[x] = l[x]
        BY <4>1, FirstEntries, Zenon
      <4>. QED  BY <4>2, <4>3, Zenon
    <3>. QED  BY <1>1, <2>3, <3>1, <3>2
  <2>10. written \in 0..Len(rest)
    BY <2>2
  <2>. HIDE DEF n
  <2>11. new \in Seq(S) /\ Len(new) = n + written /\ StartsWith(s, new)
    <3>0. n <= Len(s)
      BY <1>1, <2>3
    <3>1. StartsWith(s, cut)
      BY <2>5, <2>9, <3>0, Zenon DEF StartsWith
    <3>2. n \in Nat /\ cut \in Seq(S) /\ Len(cut) = n /\ rest \in Seq(S) /\ CutFrom(s, n, rest)
      BY <2>3, <2>7, <2>8, <2>9, Zenon
    <3>. DEFINE nw == cut \o SubSeq(rest, 1, written)
    <3>3. nw \in Seq(S) /\ Len(nw) = n + written /\ StartsWith(s, nw)
      BY <2>10, <3>1, <3>2, CutAndWrite, SMTT(30)
    <3>. QED  BY <1>0, <2>2, <3>3, Zenon
  <2>12. ~StartsWith(l, s)
    BY <1>1, <2>3, <2>6 DEF StartsWith
  <2>13. ASSUME NEW k \in 1..Len(s), k <= Len(l), \A x \in 1..k : l[x] = s[x]
         PROVE  k <= Len(new)
    <3>1. k <= n
      BY <1>1, <2>3, <2>6, <2>13
    <3>. QED  BY <2>3, <2>10, <2>11, <3>1, SMTT(30)
  <2>14. Moved(l, s, new)
    BY <2>11, <2>12, <2>13, Zenon DEF Moved
  <2>15. \A x \in 1..(n + written) : new[x] = s[x]
    BY <2>11 DEF StartsWith
  <2>16. Kept
    <3>. SUFFICES ASSUME NEW k \in 1..commit, k <= Len(l)  PROVE k <= Len(new) /\ new[k] = l[k]
      BY Zenon DEF Kept
    <3>1. k <= n /\ k \in 1..n /\ k \in 1..(n + written)
      BY <1>1, <2>3, <2>6, <2>10, SMTT(30)
    <3>2. k <= Len(new)
      BY <2>3, <2>10, <2>11, <3>1
    <3>. QED  BY <2>5, <2>15, <3>1, <3>2, Zenon
  <2>17. ASSUME written = Len(add.entries)  PROVE Full
    <3>1. n + written = prev + Len(entries)
      BY <2>2, <2>8, <2>17
    <3>2. n + written <= Len(new)
      BY <2>3, <2>10, <2>11
    <3>. QED  BY <2>15, <3>1, <3>2, Zenon DEF Full
  <2>. QED  BY <2>11, <2>14, <2>16, <2>17, Zenon DEF Full, Kept
<1>6. \/ add.truncateFrom = 0 /\ add.entries = <<>> /\ \A k \in 1..Len(entries) : Stands(l, b, prev, entries, k)
      \/ \E first \in 1..Len(entries) : AppendsFrom(l, b, commit, prev, entries, first)
  BY <1>1, EntriesToAppendCases, Zenon
<1>. QED  BY <1>4, <1>5, <1>6, Zenon

\* A received Snapshot whose state is a prefix of the chain s: the log follows s.
LEMMA InstallFollows ==
  ASSUME NEW S, NEW C \in SUBSET Seq(S), ChainsOK(C),
         NEW l \in Seq(S), NEW s \in Seq(S), NEW f \in Seq(S), Rooted(l, C), Rooted(s, C),
         StartsWith(s, f), NEW b \in Nat, b < Len(f)
  PROVE  LET keep == Len(f) <= Len(l) /\ TermAt(l, b, Len(f)) = LastLogTerm(f)
         IN /\ keep => StartsWith(l, f) /\ f \o SubSeq(l, Len(f) + 1, Len(l)) = l
            /\ ~keep => ~StartsWith(l, f) /\ Moved(l, s, f)
<1>. DEFINE keep == Len(f) <= Len(l) /\ TermAt(l, b, Len(f)) = LastLogTerm(f)
<1>1. Len(l) \in Nat /\ Len(s) \in Nat /\ Len(f) \in Nat /\ Len(f) # 0 /\ Len(f) <= Len(s)
  BY LenProperties DEF StartsWith
<1>2. Rooted(f, C)
  BY RootedPrefix
<1>3. ASSUME keep  PROVE StartsWith(l, f)
  BY <1>1, <1>2, <1>3, BoundaryMatches
<1>4. ASSUME ~keep  PROVE ~StartsWith(l, f)
  <2>. SUFFICES ASSUME StartsWith(l, f)  PROVE FALSE
    OBVIOUS
  <2>1. Len(f) <= Len(l) /\ l[Len(f)] = f[Len(f)] /\ f # <<>>
    BY <1>1, EmptySeq DEF StartsWith
  <2>2. TermAt(l, b, Len(f)) = LastLogTerm(f)
    BY <1>1, <2>1 DEF TermAt, LastLogTerm
  <2>. QED  BY <1>4, <2>1, <2>2
<1>5. ASSUME ~StartsWith(l, f)  PROVE Moved(l, s, f)
  <2>1. ~StartsWith(l, s)
    BY <1>5, StartsWithTrans
  <2>2. ASSUME NEW k \in 1..Len(s), k <= Len(l), \A x \in 1..k : l[x] = s[x]
        PROVE  k <= Len(f)
    <3>. SUFFICES ASSUME k > Len(f)  PROVE FALSE
      BY <1>1
    <3>1. Len(f) <= Len(l) /\ \A x \in 1..Len(f) : l[x] = f[x]
      BY <1>1, <2>2 DEF StartsWith
    <3>. QED  BY <1>5, <3>1 DEF StartsWith
  <2>. QED  BY <2>1, <2>2, Zenon DEF Moved
<1>6. ASSUME keep  PROVE f \o SubSeq(l, Len(f) + 1, Len(l)) = l
  BY <1>3, <1>6, PrefixRestored
<1>. QED  BY <1>3, <1>4, <1>5, <1>6, Zenon

=============================================================================
