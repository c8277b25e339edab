------------------------------ MODULE RaftLog ------------------------------
(***************************************************************************)
(* The log arithmetic of internal/raft: what the pure helpers of raft.Node *)
(* compute from a log, its compacted prefix and a message.                 *)
(*                                                                         *)
(* A log is the sequence of every entry since index 1.  The entries at or  *)
(* below `base` (logBaseIndex) are the ones the code has compacted into a  *)
(* Snapshot: the sequence keeps them as the abstraction of the state that  *)
(* Snapshot holds, and TermAt shows that the code can no longer read them, *)
(* except for the term of the last one (logBaseTerm).                      *)
(***************************************************************************)
EXTENDS Integers, Sequences, FiniteSets, FiniteSetsExt

CONSTANT MaxBatch  \* entries that fit in one maxAppendEntriesBytes request

ASSUME MaxBatchAssumption == MaxBatch \in Nat \ {0}

Larger(a, b) == IF a > b THEN a ELSE b

Smaller(a, b) == IF a < b THEN a ELSE b

LastLogTerm(log) == IF log = <<>> THEN 0 ELSE log[Len(log)].term

\* The first n entries, or all of them.
Prefix(log, n) == SubSeq(log, 1, Smaller(n, Len(log)))

\* The log without the entries from firstIndex on.
TruncateLog(log, firstIndex) == SubSeq(log, 1, firstIndex - 1)

\* The term of a retained entry, of the Snapshot boundary, or 0.
TermAt(log, base, index) ==
  IF index = 0 \/ index < base \/ index > Len(log) THEN 0 ELSE log[index].term

\* Mutant: only the length is compared.
MatchesIndex(log, base, index, term) == index <= Len(log)

Matches(log, base, index, term) ==
  \/ index = 0 /\ term = 0
  \/ index <= Len(log) /\ TermAt(log, base, index) = term

\* Mutant: the longer log wins whatever its last term.
LogIsAtLeastAsLong(candidateTerm, candidateIndex, localTerm, localIndex) ==
  candidateIndex >= localIndex

LogIsAtLeastAsUpToDate(candidateTerm, candidateIndex, localTerm, localIndex) ==
  \/ candidateTerm > localTerm
  \/ candidateTerm = localTerm /\ candidateIndex >= localIndex

\* As many entries from `first` on as one request carries, never none of some.
EntriesBatch(log, first) ==
  SubSeq(log, first, Smaller(Len(log), first + MaxBatch - 1))

\* What a Follower that cannot match `index` tells its Leader: where its run
\* of entries of that term starts, or where its log ends.
ConflictHint(log, base, index) ==
  IF index = 0 \/ index > Len(log)
    THEN [term |-> 0, index |-> Len(log) + 1]
    ELSE LET term == TermAt(log, base, index)
             run  == {k \in 1..index :
                        \A x \in k..(index - 1) :
                           x > base /\ TermAt(log, base, x) = term}
         IN [term |-> term, index |-> Min(run)]

\* Mutant: the Leader resumes at the Follower's hint whatever it holds itself.
NextIndexFromHint(log, base, conflictTerm, conflictIndex) ==
  Smaller(Larger(conflictIndex, 1), Len(log) + 1)

\* Where the Leader resumes: after its own last entry of the conflicting term,
\* else at the Follower's hint.
NextIndexFromConflict(log, base, conflictTerm, conflictIndex) ==
  LET own  == {k \in 1..Len(log) : TermAt(log, base, k) = conflictTerm}
      next == IF conflictTerm # 0 /\ own # {} THEN Max(own) + 1 ELSE conflictIndex
  IN Smaller(Larger(next, 1), Len(log) + 1)

\* Mutant: entries within the log are taken to be held already.
EntriesBeyondLog(log, base, commitIndex, prevIndex, entries) ==
  LET have == Smaller(Len(entries), Larger(Len(log) - prevIndex, 0))
  IN [ok |-> TRUE, truncateFrom |-> 0,
      entries |-> SubSeq(entries, have + 1, Len(entries))]

\* Mutant: a conflict with a committed entry is resolved like any other.
EntriesOverCommitted(log, base, commitIndex, prevIndex, entries) ==
  LET fresh == {k \in 1..Len(entries) :
                  \/ prevIndex + k > Len(log)
                  \/ TermAt(log, base, prevIndex + k) # entries[k].term}
      index == prevIndex + Min(fresh)
  IN IF fresh = {}
       THEN [ok |-> TRUE, truncateFrom |-> 0, entries |-> <<>>]
       ELSE [ok |-> TRUE,
             truncateFrom |-> IF index > Len(log) THEN 0 ELSE index,
             entries |-> SubSeq(entries, Min(fresh), Len(entries))]

\* The entries of a request that the log lacks: those from the first one that
\* lies beyond the log or conflicts with it, unless it conflicts with a
\* committed one.
EntriesToAppend(log, base, commitIndex, prevIndex, entries) ==
  LET fresh == {k \in 1..Len(entries) :
                  \/ prevIndex + k > Len(log)
                  \/ TermAt(log, base, prevIndex + k) # entries[k].term}
      first == Min(fresh)
      index == prevIndex + first
  IN IF fresh = {}
       THEN [ok |-> TRUE, truncateFrom |-> 0, entries |-> <<>>]
       ELSE [ok |-> index > Len(log) \/ index > commitIndex,
             truncateFrom |-> IF index > Len(log) THEN 0 ELSE index,
             entries |-> SubSeq(entries, first, Len(entries))]

=============================================================================
