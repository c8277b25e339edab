----------------------------- MODULE LogChains -----------------------------
(***************************************************************************)
(* How the logs of a Cluster hang together.  A chain is a log as a Leader   *)
(* had it when it appended the last of its entries; every log a Node can    *)
(* hold is put together from chains.                                        *)
(***************************************************************************)
EXTENDS RaftLog

\* The natural numbers are well ordered.  The lemmas about least and greatest elements
\* take it as a hypothesis.
LeastElements == \A S \in SUBSET Nat : S # {} => \E x \in S : \A y \in S : x <= y

\* Two logs reach index n and hold the same entries up to it.
Agree(s, t, n) ==
  /\ n <= Len(s)
  /\ n <= Len(t)
  /\ \A k \in 1..n : s[k] = t[k]

\* The log s begins with all of c.
StartsWith(s, c) == /\ Len(c) <= Len(s)
                    /\ \A x \in 1..Len(c) : s[x] = c[x]

\* The entries are the ones that s has after the index prev.
CutFrom(s, prev, entries) == /\ prev + Len(entries) <= Len(s)
                             /\ \A x \in 1..Len(entries) : entries[x] = s[prev + x]

\* Every prefix of s was once the log of a Leader.
Rooted(s, C) == \A k \in 1..Len(s) : SubSeq(s, 1, k) \in C

\* One Leader made all chains that end in its term, each by appending to the one
\* before, and terms do not fall along a chain.
ChainsOK(C) ==
  /\ \A c \in C : /\ c # <<>>
                  /\ Rooted(c, C)
                  /\ \A x \in 1..Len(c) : 1 <= c[x].term /\ c[x].term <= LastLogTerm(c)
  /\ \A c, d \in C : LastLogTerm(c) = LastLogTerm(d) /\ Len(c) <= Len(d) => StartsWith(d, c)

\* A log that followed the chain s from `old` to `new` kept what both have in
\* common, and changed only if it did not hold all of s.
Moved(old, s, new) ==
  \/ new = old
  \/ /\ StartsWith(s, new)
     /\ ~StartsWith(old, s)
     /\ \A k \in 1..Len(s) : k <= Len(old) /\ (\A x \in 1..k : old[x] = s[x]) => k <= Len(new)

=============================================================================
