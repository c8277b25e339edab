-------------------------- MODULE RaftSafetyProofs --------------------------
(***************************************************************************)
(* The safety theorems of the consensus core, for every Cluster, log       *)
(* length and interleaving.                                                *)
(***************************************************************************)
EXTENDS RaftTypeProofs, RaftChainProofs, RaftReplicationProofs, FiniteSetTheorems

-----------------------------------------------------------------------------
(* The facts about numbers and finite sets that the lemmas about steps assume *)

\* The order of the natural numbers is well founded.
LEMMA NaturalsAreOrdered == LeastElements
<1>. SUFFICES ASSUME NEW S \in SUBSET Nat, S # {}
              PROVE  \E x \in S : \A y \in S : x <= y
  BY Zenon DEF LeastElements
<1>1. PICK x \in S : \A y \in S : ~(<<y, x>> \in OpToRel(<, Nat))
  BY WFMin, NatLessThanWellFounded, Zenon
<1>2. OpToRel(<, Nat) = {ss \in Nat \X Nat : ss[1] < ss[2]}
  BY Zenon DEF OpToRel
<1>3. ASSUME NEW y \in S  PROVE x <= y
  <2>1. ~(<<y, x>> \in {ss \in Nat \X Nat : ss[1] < ss[2]})
    BY <1>1, <1>2, ZenonT(40)
  <2>. QED  BY <2>1
<1>. QED  BY <1>3, Zenon

\* A Cluster is finite.
LEMMA NodesAreCounted == CountsAreNat
BY NodeAssumption, FS_Subset, FS_CardinalityType, SMTT(30) DEF CountsAreNat

\* A quorum is more than half of the Cluster.
LEMMA MajoritiesMeet == QuorumsMeet
<1>. SUFFICES ASSUME NEW A \in SUBSET Node, NEW B \in SUBSET Node,
                     Cardinality(A) >= quorum, Cardinality(B) >= quorum
              PROVE  \E v \in Node : v \in A /\ v \in B
  BY Zenon DEF QuorumsMeet
<1>1. Cardinality(Node) \in Nat /\ Cardinality(A) \in Nat /\ Cardinality(B) \in Nat
  BY NodeAssumption, FS_Subset, FS_CardinalityType, SMTT(30)
<1>2. Cardinality(A) + Cardinality(B) > Cardinality(Node)
  BY <1>1, SMTT(30) DEF quorum
<1>3. A \cap B # {}
  BY <1>2, NodeAssumption, FS_MajoritiesIntersect, SMTT(30)
<1>. QED  BY <1>3, SMTT(30)

-----------------------------------------------------------------------------
(* Types *)

\* Every variable of raft.Node and of its loop keeps its type, and every message has
\* the fields of its kind, in every Cluster that runs the code.
THEOREM TypeCorrect == Spec => []TypeOK
<1>1. TypeOK /\ [Next]_vars => TypeOK'
  BY NaturalsAreOrdered, NodesAreCounted, NextType, SMTT(30)
<1>. QED  BY <1>1, InitType, PTL DEF Spec

-----------------------------------------------------------------------------
(* Elections *)

\* One step keeps the ballots and, with them, the votes.
LEMMA StepElection ==
  ASSUME TypeOK, ElectionInv, [Next]_vars
  PROVE  TypeOK' /\ ElectionInv' /\ VoteKept
<1>1. TypeOK'
  BY NaturalsAreOrdered, NodesAreCounted, NextType, SMTT(30)
<1>. QED  BY <1>1, NaturalsAreOrdered, NodesAreCounted, NextElection, SMTT(30)

\* The ballots leave one Leader per term.
LEMMA BallotsDecide == TypeOK /\ ElectionInv => ElectionSafety
BY MajoritiesMeet, QuorumsDecide, SMTT(30)

\* No term ever has two Leaders, whatever the size of the Cluster and however
\* elections, restarts, crashes in the middle of a step and late votes interleave.
THEOREM OneLeaderPerTerm == Spec => []ElectionSafety
<1>1. Init => TypeOK /\ ElectionInv
  BY InitType, InitElection, SMTT(30)
<1>2. TypeOK /\ ElectionInv /\ [Next]_vars => (TypeOK /\ ElectionInv)'
  BY StepElection, SMTT(30)
<1>. QED  BY <1>1, <1>2, BallotsDecide, PTL DEF Spec

\* A vote is never withdrawn or changed within its term and a term never falls, in
\* any step of any Node, restarts and crashes in the middle of a step included.
THEOREM VotesAreDurable == Spec => VoteIsFinal
<1>1. Init => TypeOK /\ ElectionInv
  BY InitType, InitElection
<1>2. TypeOK /\ ElectionInv /\ [Next]_vars => (TypeOK /\ ElectionInv)'
  BY StepElection
<1>3. TypeOK /\ ElectionInv /\ [Next]_vars =>
        [\A i \in Node : /\ term'[i] >= term[i]
                         /\ term'[i] = term[i] /\ votedFor[i] # NoNode
                              => votedFor'[i] = votedFor[i]]_vars
  BY StepElection, SMTT(30) DEF VoteKept
<1>. QED  BY <1>1, <1>2, <1>3, PTL DEF Spec, VoteIsFinal

-----------------------------------------------------------------------------
(* Logs and reads *)

\* The chains of the recovered logs explain the first state.
LEMMA InitSafety == Init => SafetyInv
<1>. SUFFICES ASSUME Init  PROVE SafetyInv
  OBVIOUS
<1>1. TypeOK /\ ElectionInv
  BY InitType, InitElection, SMTT(30)
<1>2. ChainInv(RecoveredChains) /\ AppliedIsCommitted
  BY InitChain, SMTT(30)
<1>3. ReadyOwnsCommit
  <2>1. readReady = [i \in Node |-> FALSE]
    BY Zenon DEF Init
  <2>. QED  BY <2>1, Zenon DEF ReadyOwnsCommit
<1>. QED  BY <1>1, <1>2, <1>3, ZenonT(40) DEF SafetyInv

\* Every step keeps the chains, with those of the Leader that appended.
LEMMA NextSafety == SafetyInv /\ [Next]_vars => SafetyInv'
<1>. SUFFICES ASSUME SafetyInv, [Next]_vars  PROVE SafetyInv'
  OBVIOUS
<1>1. TypeOK /\ ElectionInv /\ AppliedIsCommitted /\ ReadyOwnsCommit
  BY Zenon DEF SafetyInv
<1>2. PICK C : ChainInv(C)
  BY Zenon DEF SafetyInv
<1>3. TypeOK' /\ ElectionInv'
  BY <1>1, StepElection, SMTT(30)
<1>4. ElectionSafety'
  BY <1>3, BallotsDecide, PTL
<1>5. AppliedIsCommitted'
  BY <1>1, <1>3, NaturalsAreOrdered, NextApplied, SMTT(30)
<1>6. ReadyOwnsCommit'
  BY <1>1, <1>2, <1>3, NaturalsAreOrdered, NextReady, SMTT(30)
<1>7. \E D : ChainInv(D)'
  <2>1. CASE Next
    <3>1. PICK v \in Node : ChainStep(v, C)
      BY <1>1, <1>2, <1>3, <2>1, NaturalsAreOrdered, NextIsChainStep, ZenonT(40)
    <3>. QED  BY <1>1, <1>2, <1>3, <1>4, <3>1, MajoritiesMeet, ChainStepInv, ZenonT(40)
  <2>2. CASE UNCHANGED vars
    BY <1>2, <2>2, StutterChain, ZenonT(40)
  <2>. QED  BY <2>1, <2>2, SMTT(30)
<1>. QED  BY <1>3, <1>5, <1>6, <1>7, ZenonT(40) DEF SafetyInv

\* The invariant holds in every reachable state.
THEOREM SafetyHolds == Spec => []SafetyInv
<1>. QED  BY InitSafety, NextSafety, PTL DEF Spec

\* Two logs that hold an entry of the same term at one index hold the same entries up
\* to it, through probes, conflict hints, truncations, Snapshots, interrupted appends
\* and restarts.
THEOREM LogsMatch == Spec => []LogMatching
<1>1. SafetyInv => LogMatching
  BY ChainsMatch, ZenonT(40) DEF SafetyInv
<1>. QED  BY <1>1, SafetyHolds, PTL

\* Along every log the terms never fall and never exceed the Node's own.
THEOREM TermsAscend == Spec => []LogTermsAscend
<1>1. SafetyInv => LogTermsAscend
  BY ChainsMatch, ZenonT(40) DEF SafetyInv
<1>. QED  BY <1>1, SafetyHolds, PTL

\* A Leader that takes reads has committed in its own term and applied all it committed.
THEOREM ReadsWaitForCommit == Spec => []ReadReadyIsCurrent
<1>1. SafetyInv => ReadReadyIsCurrent
  BY Zenon DEF SafetyInv, ReadyOwnsCommit, ReadReadyIsCurrent
<1>. QED  BY <1>1, SafetyHolds, PTL

=============================================================================
