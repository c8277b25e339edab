-------------------------- MODULE RaftChainProofs --------------------------
(***************************************************************************)
(* Logs that hold an entry of one term at one index are equal up to it, and *)
(* terms ascend along every log, for every Cluster, log length and          *)
(* interleaving of elections, repairs, Snapshots, restarts and crashes.     *)
(***************************************************************************)
EXTENDS RaftSteps, RaftTypeProofs

\* An entry carries a term.
LEMMA EntryHasTerm == \A e \in Entry : e.term \in Nat
BY DEF Entry

\* Every message has a sender.
LEMMA MessageSender == \A m \in Message : m.from \in Node
BY DEF Message

\* The term of a Candidate that wins is the last term of no chain: its Leader would
\* be this Node, or the Nodes that elected it voted before the run started.
LEMMA WonTermIsNew ==
  ASSUME QuorumsMeet, TypeOK, TypeOK', NEW C, ChainInv(C), ElectionInv', ElectionSafety', RecoveredKept', BallotStep,
         NEW v \in Node, role[v] = "Candidate", elected' = elected \cup {<<term[v], v>>}
  PROVE  \A c \in C : LastLogTerm(c) # term[v]
<1>. SUFFICES ASSUME NEW c \in C, LastLogTerm(c) = term[v]  PROVE FALSE
  OBVIOUS
<1>1. <<term[v], v>> \notin elected /\ term[v] > RecoveredTerm[v]
  BY DEF ChainInv, CandidatesNew
<1>2. CASE \E l \in Node : <<term[v], l>> \in elected
  <2>1. PICK l \in Node : <<term[v], l>> \in elected
    BY <1>2
  <2>3. <<term[v], l>> \in elected' /\ <<term[v], v>> \in elected'
    BY <2>1
  <2>4. l = v
    BY <2>3, Zenon DEF ElectionSafety
  <2>. QED  BY <1>1, <2>1, <2>4
<1>3. CASE RecoveredEntryTerm(term[v])
  <2>0. PICK i \in Node : \E k \in 1..Len(RecoveredLog[i]) : RecoveredLog[i][k].term = term[v]
    BY <1>3 DEF RecoveredEntryTerm
  <2>1. PICK k \in 1..Len(RecoveredLog[i]) : RecoveredLog[i][k].term = term[v]
    BY <2>0
  <2>. DEFINE t == term[v]
              left == {u \in Node : RecoveredTerm[u] > t}
              gave(w) == {u \in Node : RecoveredTerm[u] = t /\ RecoveredVote[u] = w}
  <2>2. PICK w \in Node : RecoveredTerm[w] >= t /\ Cardinality(left \cup gave(w)) >= quorum
    <3>. DEFINE r == RecoveredLog[i][k].term
    <3>1. \E w \in Node :
            /\ RecoveredTerm[w] >= r
            /\ Cardinality({u \in Node : RecoveredTerm[u] > r} \cup
                           {u \in Node : RecoveredTerm[u] = r /\ RecoveredVote[u] = w}) >= quorum
      BY RecoveredHistoryAssumption, Zenon
    <3>2. r = t
      BY <2>1
    <3>. HIDE DEF r
    <3>. QED  BY <3>1, <3>2, Zenon
  <2>3. PICK Q \in SUBSET Node : /\ Cardinality(Q) >= quorum
                                 /\ \A u \in Q : <<t, u, v>> \in ballots'
    <3>1. <<t, v>> \in elected'
      OBVIOUS
    <3>2. \E Q \in SUBSET Node : /\ Cardinality(Q) >= quorum
                                 /\ \A u \in Q : <<<<t, v>>[1], u, <<t, v>>[2]>> \in ballots'
      BY <3>1, Zenon DEF ElectionInv, ElectedByQuorum
    <3>. QED  BY <3>2
  <2>4. PICK u \in Node : u \in left \cup gave(w) /\ u \in Q
    <3>. DEFINE B == left \cup gave(w)
    <3>1. B \in SUBSET Node /\ Cardinality(B) >= quorum
      BY <2>2
    <3>. HIDE DEF B
    <3>2. \E u \in Node : u \in B /\ u \in Q
      BY <2>3, <3>1, SMTT(30) DEF QuorumsMeet
    <3>. QED  BY <3>2 DEF B
  <2>5. <<t, u, v>> \in ballots' /\ t \in Nat
    BY <2>3, <2>4 DEF TypeOK
  <2>6. RecoveredTerm \in [Node -> Nat] /\ t >= RecoveredTerm[u]
    BY <2>5, RecoveredAssumption, Zenon DEF RecoveredKept
  <2>7. RecoveredTerm[u] = t /\ RecoveredVote[u] = w
    BY <2>4, <2>5, <2>6
  <2>8. <<t, u, w>> \in ballots'
    <3>1. RecoveredVote[u] # NoNode
      BY <2>7, NodeAssumption
    <3>. QED  BY <2>7, <3>1 DEF RecoveredKept
  <2>9. w = v
    BY <2>5, <2>8 DEF ElectionInv, OneBallot
  <2>. QED  BY <1>1, <2>2, <2>5, <2>6, <2>9
<1>. QED  BY <1>2, <1>3, Zenon DEF ChainInv, Owned

\* No step falls behind what was recovered.
LEMMA RecoveredStays ==
  ASSUME TypeOK, TypeOK', RecoveredKept, BallotStep, NEW v \in Node, NEW C, NodeStep(v, C)
  PROVE  RecoveredKept'
<1>1. RecoveredTerm \in [Node -> Nat] /\ term \in [Node -> Nat] /\ term' \in [Node -> Nat]
  BY RecoveredAssumption, Zenon DEF TypeOK
<1>2. \A i \in Node : term'[i] >= term[i] /\ term[i] >= RecoveredTerm[i]
  BY <1>1 DEF NodeStep, RecoveredKept
<1>3. \A i \in Node : term'[i] >= RecoveredTerm[i]
  BY <1>1, <1>2
<1>4. \A i \in Node : RecoveredVote[i] # NoNode => <<RecoveredTerm[i], i, RecoveredVote[i]>> \in ballots'
  BY Zenon DEF RecoveredKept, BallotStep
<1>5. ASSUME NEW b \in ballots'  PROVE b[1] >= RecoveredTerm[b[2]]
  <2>1. b[1] \in Nat /\ b[2] \in Node
    BY Zenon DEF TypeOK
  <2>2. CASE b \in ballots
    BY <2>2, Zenon DEF RecoveredKept
  <2>3. CASE b[1] >= term[b[2]]
    BY <1>1, <1>2, <2>1, <2>3, SMTT(30)
  <2>. QED  BY <2>2, <2>3, Zenon DEF BallotStep
<1>. QED  BY <1>3, <1>4, <1>5, Zenon DEF RecoveredKept

\* The chain that a Leader makes is longer than every chain of its term, so the
\* chains stay in order.
LEMMA ChainsGrow ==
  ASSUME QuorumsMeet, TypeOK, TypeOK', NEW C, ChainInv(C), ElectionInv', ElectionSafety', RecoveredKept', BallotStep,
         NEW v \in Node, NodeStep(v, C)
  PROVE  \E D : /\ Grown(v, C, D)
                /\ ChainsOK(D)
                /\ AppendsOwn(v) => ExtendsChains(log'[v], log[v], D, term[v])
<1>1. C \in SUBSET Seq(Entry) /\ ChainsOK(C)
  BY DEF ChainInv
<1>2. CASE ~AppendsOwn(v)
  <2>1. Grown(v, C, C)
    BY <1>1, <1>2, Zenon DEF Grown
  <2>. QED  BY <1>1, <1>2, <2>1, Zenon
<1>3. CASE AppendsOwn(v)
  <2>1. PICK e \in Entry : e.term = term[v] /\ log'[v] = Append(log[v], e)
    BY <1>3, ZenonT(40) DEF AppendsOwn
  <2>2. /\ log[v] \in Seq(Entry) /\ term[v] \in Nat
        /\ Rooted(log[v], C)
        /\ \A k \in 1..Len(log[v]) : log[v][k].term <= e.term
    BY <2>1 DEF TypeOK, ChainInv, LogsOK
  <2>3. role[v] \in {"Leader", "Candidate"}
    BY <1>3, Zenon DEF NodeStep, AppendsOwn
  <2>4. /\ e.term >= 1
        /\ \A c \in C : LastLogTerm(c) = e.term => StartsWith(log[v], c)
    <3>1. CASE role[v] = "Leader"
      <4>1. /\ log[v] \in C /\ LastLogTerm(log[v]) = term[v]
            /\ \A c \in C : LastLogTerm(c) = term[v] => StartsWith(log[v], c)
        BY <3>1, Zenon DEF ChainInv, LeadersOwn
      <4>2. log[v] # <<>> /\ Len(log[v]) \in 1..Len(log[v])
        BY <1>1, <2>2, <4>1, EmptySeq, SMTT(30) DEF ChainsOK
      <4>3. 1 <= log[v][Len(log[v])].term
        BY <1>1, <4>1, <4>2, Zenon DEF ChainsOK
      <4>. QED  BY <2>1, <2>2, <4>1, <4>2, <4>3, SMTT(30) DEF LastLogTerm
    <3>2. CASE role[v] = "Candidate"
      <4>1. elected' = elected \cup {<<term[v], v>>}
        BY <1>3, <3>2 DEF NodeStep, AppendsOwn
      <4>2. \A c \in C : LastLogTerm(c) # term[v]
        BY <3>2, <4>1, WonTermIsNew, Zenon
      <4>3. term[v] > RecoveredTerm[v] /\ RecoveredTerm[v] \in Nat
        BY <3>2, RecoveredAssumption, Zenon DEF ChainInv, CandidatesNew
      <4>. QED  BY <2>1, <2>2, <4>2, <4>3, SMTT(30)
    <3>. QED  BY <2>3, <3>1, <3>2, SMTT(30)
  <2>. DEFINE n == log'[v]
              D == C \cup {n}
  <2>5. n \in Seq(Entry) /\ ExtendsChains(n, log[v], D, term[v])
    <3>. DEFINE a == Append(log[v], e)
    <3>1. /\ C \in SUBSET Seq(Entry) /\ ChainsOK(C) /\ log[v] \in Seq(Entry) /\ Rooted(log[v], C)
          /\ \A x \in Entry : x.term \in Nat
          /\ e.term >= 1
          /\ \A k \in 1..Len(log[v]) : log[v][k].term <= e.term
          /\ \A c \in C : LastLogTerm(c) = e.term => StartsWith(log[v], c)
      BY <1>1, <2>2, <2>4, EntryHasTerm, Zenon
    <3>2. a \in Seq(Entry) /\ ExtendsChains(a, log[v], C \cup {a}, e.term)
      BY <3>1, AppendedChain, Zenon
    <3>. HIDE DEF a
    <3>3. n = a
      BY <2>1, Zenon DEF a
    <3>. QED  BY <2>1, <3>2, <3>3, Zenon
  <2>6. Grown(v, C, D)
    BY <1>1, <1>3, <2>5, Zenon DEF Grown
  <2>7. ChainsOK(D)
    BY <2>5, Zenon DEF ExtendsChains
  <2>. QED  BY <1>3, <2>5, <2>6, <2>7, Zenon
<1>. QED  BY <1>2, <1>3

\* A step of one Node keeps the chain invariant, over the chains that it leaves.
LEMMA ChainStepInv ==
  ASSUME QuorumsMeet, TypeOK, TypeOK', NEW C, ChainInv(C), ElectionInv', ElectionSafety', NEW v \in Node, ChainStep(v, C)
  PROVE  \E D : Grown(v, C, D) /\ ChainInv(D)'
<1>1. NodeStep(v, C) /\ SendStep /\ StoreStep /\ BallotStep
  BY DEF ChainStep
<1>2. RecoveredKept'
  BY <1>1, RecoveredStays, Zenon DEF ChainInv
<1>18. PICK D : /\ Grown(v, C, D)
                /\ ChainsOK(D)
                /\ AppendsOwn(v) => ExtendsChains(log'[v], log[v], D, term[v])
  BY <1>1, <1>2, ChainsGrow, Zenon
<1>3. /\ Grown(v, C, D)
      /\ ChainsOK(D)
      /\ AppendsOwn(v) =>
           /\ Rooted(log'[v], D)
           /\ StartsWith(log'[v], log[v])
           /\ LastLogTerm(log'[v]) = term[v]
           /\ \A c \in D : LastLogTerm(c) = term[v] => StartsWith(log'[v], c)
  BY <1>18, Zenon DEF ExtendsChains
<1>4. /\ C \in SUBSET Seq(Entry) /\ D \in SUBSET Seq(Entry) /\ C \subseteq D /\ ChainsOK(C)
      /\ \A d \in D : d \in C \/ (d = log'[v] /\ AppendsOwn(v))
      /\ AppendsOwn(v) => log'[v] \in D
  BY <1>3, Zenon DEF Grown, ChainInv
<1>5. /\ log \in [Node -> Seq(Entry)] /\ log' \in [Node -> Seq(Entry)]
      /\ term \in [Node -> Nat] /\ term' \in [Node -> Nat]
      /\ msgs \subseteq Message /\ msgs' \subseteq Message
  BY Zenon DEF TypeOK
<1>17. \A u \in Node : term'[u] >= term[u] /\ term[u] \in Nat /\ term'[u] \in Nat
  BY <1>1, <1>5, SMTT(30) DEF NodeStep
<1>6. \A c \in C : Rooted(c, C) /\ Rooted(c, D) /\ c \in Seq(Entry)
  BY <1>4, Zenon DEF ChainsOK, Rooted
<1>7. LogsOK(D)'
  <2>. SUFFICES ASSUME NEW u \in Node
                PROVE  /\ Rooted(log'[u], D)
                       /\ \A k \in 1..Len(log'[u]) : log'[u][k].term <= term'[u]
    BY Zenon DEF LogsOK
  <2>1. Rooted(log[u], C) /\ Rooted(log[u], D) /\ \A k \in 1..Len(log[u]) : log[u][k].term <= term[u]
    BY <1>4, Zenon DEF ChainInv, LogsOK, Rooted
  <2>2. term[u] \in Nat /\ term'[u] \in Nat /\ term'[u] >= term[u]
    BY <1>1, <1>5, SMTT(30) DEF NodeStep
  <2>3. CASE log'[u] = log[u]
    <3>1. \A k \in 1..Len(log[u]) : log[u][k] \in Entry /\ log[u][k].term \in Nat
      BY <1>5, ElementOfSeq, EntryHasTerm
    <3>. QED  BY <2>1, <2>2, <2>3, <3>1
  <2>4. CASE u = v /\ AppendsOwn(v)
    <3>1. Rooted(log'[v], D) /\ log'[v] \in D /\ LastLogTerm(log'[v]) = term'[v]
      BY <1>3, <1>4, <2>4, Zenon DEF AppendsOwn
    <3>. QED  BY <1>3, <2>4, <3>1, Zenon DEF ChainsOK
  <2>5. CASE u = v /\ FollowsChain(v, C)
    <3>1. PICK s \in C : LastLogTerm(s) = term'[v] /\ Moved(log[v], s, log'[v])
      BY <2>5, Zenon DEF FollowsChain
    <3>2. CASE log'[v] = log[v]
      BY <2>3, <2>5, <3>2, Zenon
    <3>3. CASE log'[v] # log[v]
      <4>1. StartsWith(s, log'[v]) /\ s \in Seq(Entry) /\ Rooted(s, D) /\ log'[v] \in Seq(Entry)
        BY <1>5, <1>6, <3>1, <3>3, Zenon DEF Moved
      <4>2. Rooted(log'[v], D)
        BY <4>1, RootedPrefix, Zenon
      <4>3. \A x \in 1..Len(s) : s[x].term <= term'[v]
        BY <1>4, <3>1, Zenon DEF ChainsOK
      <4>4. \A x \in 1..Len(log'[v]) : log'[v][x] = s[x] /\ x \in 1..Len(s)
        BY <4>1, LenProperties DEF StartsWith
      <4>. QED  BY <2>5, <4>2, <4>3, <4>4
    <3>. QED  BY <3>2, <3>3
  <2>. QED  BY <1>1, <2>3, <2>4, <2>5, Zenon DEF NodeStep
<1>8. elected \subseteq elected'
  BY <1>1 DEF NodeStep
<1>9. CandidatesNew'
  <2>1. ASSUME NEW e \in elected'  PROVE term'[e[2]] >= e[1]
    <3>1. e[1] \in Nat /\ e[2] \in Node
      <4>1. elected' \subseteq Nat \X Node
        BY Zenon DEF TypeOK
      <4>. QED  BY <4>1
    <3>2. term'[e[2]] >= term[e[2]] /\ term[e[2]] \in Nat /\ term'[e[2]] \in Nat
      BY <1>17, <3>1, Zenon
    <3>3. CASE e \in elected
      <4>1. term[e[2]] >= e[1]
        BY <3>3, Zenon DEF ChainInv, CandidatesNew
      <4>. QED  BY <3>1, <3>2, <4>1
    <3>4. CASE e = <<term[v], v>>
      BY <3>1, <3>2, <3>4, SMTT(30)
    <3>. QED  BY <1>1, <3>3, <3>4, Zenon DEF NodeStep
  <2>2. ASSUME NEW i \in Node, role'[i] = "Candidate"
        PROVE  <<term'[i], i>> \notin elected' /\ term'[i] > RecoveredTerm[i]
    <3>1. RecoveredTerm[i] \in Nat /\ term[i] \in Nat /\ term'[i] \in Nat /\ term[i] >= RecoveredTerm[i]
      BY <1>5, RecoveredAssumption DEF ChainInv, RecoveredKept
    <3>2. <<term'[i], i>> \in elected' => <<term'[i], i>> \in elected
      <4>1. CASE elected' = elected
        BY <4>1, SMTT(30)
      <4>2. CASE elected' = elected \cup {<<term[v], v>>} /\ role'[v] = "Leader"
        <5>1. i # v
          BY <2>2, <4>2
        <5>. QED  BY <4>2, <5>1, SMTT(30)
      <4>. QED  BY <1>1, <4>1, <4>2, Zenon DEF NodeStep, AppendsOwn
    <3>3. CASE role[i] = "Candidate" /\ term'[i] = term[i]
      <4>1. <<term[i], i>> \notin elected /\ term[i] > RecoveredTerm[i]
        BY <3>3, Zenon DEF ChainInv, CandidatesNew
      <4>. QED  BY <3>2, <3>3, <4>1
    <3>4. CASE term'[i] = term[i] + 1
      <4>1. <<term'[i], i>> \notin elected
        <5>1. ASSUME <<term'[i], i>> \in elected  PROVE term[i] >= term'[i]
          <6>1. term[<<term'[i], i>>[2]] >= <<term'[i], i>>[1]
            BY <5>1, Zenon DEF ChainInv, CandidatesNew
          <6>. QED  BY <6>1
        <5>. QED  BY <3>1, <3>4, <5>1
      <4>. QED  BY <3>1, <3>2, <3>4, <4>1, SMTT(30)
    <3>. QED  BY <1>1, <2>2, <3>3, <3>4, Zenon DEF NodeStep
  <2>. QED  BY <2>1, <2>2, Zenon DEF CandidatesNew
<1>10. Owned(D)'
  <2>. SUFFICES ASSUME NEW c \in D
                PROVE  \/ RecoveredEntryTerm(LastLogTerm(c))
                       \/ \E l \in Node : <<LastLogTerm(c), l>> \in elected'
    BY Zenon DEF Owned, RecoveredEntryTerm
  <2>1. CASE c \in C
    BY <1>8, <2>1, Zenon DEF ChainInv, Owned
  <2>2. CASE c = log'[v] /\ AppendsOwn(v) /\ role[v] = "Leader"
    <3>1. log[v] \in C /\ LastLogTerm(log[v]) = term[v]
      BY <2>2, Zenon DEF ChainInv, LeadersOwn
    <3>2. LastLogTerm(c) = LastLogTerm(log[v])
      BY <1>3, <2>2, <3>1, Zenon
    <3>3. \/ RecoveredEntryTerm(LastLogTerm(log[v]))
          \/ \E l \in Node : <<LastLogTerm(log[v]), l>> \in elected
      BY <3>1, Zenon DEF ChainInv, Owned
    <3>. QED  BY <1>8, <3>2, <3>3, Zenon
  <2>3. CASE c = log'[v] /\ AppendsOwn(v) /\ elected' = elected \cup {<<term[v], v>>}
    <3>1. LastLogTerm(c) = term[v]
      BY <1>3, <2>3, Zenon
    <3>. QED  BY <2>3, <3>1
  <2>. QED  BY <1>1, <1>4, <2>1, <2>2, <2>3, Zenon DEF NodeStep, AppendsOwn
<1>11. LeadersOwn(D)'
  <2>. SUFFICES ASSUME NEW i \in Node, role'[i] = "Leader"
                PROVE  /\ <<term'[i], i>> \in elected'
                       /\ log'[i] \in D
                       /\ LastLogTerm(log'[i]) = term'[i]
                       /\ \A c \in D : LastLogTerm(c) = term'[i] => StartsWith(log'[i], c)
    BY Zenon DEF LeadersOwn
  <2>1. CASE i = v /\ AppendsOwn(v)
    <3>1. <<term[v], v>> \in elected'
      BY <1>1, <1>8, <2>1, SMTT(30) DEF ChainInv, LeadersOwn, NodeStep, AppendsOwn
    <3>. QED  BY <1>3, <1>4, <2>1, <3>1, ZenonT(40) DEF AppendsOwn
  <2>2. CASE ~(i = v /\ AppendsOwn(v))
    <3>1. role[i] = "Leader" /\ term'[i] = term[i]
      BY <1>1, <2>2, Zenon DEF NodeStep
    <3>2. log'[i] = log[i]
      BY <1>1, <2>2, Zenon DEF NodeStep, FollowsChain
    <3>3. /\ <<term[i], i>> \in elected /\ log[i] \in C /\ LastLogTerm(log[i]) = term[i]
          /\ \A c \in C : LastLogTerm(c) = term[i] => StartsWith(log[i], c)
      BY <3>1, Zenon DEF ChainInv, LeadersOwn
    <3>4. ASSUME NEW c \in D, LastLogTerm(c) = term[i]  PROVE c \in C
      <4>. SUFFICES ASSUME c = log'[v], AppendsOwn(v)  PROVE FALSE
        BY <1>4, Zenon
      <4>1. i # v /\ LastLogTerm(c) = term[v] /\ term[v] = term[i]
        BY <1>3, <2>2, <3>4, Zenon
      <4>2. role'[v] = "Leader"
        BY Zenon DEF AppendsOwn
      <4>3. CASE role[v] = "Leader"
        <5>1. <<term[v], v>> \in elected' /\ <<term[v], i>> \in elected'
          BY <1>8, <3>3, <4>1, <4>3, Zenon DEF ChainInv, LeadersOwn
        <5>2. v = i
          BY <5>1 DEF ElectionSafety
        <5>. QED  BY <4>1, <5>2
      <4>4. CASE role[v] = "Candidate" /\ elected' = elected \cup {<<term[v], v>>}
        <5>1. LastLogTerm(log[i]) # term[v]
          BY <1>1, <1>2, <3>3, <4>4, WonTermIsNew, Zenon
        <5>. QED  BY <3>3, <4>1, <5>1, Zenon
      <4>. QED  BY <1>1, <4>2, <4>3, <4>4, Zenon DEF NodeStep
    <3>. QED  BY <1>4, <1>8, <3>1, <3>2, <3>3, <3>4, Zenon
  <2>. QED  BY <2>1, <2>2, Zenon
<1>13. ASSUME NEW m \in msgs, m.type = "InstallSnapshot"  PROVE m.state \in Seq(Entry) /\ Rooted(m.state, D)
  <2>1. m.state \in Seq(Entry)
    BY <1>5, <1>13, Zenon DEF Message
  <2>2. PICK s \in C : LastLogTerm(s) = m.term /\ Carries(m, s)
    BY <1>13, Zenon DEF ChainInv, MsgsOK
  <2>3. StartsWith(s, m.state)
    BY <1>13, <2>2, Zenon DEF Carries
  <2>. QED  BY <1>6, <2>1, <2>3, RootedPrefix, Zenon
<1>14. StoredOK(D)'
  <2>. SUFFICES ASSUME NEW i \in Node
                PROVE  Rooted(capture'[i], D) /\ \A f \in files'[i] : Rooted(f, D)
    BY Zenon DEF StoredOK
  <2>1. /\ Rooted(capture[i], D)
        /\ \A f \in files[i] : Rooted(f, D)
        /\ Rooted(log[i], D)
        /\ log[i] \in Seq(Entry) /\ capture'[i] \in Seq(Entry)
    BY <1>4, Zenon DEF ChainInv, StoredOK, LogsOK, TypeOK, Rooted
  <2>2. Rooted(<<>>, D)
    BY EmptySeq DEF Rooted
  <2>3. Rooted(capture'[i], D)
    BY <1>1, <2>1, <2>2, RootedPrefix, Zenon DEF StoreStep
  <2>. QED  BY <1>1, <1>13, <2>1, <2>3, Zenon DEF StoreStep
<1>15. MsgsOK(D)'
  <2>. SUFFICES ASSUME NEW m \in msgs', m.type \in {"AppendEntries", "InstallSnapshot"}
                PROVE  \E s \in D : LastLogTerm(s) = m.term /\ Carries(m, s)
    BY Zenon DEF MsgsOK, Carries
  <2>1. CASE m \in msgs
    BY <1>4, <2>1, Zenon DEF ChainInv, MsgsOK
  <2>2. CASE role'[m.from] = "Leader" /\ term'[m.from] = m.term /\ Carries(m, log'[m.from])
    <3>1. m.from \in Node
      BY <1>5, MessageSender
    <3>2. log'[m.from] \in D /\ LastLogTerm(log'[m.from]) = m.term
      BY <1>11, <2>2, <3>1, Zenon DEF LeadersOwn
    <3>. QED  BY <2>2, <3>2, Zenon
  <2>. QED  BY <1>1, <2>1, <2>2, Zenon DEF SendStep
<1>16. ChainInv(D)'
  BY <1>2, <1>3, <1>4, <1>7, <1>9, <1>10, <1>11, <1>14, <1>15, ZenonT(40) DEF ChainInv
<1>. QED  BY <1>3, <1>16

-----------------------------------------------------------------------------
\* Nothing changes while nothing steps.
LEMMA StutterChain ==
  ASSUME NEW C, ChainInv(C), UNCHANGED vars
  PROVE  ChainInv(C)'
BY Zenon DEF ChainInv, LogsOK, Owned, CandidatesNew, LeadersOwn, StoredOK, MsgsOK, RecoveredKept,
     vars, hardVars, electionVars, logVars, snapshotVars, historyVars

-----------------------------------------------------------------------------
(* What is recovered *)

\* The logs that an earlier run left hang together.
LEMMA RecoveredChainsOK ==
  /\ RecoveredChains \in SUBSET Seq(Entry)
  /\ ChainsOK(RecoveredChains)
  /\ \A i \in Node : Rooted(RecoveredLog[i], RecoveredChains)
  /\ \A c \in RecoveredChains : RecoveredEntryTerm(LastLogTerm(c))
<1>. DEFINE C == RecoveredChains
<1>1. \A i \in Node : RecoveredLog[i] \in Seq(Entry) /\ Len(RecoveredLog[i]) \in Nat
  BY RecoveredAssumption, LenProperties
<1>2. ASSUME NEW i \in Node, NEW k \in 1..Len(RecoveredLog[i])
      PROVE  /\ SubSeq(RecoveredLog[i], 1, k) \in C
             /\ SubSeq(RecoveredLog[i], 1, k) \in Seq(Entry)
             /\ Len(SubSeq(RecoveredLog[i], 1, k)) = k
             /\ \A x \in 1..k : SubSeq(RecoveredLog[i], 1, k)[x] = RecoveredLog[i][x]
             /\ LastLogTerm(SubSeq(RecoveredLog[i], 1, k)) = RecoveredLog[i][k].term
  <2>1. k \in 0..Len(RecoveredLog[i]) /\ k > 0
    BY <1>1
  <2>2. SubSeq(RecoveredLog[i], 1, k) \in C
    BY DEF RecoveredChains
  <2>. QED  BY <1>1, <2>1, <2>2, FirstEntries, Zenon
<1>3. ASSUME NEW c \in C
      PROVE  \E i \in Node : \E k \in 1..Len(RecoveredLog[i]) :
               /\ c = SubSeq(RecoveredLog[i], 1, k)
               /\ c \in Seq(Entry) /\ Len(c) = k
               /\ \A x \in 1..k : c[x] = RecoveredLog[i][x]
               /\ LastLogTerm(c) = RecoveredLog[i][k].term
  <2>1. PICK i \in Node : \E k \in 1..Len(RecoveredLog[i]) : c = SubSeq(RecoveredLog[i], 1, k)
    BY DEF RecoveredChains
  <2>2. PICK k \in 1..Len(RecoveredLog[i]) : c = SubSeq(RecoveredLog[i], 1, k)
    BY <2>1
  <2>3. /\ c \in Seq(Entry) /\ Len(c) = k
        /\ \A x \in 1..k : c[x] = RecoveredLog[i][x]
        /\ LastLogTerm(c) = RecoveredLog[i][k].term
    BY <1>2, <2>2
  <2>. QED  BY <2>2, <2>3, Zenon
<1>4. \A i \in Node : Rooted(RecoveredLog[i], C)
  BY <1>2 DEF Rooted
<1>. HIDE DEF C
<1>5. ASSUME NEW c \in C
      PROVE  /\ c # <<>>
             /\ Rooted(c, C)
             /\ \A x \in 1..Len(c) : 1 <= c[x].term /\ c[x].term <= LastLogTerm(c)
             /\ RecoveredEntryTerm(LastLogTerm(c))
  <2>1. PICK i \in Node : \E k \in 1..Len(RecoveredLog[i]) :
               /\ c = SubSeq(RecoveredLog[i], 1, k)
               /\ c \in Seq(Entry) /\ Len(c) = k
               /\ \A x \in 1..k : c[x] = RecoveredLog[i][x]
               /\ LastLogTerm(c) = RecoveredLog[i][k].term
    BY <1>3
  <2>2. PICK k \in 1..Len(RecoveredLog[i]) :
               /\ c \in Seq(Entry) /\ Len(c) = k
               /\ \A x \in 1..k : c[x] = RecoveredLog[i][x]
               /\ LastLogTerm(c) = RecoveredLog[i][k].term
    BY <2>1
  <2>3. k \in Nat /\ k <= Len(RecoveredLog[i]) /\ k # 0 /\ RecoveredLog[i] \in Seq(Entry)
    BY <1>1
  <2>4. c # <<>>
    BY <2>2, <2>3, EmptySeq
  <2>5. StartsWith(RecoveredLog[i], c)
    BY <2>2, <2>3 DEF StartsWith
  <2>6. Rooted(c, C)
    BY <1>4, <2>2, <2>3, <2>5, RootedPrefix, Zenon
  <2>7. ASSUME NEW x \in 1..Len(c)  PROVE 1 <= c[x].term /\ c[x].term <= LastLogTerm(c)
    <3>1. x \in 1..k /\ x \in 1..Len(RecoveredLog[i])
      BY <2>2, <2>3
    <3>2. 1 <= RecoveredLog[i][x].term /\ RecoveredLog[i][x].term <= RecoveredLog[i][k].term
      BY <3>1, RecoveredHistoryAssumption, Zenon
    <3>3. c[x] = RecoveredLog[i][x]
      BY <2>2, <3>1
    <3>. QED  BY <2>2, <3>2, <3>3, Zenon
  <2>8. RecoveredEntryTerm(LastLogTerm(c))
    BY <2>2, Zenon DEF RecoveredEntryTerm
  <2>. QED  BY <2>4, <2>6, <2>7, <2>8, Zenon
<1>6. ASSUME NEW c \in C, NEW d \in C, LastLogTerm(c) = LastLogTerm(d), Len(c) <= Len(d)
      PROVE  StartsWith(d, c)
  <2>1. PICK i \in Node : \E k \in 1..Len(RecoveredLog[i]) :
               /\ Len(c) = k
               /\ \A x \in 1..k : c[x] = RecoveredLog[i][x]
               /\ LastLogTerm(c) = RecoveredLog[i][k].term
    BY <1>3, Zenon
  <2>2. PICK k \in 1..Len(RecoveredLog[i]) :
               /\ Len(c) = k
               /\ \A x \in 1..k : c[x] = RecoveredLog[i][x]
               /\ LastLogTerm(c) = RecoveredLog[i][k].term
    BY <2>1, Zenon
  <2>3. PICK j \in Node : \E n \in 1..Len(RecoveredLog[j]) :
               /\ Len(d) = n
               /\ \A x \in 1..n : d[x] = RecoveredLog[j][x]
               /\ LastLogTerm(d) = RecoveredLog[j][n].term
    BY <1>3, Zenon
  <2>4. PICK n \in 1..Len(RecoveredLog[j]) :
               /\ Len(d) = n
               /\ \A x \in 1..n : d[x] = RecoveredLog[j][x]
               /\ LastLogTerm(d) = RecoveredLog[j][n].term
    BY <2>3, Zenon
  <2>5. k <= n /\ RecoveredLog[i][k].term = RecoveredLog[j][n].term
    BY <1>6, <2>2, <2>4, Zenon
  <2>6. \A x \in 1..k : RecoveredLog[i][x] = RecoveredLog[j][x]
    BY <2>5, RecoveredHistoryAssumption, Zenon
  <2>7. \A x \in 1..k : x \in 1..n
    BY <1>1, <2>5
  <2>8. \A x \in 1..Len(c) : d[x] = c[x]
    BY <2>2, <2>4, <2>6, <2>7, Zenon
  <2>. QED  BY <1>6, <2>8, Zenon DEF StartsWith
<1>7. C \in SUBSET Seq(Entry)
  BY <1>3
<1>8. ChainsOK(C)
  BY <1>5, <1>6, Zenon DEF ChainsOK
<1>. QED  BY <1>4, <1>5, <1>7, <1>8, Zenon DEF C

\* The initial state.
LEMMA InitChain ==
  ASSUME Init
  PROVE  ChainInv(RecoveredChains) /\ AppliedIsCommitted
<1>. DEFINE C == RecoveredChains
<1>1. /\ C \in SUBSET Seq(Entry) /\ ChainsOK(C)
      /\ \A i \in Node : Rooted(RecoveredLog[i], C)
      /\ \A c \in C : RecoveredEntryTerm(LastLogTerm(c))
  BY RecoveredChainsOK
<1>. HIDE DEF C
<1>2. /\ log = RecoveredLog /\ term = RecoveredTerm /\ votedFor = RecoveredVote /\ elected = {} /\ msgs = {}
      /\ role = [i \in Node |-> "Follower"] /\ capture = [i \in Node |-> <<>>]
      /\ base = RecoveredSnapshot /\ commitIndex = RecoveredCommit /\ lastApplied = RecoveredCommit
      /\ files = [i \in Node |-> {Prefix(log[i], k) : k \in {base[i]} \ {0}}]
      /\ ballots = {<<term[i], i, votedFor[i]>> : i \in {j \in Node : votedFor[j] # NoNode}}
  BY Zenon DEF Init
<1>3. /\ RecoveredTerm \in [Node -> Nat] /\ RecoveredLog \in [Node -> Seq(Entry)]
      /\ RecoveredCommit \in [Node -> Nat] /\ RecoveredSnapshot \in [Node -> Nat]
      /\ \A i \in Node : RecoveredSnapshot[i] <= RecoveredCommit[i]
  BY RecoveredAssumption
<1>4. AppliedIsCommitted
  BY <1>2, <1>3 DEF AppliedIsCommitted
<1>5. LogsOK(C)
  <2>1. \A i \in Node : \A k \in 1..Len(log[i]) : log[i][k].term <= term[i]
    BY <1>2, RecoveredHistoryAssumption, Zenon
  <2>. QED  BY <1>1, <1>2, <2>1, Zenon DEF LogsOK
<1>6. Owned(C)
  BY <1>1, ZenonT(40) DEF Owned
<1>7. CandidatesNew /\ LeadersOwn(C) /\ MsgsOK(C)
  BY <1>2, SMTT(30) DEF CandidatesNew, LeadersOwn, MsgsOK
<1>8. StoredOK(C)
  <2>. SUFFICES ASSUME NEW i \in Node  PROVE Rooted(capture[i], C) /\ \A f \in files[i] : Rooted(f, C)
    BY SMTT(30) DEF StoredOK
  <2>1. Rooted(capture[i], C)
    <3>1. Len(<<>>) = 0
      BY EmptySeq
    <3>. QED  BY <1>2, <3>1 DEF Rooted
  <2>2. ASSUME NEW f \in files[i]  PROVE Rooted(f, C)
    <3>1. f = Prefix(log[i], base[i])
      BY <1>2, <2>2, SMTT(30)
    <3>2. log[i] \in Seq(Entry) /\ base[i] \in Nat /\ Len(log[i]) \in Nat
      BY <1>2, <1>3, LenProperties, SMTT(30)
    <3>3. Smaller(base[i], Len(log[i])) \in 0..Len(log[i])
      BY <3>2 DEF Smaller
    <3>4. f \in Seq(Entry) /\ StartsWith(log[i], f)
      BY <3>1, <3>2, <3>3, FirstEntries, Zenon DEF Prefix
    <3>. QED  BY <1>1, <1>2, <3>2, <3>4, RootedPrefix, ZenonT(40)
  <2>. QED  BY <2>1, <2>2, SMTT(30)
<1>9. RecoveredKept
  <2>1. \A i \in Node : term[i] >= RecoveredTerm[i]
    BY <1>2, <1>3, SMTT(30)
  <2>2. \A i \in Node : RecoveredVote[i] # NoNode => <<RecoveredTerm[i], i, RecoveredVote[i]>> \in ballots
    BY <1>2, SMTT(30)
  <2>3. ASSUME NEW b \in ballots  PROVE b[1] >= RecoveredTerm[b[2]]
    <3>1. PICK i \in Node : b = <<term[i], i, votedFor[i]>>
      BY <1>2
    <3>. QED  BY <1>2, <1>3, <3>1, SMTT(30)
  <2>. QED  BY <2>1, <2>2, <2>3, SMTT(30) DEF RecoveredKept
<1>. QED  BY <1>1, <1>4, <1>5, <1>6, <1>7, <1>8, <1>9, ZenonT(40) DEF ChainInv, C

\* What the chains say of the logs.
LEMMA ChainsMatch ==
  ASSUME TypeOK, NEW C, ChainInv(C)
  PROVE  LogMatching /\ LogTermsAscend
<1>1. /\ C \in SUBSET Seq(Entry) /\ ChainsOK(C)
      /\ \A i \in Node : /\ log[i] \in Seq(Entry) /\ Len(log[i]) \in Nat /\ Rooted(log[i], C)
                         /\ \A k \in 1..Len(log[i]) : log[i][k].term <= term[i]
  BY LenProperties DEF ChainInv, LogsOK, TypeOK
<1>2. LogMatching
  <2>. SUFFICES ASSUME NEW i \in Node, NEW j \in Node, NEW k \in 1..Smaller(Len(log[i]), Len(log[j])),
                       log[i][k].term = log[j][k].term
                PROVE  Agree(log[i], log[j], k)
    BY Zenon DEF LogMatching
  <2>1. k \in 1..Len(log[i]) /\ k <= Len(log[j])
    <3>. DEFINE x == Len(log[i])
                y == Len(log[j])
    <3>1. x \in Nat /\ y \in Nat
      BY <1>1, Zenon
    <3>2. k \in 1..Smaller(x, y)
      OBVIOUS
    <3>. HIDE DEF x, y
    <3>3. k \in 1..x /\ k <= y
      BY <3>1, <3>2, SMTT(30) DEF Smaller
    <3>. QED  BY <3>3, Zenon DEF x, y
  <2>. QED  BY <1>1, <2>1, TermsAgree, ZenonT(40)
<1>3. LogTermsAscend
  <2>. SUFFICES ASSUME NEW i \in Node, NEW k \in 1..Len(log[i])
                PROVE  log[i][k].term <= term[i] /\ (k > 1 => log[i][k - 1].term <= log[i][k].term)
    BY DEF LogTermsAscend
  <2>1. \A x \in 1..k : log[i][x].term <= log[i][k].term
    BY <1>1, RootedAscends, Zenon
  <2>2. k > 1 => k - 1 \in 1..k
    BY <1>1
  <2>. QED  BY <1>1, <2>1, <2>2, SMTT(30)
<1>. QED  BY <1>2, <1>3, ZenonT(40)

-----------------------------------------------------------------------------
(* Elections *)

\* Two quorums of ballots of one term share a voter, who voted once.
LEMMA QuorumsDecide ==
  ASSUME QuorumsMeet, TypeOK, ElectionInv
  PROVE  ElectionSafety
<1>. SUFFICES ASSUME NEW a \in elected, NEW b \in elected, a[1] = b[1]
              PROVE  a[2] = b[2]
  BY DEF ElectionSafety
<1>1. PICK A \in SUBSET Node : Cardinality(A) >= quorum /\ \A v \in A : <<a[1], v, a[2]>> \in ballots
  BY DEF ElectionInv, ElectedByQuorum
<1>2. PICK B \in SUBSET Node : Cardinality(B) >= quorum /\ \A v \in B : <<b[1], v, b[2]>> \in ballots
  BY DEF ElectionInv, ElectedByQuorum
<1>3. PICK v \in Node : v \in A /\ v \in B
  BY <1>1, <1>2, Zenon DEF QuorumsMeet
<1>4. <<a[1], v, a[2]>> \in ballots /\ <<b[1], v, b[2]>> \in ballots
  BY <1>1, <1>2, <1>3
<1>. QED  BY <1>4 DEF ElectionInv, OneBallot

\* What every step does to the vote of a Node: it stays within a term, and terms
\* never fall.
VoteKept ==
  \A i \in Node : /\ term'[i] >= term[i]
                  /\ term'[i] = term[i] /\ votedFor[i] # NoNode => votedFor'[i] = votedFor[i]

\* A step that casts no ballot, elects no Leader and adds to no Candidate's votes.
NoElectionStep ==
  /\ VoteKept
  /\ ballots' = ballots
  /\ elected' = elected
  /\ \A m \in msgs' : m.type = "VoteResponse" => m \in msgs
  /\ \A i \in Node : role'[i] = "Candidate" =>
       role[i] = "Candidate" /\ term'[i] = term[i] /\ votes'[i] = votes[i]

\* Such a step preserves the invariant.
LEMMA NoElectionStepInv ==
  ASSUME TypeOK, TypeOK', ElectionInv, NoElectionStep
  PROVE  ElectionInv'
<1>1. BallotsBind'
  <2>. SUFFICES ASSUME NEW b \in ballots
                PROVE  \/ term'[b[2]] > b[1]
                       \/ term'[b[2]] = b[1] /\ votedFor'[b[2]] = b[3]
    BY DEF BallotsBind, NoElectionStep
  <2>1. b[1] \in Nat /\ b[2] \in Node /\ b[3] \in Node
    BY Zenon DEF TypeOK
  <2>2. \/ term[b[2]] > b[1]
        \/ term[b[2]] = b[1] /\ votedFor[b[2]] = b[3]
    BY DEF ElectionInv, BallotsBind
  <2>3. b[3] # NoNode
    BY <2>1, NodeAssumption, Zenon
  <2>4. /\ term'[b[2]] >= term[b[2]]
        /\ term'[b[2]] = term[b[2]] /\ votedFor[b[2]] # NoNode =>
             votedFor'[b[2]] = votedFor[b[2]]
    BY <2>1, Zenon DEF NoElectionStep, VoteKept
  <2>5. term[b[2]] \in Nat /\ term'[b[2]] \in Nat
    BY <2>1 DEF TypeOK
  <2>6. CASE term'[b[2]] = term[b[2]]
    BY <2>2, <2>3, <2>4, <2>6, Zenon
  <2>7. CASE term'[b[2]] # term[b[2]]
    <3>1. term'[b[2]] > term[b[2]]
      BY <2>4, <2>5, <2>7, SMTT(30)
    <3>. QED  BY <2>1, <2>2, <2>5, <3>1, SMTT(30)
  <2>. QED  BY <2>6, <2>7, SMTT(30)
<1>2. OneBallot'
  BY DEF ElectionInv, OneBallot, NoElectionStep
<1>3. GrantsAreBallots'
  BY DEF ElectionInv, GrantsAreBallots, NoElectionStep
<1>4. VotesAreBallots'
  BY DEF ElectionInv, VotesAreBallots, NoElectionStep
<1>5. ElectedByQuorum'
  BY DEF ElectionInv, ElectedByQuorum, NoElectionStep
<1>. QED  BY <1>1, <1>2, <1>3, <1>4, <1>5, SMTT(30) DEF ElectionInv

-----------------------------------------------------------------------------
(* Steps that cast no ballot *)

\* becomeFollower in the same or a higher term makes no Candidate.
LEMMA BecomeFollowerElection ==
  ASSUME TypeOK, NEW i \in Node, NEW t \in Nat, t >= term[i], NEW leader, NEW prog,
         BecomeFollowerWith(i, t, leader, prog)
  PROVE  /\ term'[i] = t
         /\ \A k \in Node : k # i => term'[k] = term[k]
         /\ \A k \in Node : role'[k] = "Candidate" =>
              role[k] = "Candidate" /\ term'[k] = term[k] /\ votes'[k] = votes[k]
<1>1. /\ role' = [role EXCEPT ![i] = "Follower"]
      /\ term' = [term EXCEPT ![i] = t]
      /\ votes' = [votes EXCEPT ![i] = {}]
  BY DEF BecomeFollowerWith
<1>2. /\ role \in [Node -> Role] /\ term \in [Node -> Nat] /\ votes \in [Node -> SUBSET Node]
  BY DEF TypeOK
<1>. QED  BY <1>1, <1>2

\* Moving to term t with the vote held in it keeps the vote.
LEMMA VoteInKept ==
  ASSUME TypeOK, NEW i \in Node, NEW t \in Nat, t >= term[i], term'[i] = t,
         \A k \in Node : k # i => term'[k] = term[k],
         votedFor' = [votedFor EXCEPT ![i] = VoteIn(i, t)]
  PROVE  VoteKept
<1>1. term \in [Node -> Nat] /\ votedFor \in [Node -> Node \cup {NoNode}]
  BY DEF TypeOK
<1>2. \A k \in Node : k # i => votedFor'[k] = votedFor[k]
  BY <1>1
<1>3. t = term[i] => votedFor'[i] = votedFor[i]
  BY <1>1 DEF VoteIn
<1>4. ASSUME NEW k \in Node
      PROVE  term'[k] >= term[k] /\ (term'[k] = term[k] => votedFor'[k] = votedFor[k])
  <2>1. CASE k = i
    BY <1>3, <2>1, Zenon
  <2>2. CASE k # i
    BY <1>1, <1>2, <2>2, NotAboveItself, Zenon
  <2>. QED  BY <2>1, <2>2, Zenon
<1>. QED  BY <1>4, Zenon DEF VoteKept

\* A response of a higher term.
LEMMA StepDownElection ==
  ASSUME TypeOK, NEW m \in msgs, NEW t \in Nat, StepDown(m, t)
  PROVE  NoElectionStep
<1>1. m.to \in Node /\ term[m.to] \in Nat /\ t > term[m.to] /\ BecomeFollower(m.to, t, NoNode)
  BY MessageEnvelope DEF TypeOK, StepDown
<1>0. t >= term[m.to]
  BY <1>1, Above, ZenonT(40)
<1>2. /\ term'[m.to] = t
      /\ \A k \in Node : k # m.to => term'[k] = term[k]
      /\ \A k \in Node : role'[k] = "Candidate" =>
           role[k] = "Candidate" /\ term'[k] = term[k] /\ votes'[k] = votes[k]
  BY <1>1, BecomeFollowerElection DEF BecomeFollower
<1>3. votedFor' = [votedFor EXCEPT ![m.to] = VoteIn(m.to, t)]
  BY <1>1, Zenon DEF StepDown, VoteIn
<1>4. VoteKept
  BY <1>0, <1>1, <1>2, <1>3, VoteInKept, ZenonT(40)
<1>5. ballots' = ballots /\ elected' = elected /\ msgs' \subseteq msgs
  BY DEF StepDown, Reply, historyVars
<1>. QED  BY <1>2, <1>4, <1>5, ZenonT(40) DEF NoElectionStep

\* A Leader is heard.
LEMMA FollowLeaderElection ==
  ASSUME TypeOK, NEW i \in Node, NEW t \in Nat, t >= term[i], NEW leader \in Node,
         FollowLeader(i, t, leader)
  PROVE  /\ VoteKept
         /\ \A k \in Node : role'[k] = "Candidate" =>
              role[k] = "Candidate" /\ term'[k] = term[k] /\ votes'[k] = votes[k]
<1>1. term[i] \in Nat /\ votedFor' = [votedFor EXCEPT ![i] = VoteIn(i, t)]
  BY DEF FollowLeader, TypeOK
<1>2. /\ term'[i] = t
      /\ \A k \in Node : k # i => term'[k] = term[k]
      /\ \A k \in Node : role'[k] = "Candidate" =>
           role[k] = "Candidate" /\ term'[k] = term[k] /\ votes'[k] = votes[k]
  <2>1. CASE t > term[i]
    <3>1. BecomeFollower(i, t, leader)
      BY <2>1 DEF FollowLeader
    <3>. QED  BY <3>1, BecomeFollowerElection DEF BecomeFollower
  <2>2. CASE ~(t > term[i])
    <3>1. term' = term /\ votes' = votes /\ role' = [role EXCEPT ![i] = "Follower"]
      BY <2>2 DEF FollowLeader
    <3>2. term[i] = t
      BY <1>1, <2>2
    <3>. QED  BY <3>1, <3>2, ZenonT(40) DEF TypeOK
  <2>. QED  BY <2>1, <2>2, ZenonT(40)
<1>3. VoteKept
  BY <1>1, <1>2, VoteInKept, Zenon
<1>. QED  BY <1>2, <1>3, ZenonT(40)

\* A process that starts from the vote it had made durable.
LEMMA RecoverElection ==
  ASSUME TypeOK, NEW i \in Node, NEW t \in Nat, t >= term[i], NEW entries, NEW disk,
         NEW inFlight \in SUBSET msgs, Recover(i, t, VoteIn(i, t), entries, disk, inFlight)
  PROVE  NoElectionStep
<1>1. /\ BecomeFollowerWith(i, t, NoNode, [j \in Node |-> NoProgress])
      /\ votedFor' = [votedFor EXCEPT ![i] = VoteIn(i, t)]
      /\ msgs' = inFlight
      /\ ballots' = ballots /\ elected' = elected
  BY ZenonT(40) DEF Recover
<1>2. /\ term'[i] = t
      /\ \A k \in Node : k # i => term'[k] = term[k]
      /\ \A k \in Node : role'[k] = "Candidate" =>
           role[k] = "Candidate" /\ term'[k] = term[k] /\ votes'[k] = votes[k]
  BY <1>1, BecomeFollowerElection
<1>3. VoteKept
  BY <1>1, <1>2, VoteInKept, ZenonT(40)
<1>. QED  BY <1>1, <1>2, <1>3, ZenonT(40) DEF NoElectionStep

\* A step that changes no hard state, role or vote of any Node.
LEMMA QuietElection ==
  ASSUME TypeOK, UNCHANGED <<hardVars, role, votes, ballots, elected>>,
         \A m \in msgs' : m.type = "VoteResponse" => m \in msgs
  PROVE  NoElectionStep
BY DEF NoElectionStep, VoteKept, TypeOK, hardVars

\* Steps of one Node that concern neither its vote nor its candidacy.
LEMMA LocalElection ==
  ASSUME LeastElements, CountsAreNat, TypeOK, NEW i \in Node,
         \/ StartPreVote(i)
         \/ \E cmd \in Command : Propose(i, cmd)
         \/ ConfirmRead(i)
         \/ HeartbeatRound(i)
         \/ StartSnapshot(i) \/ SaveSnapshot(i) \/ FinishSnapshot(i)
  PROVE  NoElectionStep
<1>. DEFINE quiet == UNCHANGED <<hardVars, role, votes, ballots, elected>>
<1>1. ASSUME msgs' \subseteq msgs \cup LeaderMessage
      PROVE  \A m \in msgs' : m.type = "VoteResponse" => m \in msgs
  BY <1>1, Zenon DEF LeaderMessage
<1>2. CASE StartPreVote(i)
  <2>1. UNCHANGED <<hardVars, votes, ballots, elected>> /\ role' = [role EXCEPT ![i] = "PreCandidate"]
    BY <1>2, ZenonT(40) DEF StartPreVote
  <2>2. \A m \in msgs' : m.type = "VoteResponse" => m \in msgs
    BY <1>2 DEF StartPreVote, Send, VoteRequestTo
  <2>3. /\ term' = term /\ votedFor' = votedFor /\ votes' = votes
        /\ \A k \in Node : term[k] \in Nat
    BY <2>1, Zenon DEF TypeOK, hardVars
  <2>4. VoteKept
    BY <2>3, NotAboveItself, ZenonT(40) DEF VoteKept
  <2>5. \A k \in Node : role'[k] = "Candidate" => role[k] = "Candidate"
    BY <2>1 DEF TypeOK
  <2>. QED  BY <2>1, <2>2, <2>3, <2>4, <2>5, ZenonT(40) DEF NoElectionStep
<1>3. ASSUME NEW cmd \in Command, Propose(i, cmd)  PROVE NoElectionStep
  <2>1. quiet
    BY <1>3, Zenon DEF Propose, electionVars
  <2>. QED  BY <1>1, <1>3, <2>1, ProposeType, QuietElection, Zenon
<1>4. CASE ConfirmRead(i)
  <2>1. quiet
    BY <1>4 DEF ConfirmRead, electionVars
  <2>. QED  BY <1>1, <1>4, <2>1, ConfirmReadType, QuietElection, ZenonT(40)
<1>5. CASE HeartbeatRound(i)
  <2>1. quiet
    BY <1>5, Zenon DEF HeartbeatRound, electionVars
  <2>. QED  BY <1>1, <1>5, <2>1, HeartbeatRoundType, QuietElection, Zenon
<1>6. CASE StartSnapshot(i) \/ SaveSnapshot(i) \/ FinishSnapshot(i)
  <2>1. quiet /\ msgs' = msgs
    BY <1>6, Zenon DEF StartSnapshot, SaveSnapshot, FinishSnapshot, electionVars, historyVars
  <2>. QED  BY <2>1, QuietElection, SMTT(40)
<1>. QED  BY <1>2, <1>3, <1>4, <1>5, <1>6, Zenon

\* A Leader that lost its quorum keeps its term and vote.
LEMMA CheckQuorumElection ==
  ASSUME TypeOK, NEW i \in Node, CheckQuorum(i)
  PROVE  NoElectionStep
<1>1. UNCHANGED <<votedFor, msgs, ballots, elected>> /\ term[i] \in Nat
  BY Zenon DEF CheckQuorum, TypeOK
<1>2. CASE BecomeFollower(i, term[i], NoNode)
  <2>1. /\ \A k \in Node : term'[k] = term[k]
        /\ \A k \in Node : role'[k] = "Candidate" =>
             role[k] = "Candidate" /\ term'[k] = term[k] /\ votes'[k] = votes[k]
    <3>1. term[i] >= term[i]
      BY <1>1
    <3>2. BecomeFollowerWith(i, term[i], NoNode, ForgetProgress(i))
      BY <1>2, Zenon DEF BecomeFollower
    <3>. QED  BY <1>1, <3>1, <3>2, BecomeFollowerElection, Zenon
  <2>2. \A k \in Node : term[k] \in Nat
    BY Zenon DEF TypeOK
  <2>3. VoteKept
    BY <1>1, <2>1, <2>2, NotAboveItself, Zenon DEF VoteKept
  <2>. QED  BY <1>1, <2>1, <2>3, ZenonT(40) DEF NoElectionStep
<1>3. CASE ~BecomeFollower(i, term[i], NoNode)
  <2>1. UNCHANGED <<hardVars, role, votes>>
    BY <1>1, <1>3, Zenon DEF CheckQuorum, electionVars, hardVars
  <2>. QED  BY <1>1, <2>1, QuietElection, Zenon
<1>. QED  BY <1>2, <1>3, Zenon

\* Requests of a Leader, and crashes while they are handled.
LEMMA FollowerElection ==
  ASSUME TypeOK, NEW m \in msgs,
         \/ HandleAppendEntries(m) \/ CrashInAppendEntries(m)
         \/ HandleInstallSnapshot(m) \/ CrashInInstallSnapshot(m)
  PROVE  NoElectionStep
<1>1. m.to \in Node /\ m.from \in Node /\ m.term \in Nat /\ term[m.to] \in Nat
  BY MessageEnvelope, ZenonT(40) DEF TypeOK
<1>2. CASE HandleAppendEntries(m)
  <2>1. ballots' = ballots /\ elected' = elected
    BY <1>2, Zenon DEF HandleAppendEntries, historyVars
  <2>2. \A x \in msgs' : x.type = "VoteResponse" => x \in msgs
    <3>1. \E t, success, match, hint :
            Reply(m, {AppendEntriesResponse(m, t, success, match, hint)})
      BY <1>2, ZenonT(40) DEF HandleAppendEntries
    <3>. QED  BY <3>1 DEF Reply, AppendEntriesResponse
  <2>3. \/ UNCHANGED <<hardVars, electionVars>>
        \/ m.term >= term[m.to] /\ FollowLeader(m.to, m.term, m.from)
    BY <1>2, Zenon DEF HandleAppendEntries
  <2>4. CASE UNCHANGED <<hardVars, electionVars>>
    BY <2>1, <2>2, <2>4, QuietElection, Zenon DEF electionVars
  <2>5. CASE m.term >= term[m.to] /\ FollowLeader(m.to, m.term, m.from)
    BY <1>1, <2>1, <2>2, <2>5, FollowLeaderElection, ZenonT(40) DEF NoElectionStep
  <2>. QED  BY <2>3, <2>4, <2>5, SMTT(40)
<1>3. CASE CrashInAppendEntries(m)
  <2>1. /\ m.term >= term[m.to]
        /\ \E entries : Recover(m.to, m.term, VoteIn(m.to, m.term), entries, files[m.to], msgs \ {m})
    BY <1>3, Zenon DEF CrashInAppendEntries
  <2>2. msgs \ {m} \in SUBSET msgs
    BY SMTT(40)
  <2>. QED  BY <1>1, <2>1, <2>2, RecoverElection, Zenon
<1>4. CASE HandleInstallSnapshot(m)
  <2>1. ballots' = ballots /\ elected' = elected
    BY <1>4, ZenonT(40) DEF HandleInstallSnapshot, historyVars
  <2>2. \A x \in msgs' : x.type = "VoteResponse" => x \in msgs
    <3>1. \E curTerm, success, a, b : Reply(m, {SnapshotResponse(m, curTerm, success, a, b)})
      BY <1>4, Zenon DEF HandleInstallSnapshot
    <3>. QED  BY <3>1 DEF Reply, SnapshotResponse
  <2>3. \/ UNCHANGED <<hardVars, electionVars>>
        \/ m.term >= term[m.to] /\ FollowLeader(m.to, m.term, m.from)
    BY <1>4, ZenonT(40) DEF HandleInstallSnapshot
  <2>4. CASE UNCHANGED <<hardVars, electionVars>>
    BY <2>1, <2>2, <2>4, QuietElection, Zenon DEF electionVars
  <2>5. CASE m.term >= term[m.to] /\ FollowLeader(m.to, m.term, m.from)
    BY <1>1, <2>1, <2>2, <2>5, FollowLeaderElection, Zenon DEF NoElectionStep
  <2>. QED  BY <2>3, <2>4, <2>5
<1>5. CASE CrashInInstallSnapshot(m)
  <2>1. PICK t \in {term[m.to], m.term} :
          Recover(m.to, t, VoteIn(m.to, t), log[m.to], files[m.to] \cup {m.state}, msgs \ {m})
    BY <1>5, ZenonT(40) DEF CrashInInstallSnapshot
  <2>2. t \in Nat /\ t >= term[m.to] /\ msgs \ {m} \in SUBSET msgs
    <3>1. m.term >= term[m.to] /\ t \in {term[m.to], m.term}
      BY <1>5, <2>1, Zenon DEF CrashInInstallSnapshot
    <3>2. term[m.to] >= term[m.to]
      BY <1>1, NotAboveItself, Zenon
    <3>3. msgs \ {m} \in SUBSET msgs
      BY Zenon
    <3>. QED  BY <1>1, <3>1, <3>2, <3>3, Zenon
  <2>. QED  BY <1>1, <2>1, <2>2, RecoverElection, Zenon
<1>. QED  BY <1>2, <1>3, <1>4, <1>5, Zenon

\* Responses at a Leader, and pre-vote requests.
LEMMA ResponseElection ==
  ASSUME LeastElements, CountsAreNat, TypeOK, NEW m \in msgs,
         \/ HandlePreVoteRequest(m)
         \/ HandleAppendEntriesResponse(m)
         \/ HandleInstallSnapshotResponse(m)
  PROVE  NoElectionStep
<1>1. m.term \in Nat
  BY MessageEnvelope, ZenonT(40) DEF TypeOK
<1>2. ASSUME msgs' \subseteq msgs \cup LeaderMessage
      PROVE  \A x \in msgs' : x.type = "VoteResponse" => x \in msgs
  BY <1>2 DEF LeaderMessage
<1>3. CASE HandlePreVoteRequest(m)
  <2>1. UNCHANGED <<hardVars, role, votes, ballots, elected>>
    BY <1>3, ZenonT(40) DEF HandlePreVoteRequest, electionVars, historyVars
  <2>2. \A x \in msgs' : x.type = "VoteResponse" => x \in msgs
    BY <1>3 DEF HandlePreVoteRequest, Reply
  <2>. QED  BY <2>1, <2>2, QuietElection, ZenonT(40)
<1>4. CASE StepDown(m, m.term)
  BY <1>1, <1>4, StepDownElection, Zenon
<1>5. CASE HandleAppendEntriesResponse(m) /\ ~StepDown(m, m.term)
  <2>1. UNCHANGED <<hardVars, role, votes, ballots, elected>>
    BY <1>5, Zenon DEF HandleAppendEntriesResponse, electionVars
  <2>2. msgs' \subseteq msgs \cup LeaderMessage
    BY <1>5, HandleAppendEntriesResponseType, ZenonT(40)
  <2>. QED  BY <1>2, <2>1, <2>2, QuietElection, ZenonT(40)
<1>6. CASE HandleInstallSnapshotResponse(m) /\ ~StepDown(m, m.term)
  <2>1. UNCHANGED <<hardVars, role, votes, ballots, elected>>
    BY <1>6 DEF HandleInstallSnapshotResponse, electionVars
  <2>2. msgs' \subseteq msgs \cup LeaderMessage
    BY <1>6, HandleInstallSnapshotResponseType, SMTT(30)
  <2>. QED  BY <1>2, <2>1, <2>2, QuietElection, Zenon
<1>. QED  BY <1>3, <1>4, <1>5, <1>6, Zenon

-----------------------------------------------------------------------------
(* Steps that cast or count ballots *)

\* A Node that casts the ballot <<t, v, c>>, in a term where it held no other.
LEMMA CastBallot ==
  ASSUME TypeOK, TypeOK', ElectionInv, VoteKept,
         NEW t \in Nat, NEW v \in Node, NEW c \in Node,
         ballots' = ballots \cup {<<t, v, c>>},
         term'[v] = t, votedFor'[v] = c,
         t = term[v] => votedFor[v] \in {NoNode, c}
  PROVE  BallotsBind' /\ OneBallot'
<1>. DEFINE new == <<t, v, c>>
<1>1. new[1] = t /\ new[2] = v /\ new[3] = c
  BY SMTT(30)
<1>2. ASSUME NEW b \in ballots
      PROVE  /\ b[1] \in Nat /\ b[2] \in Node /\ b[3] \in Node
             /\ term[b[2]] \in Nat /\ term'[b[2]] \in Nat
             /\ \/ term[b[2]] > b[1]
                \/ term[b[2]] = b[1] /\ votedFor[b[2]] = b[3]
             /\ b[3] # NoNode
             /\ term'[b[2]] >= term[b[2]]
             /\ term'[b[2]] = term[b[2]] /\ votedFor[b[2]] # NoNode =>
                  votedFor'[b[2]] = votedFor[b[2]]
  <2>1. b[1] \in Nat /\ b[2] \in Node /\ b[3] \in Node
    BY ZenonT(40) DEF TypeOK
  <2>2. term[b[2]] \in Nat /\ term'[b[2]] \in Nat
    BY <2>1, ZenonT(40) DEF TypeOK
  <2>. QED  BY <2>1, <2>2, NodeAssumption, SMTT(40) DEF ElectionInv, BallotsBind, VoteKept
<1>3. ASSUME NEW b \in ballots
      PROVE  \/ term'[b[2]] > b[1]
             \/ term'[b[2]] = b[1] /\ votedFor'[b[2]] = b[3]
  BY <1>2
<1>. HIDE DEF new
<1>4. BallotsBind'
  <2>. SUFFICES ASSUME NEW b \in ballots \cup {new}
                PROVE  \/ term'[b[2]] > b[1]
                       \/ term'[b[2]] = b[1] /\ votedFor'[b[2]] = b[3]
    BY DEF BallotsBind, new
  <2>. QED  BY <1>1, <1>3, SMTT(30)
<1>5. ASSUME NEW b \in ballots, b[1] = t, b[2] = v  PROVE b[3] = c
  BY <1>2, <1>5, SMTT(30)
<1>6. OneBallot'
  <2>. SUFFICES ASSUME NEW a \in ballots \cup {new}, NEW b \in ballots \cup {new},
                       a[1] = b[1], a[2] = b[2]
                PROVE  a[3] = b[3]
    BY DEF OneBallot, new
  <2>1. CASE a \in ballots /\ b \in ballots
    BY <2>1 DEF ElectionInv, OneBallot
  <2>. QED  BY <1>1, <1>5, <2>1, SMTT(30)
<1>. QED  BY <1>4, <1>6, SMTT(30)

\* A pre-vote response, and the ballot for itself of a Node that starts an election.
LEMMA HandlePreVoteResponseElection ==
  ASSUME TypeOK, TypeOK', ElectionInv, NEW m \in msgs, HandlePreVoteResponse(m)
  PROVE  ElectionInv' /\ VoteKept
<1>1. /\ m \in Message /\ m.type = "PreVoteResponse"
      /\ m.to \in Node /\ m.from \in Node /\ term[m.to] \in Nat
  BY MessageEnvelope, ZenonT(40) DEF TypeOK, HandlePreVoteResponse
<1>2. m.currentTerm \in Nat
  BY <1>1, SMTT(30) DEF Message
<1>3. CASE StepDown(m, m.currentTerm)
  BY <1>2, <1>3, StepDownElection, NoElectionStepInv, SMTT(30) DEF NoElectionStep
<1>4. CASE ~StepDown(m, m.currentTerm)
  <2>1. /\ \/ /\ Reply(m, {})
              /\ UNCHANGED <<hardVars, role, leaderID, votes, readReady, ballots>>
           \/ StartElection(m)
        /\ elected' = elected
    BY <1>4, SMTT(40) DEF HandlePreVoteResponse
  <2>2. CASE /\ Reply(m, {})
             /\ UNCHANGED <<hardVars, role, leaderID, votes, readReady, ballots>>
    <3>1. \A x \in msgs' : x.type = "VoteResponse" => x \in msgs
      BY <2>2 DEF Reply
    <3>. QED  BY <2>1, <2>2, <3>1, QuietElection, NoElectionStepInv, ZenonT(40) DEF NoElectionStep
  <2>3. CASE StartElection(m)
    <3>. DEFINE i == m.to
                t == term[i] + 1
    <3>1. /\ role' = [role EXCEPT ![i] = "Candidate"]
          /\ term' = [term EXCEPT ![i] = t]
          /\ votedFor' = [votedFor EXCEPT ![i] = i]
          /\ votes' = [votes EXCEPT ![i] = {i}]
          /\ ballots' = ballots \cup {<<t, i, i>>}
          /\ Reply(m, VoteRequestTo(i, "VoteRequest", t))
      BY <2>3, Zenon DEF StartElection
    <3>2. /\ term \in [Node -> Nat] /\ votedFor \in [Node -> Node \cup {NoNode}]
          /\ role \in [Node -> Role] /\ votes \in [Node -> SUBSET Node]
      BY ZenonT(40) DEF TypeOK
    <3>3. /\ t \in Nat /\ t > term[i] /\ term'[i] = t /\ votedFor'[i] = i
          /\ \A k \in Node : k # i => term'[k] = term[k] /\ votedFor'[k] = votedFor[k]
      <4>1. t \in Nat /\ t > term[i]
        BY <1>1, Successor, Zenon
      <4>. HIDE DEF t
      <4>. QED  BY <1>1, <3>1, <3>2, <4>1, Zenon
    <3>4. VoteKept
      <4>1. \A k \in Node : term[k] \in Nat
        BY <3>2, Zenon
      <4>. HIDE DEF t
      <4>2. ASSUME NEW k \in Node
            PROVE  term'[k] >= term[k] /\ (term'[k] = term[k] => votedFor'[k] = votedFor[k])
        BY <3>3, <4>1, Above, NotAboveItself, Zenon
      <4>. QED  BY <4>2, Zenon DEF VoteKept
    <3>5. BallotsBind' /\ OneBallot'
      <4>1. t # term[i]
        BY <1>1
      <4>. QED  BY <1>1, <3>1, <3>3, <3>4, <4>1, CastBallot, ZenonT(40)
    <3>6. GrantsAreBallots'
      <4>1. \A x \in msgs' : x.type = "VoteResponse" => x \in msgs
        BY <3>1, SMTT(30) DEF Reply, VoteRequestTo
      <4>. QED  BY <3>1, <4>1, ZenonT(40) DEF GrantsAreBallots, ElectionInv
    <3>7. VotesAreBallots'
      <4>. SUFFICES ASSUME NEW k \in Node, role'[k] = "Candidate", NEW j \in votes'[k]
                    PROVE  <<term'[k], j, k>> \in ballots'
        BY Zenon DEF VotesAreBallots
      <4>1. CASE k = i
        BY <1>1, <3>1, <3>2, <3>3, <4>1, ZenonT(40)
      <4>2. CASE k # i
        <5>1. role[k] = "Candidate" /\ j \in votes[k] /\ term'[k] = term[k]
          BY <1>1, <3>1, <3>2, <3>3, <4>2, Zenon
        <5>. QED  BY <3>1, <5>1, SMTT(40) DEF ElectionInv, VotesAreBallots
      <4>. QED  BY <4>1, <4>2, SMTT(30)
    <3>8. ElectedByQuorum'
      BY <2>1, <3>1, ZenonT(40) DEF ElectedByQuorum, ElectionInv
    <3>. QED  BY <3>4, <3>5, <3>6, <3>7, <3>8, Zenon DEF ElectionInv
  <2>. QED  BY <2>1, <2>2, <2>3, ZenonT(40)
<1>. QED  BY <1>3, <1>4, ZenonT(40)

\* A vote request: the ballot that a grant casts is durable before it is sent.
LEMMA HandleVoteRequestElection ==
  ASSUME TypeOK, TypeOK', ElectionInv, NEW m \in msgs, HandleVoteRequest(m)
  PROVE  ElectionInv' /\ VoteKept
<1>. DEFINE i == m.to
            grant == /\ m.term >= term[i]
                     /\ VoteIn(i, m.term) \in {NoNode, m.from}
                     /\ LogIsAtLeastAsUpToDate(m.lastTerm, m.lastIndex,
                                               LastLogTerm(log[i]), Len(log[i]))
            reply == [type |-> "VoteResponse", from |-> i, to |-> m.from,
                      term |-> Larger(term[i], m.term), granted |-> grant]
<1>1. i \in Node /\ m.from \in Node /\ m.term \in Nat /\ term[i] \in Nat
  BY MessageEnvelope, ZenonT(40) DEF TypeOK
<1>2. /\ votedFor' = [votedFor EXCEPT ![i] = IF grant THEN m.from ELSE VoteIn(i, m.term)]
      /\ IF m.term > term[i]
           THEN BecomeFollower(i, m.term, NoNode)
           ELSE UNCHANGED <<term, electionVars, leaderVars>>
      /\ msgs' = (msgs \ {m}) \cup {reply}
      /\ ballots' = IF grant THEN ballots \cup {<<m.term, i, m.from>>} ELSE ballots
      /\ elected' = elected
  BY Zenon DEF HandleVoteRequest, Reply
<1>3. grant => m.term >= term[i] /\ VoteIn(i, m.term) \in {NoNode, m.from}
  BY Zenon
<1>4. grant \in BOOLEAN
  BY ZenonT(40)
<1>. HIDE DEF grant
<1>5. /\ term'[i] = Larger(term[i], m.term)
      /\ \A k \in Node : k # i => term'[k] = term[k]
      /\ \A k \in Node : role'[k] = "Candidate" =>
           role[k] = "Candidate" /\ term'[k] = term[k] /\ votes'[k] = votes[k]
  <2>1. CASE m.term > term[i]
    <3>1. BecomeFollower(i, m.term, NoNode) /\ m.term >= term[i]
      BY <1>1, <1>2, <2>1, Above, Zenon
    <3>2. Larger(term[i], m.term) = m.term
      BY <1>1, <2>1, Above, Zenon
    <3>. QED  BY <1>1, <3>1, <3>2, BecomeFollowerElection, Zenon DEF BecomeFollower
  <2>2. CASE ~(m.term > term[i])
    <3>1. term' = term /\ role' = role /\ votes' = votes
      BY <1>2, <2>2, Zenon DEF electionVars
    <3>. QED  BY <1>1, <2>2, <3>1, SMTT(30) DEF Larger
  <2>. QED  BY <2>1, <2>2, ZenonT(40)
<1>6. votedFor \in [Node -> Node \cup {NoNode}] /\ term \in [Node -> Nat]
  BY Zenon DEF TypeOK
<1>7. VoteKept
  <2>1. \A k \in Node : k # i => votedFor'[k] = votedFor[k]
    BY <1>2, <1>6
  <2>2. votedFor'[i] = IF grant THEN m.from ELSE VoteIn(i, m.term)
    BY <1>1, <1>2, <1>6, ZenonT(40)
  <2>3. term'[i] >= term[i]
    BY <1>1, <1>5 DEF Larger
  <2>4. ASSUME term'[i] = term[i], votedFor[i] # NoNode  PROVE votedFor'[i] = votedFor[i]
    <3>1. ~(m.term > term[i])
      BY <1>1, <1>5, <2>4, SMTT(30) DEF Larger
    <3>2. VoteIn(i, m.term) = votedFor[i]
      BY <3>1 DEF VoteIn
    <3>. QED  BY <1>3, <2>2, <2>4, <3>2, ZenonT(40)
  <2>. QED  BY <1>5, <1>6, <2>1, <2>3, <2>4, NotAboveItself, ZenonT(40) DEF VoteKept
<1>8. BallotsBind' /\ OneBallot'
  <2>1. CASE grant
    <3>1. term'[i] = m.term
      BY <1>1, <1>3, <1>5, <2>1, SMTT(40) DEF Larger
    <3>2. votedFor'[i] = m.from /\ ballots' = ballots \cup {<<m.term, i, m.from>>}
      BY <1>1, <1>2, <1>6, <2>1, ZenonT(40)
    <3>3. m.term = term[i] => votedFor[i] \in {NoNode, m.from}
      <4>1. ASSUME m.term = term[i]  PROVE VoteIn(i, m.term) = votedFor[i]
        BY <1>1, <4>1, SMTT(30) DEF VoteIn
      <4>. QED  BY <1>3, <2>1, <4>1, SMTT(30)
    <3>. QED  BY <1>1, <1>7, <3>1, <3>2, <3>3, CastBallot, ZenonT(40)
  <2>2. CASE ~grant
    <3>1. ballots' = ballots
      BY <1>2, <2>2, SMTT(30)
    <3>2. ASSUME NEW b \in ballots
          PROVE  \/ term'[b[2]] > b[1]
                 \/ term'[b[2]] = b[1] /\ votedFor'[b[2]] = b[3]
      <4>1. b[1] \in Nat /\ b[2] \in Node /\ b[3] \in Node
        BY Zenon DEF TypeOK
      <4>2. term[b[2]] \in Nat /\ term'[b[2]] \in Nat /\ b[3] # NoNode
        BY <4>1, NodeAssumption, ZenonT(40) DEF TypeOK
      <4>3. \/ term[b[2]] > b[1]
            \/ term[b[2]] = b[1] /\ votedFor[b[2]] = b[3]
        BY DEF ElectionInv, BallotsBind
      <4>. QED  BY <1>7, <4>1, <4>2, <4>3, SMTT(40) DEF VoteKept
    <3>. QED  BY <3>1, <3>2, SMTT(30) DEF BallotsBind, OneBallot, ElectionInv
  <2>. QED  BY <2>1, <2>2, Zenon
<1>9. ballots \subseteq ballots'
  BY <1>2, Zenon
<1>10. GrantsAreBallots'
  <2>. SUFFICES ASSUME NEW x \in msgs', x.type = "VoteResponse", x.granted
                PROVE  <<x.term, x.from, x.to>> \in ballots'
    BY DEF GrantsAreBallots
  <2>1. CASE x \in msgs
    BY <1>9, <2>1 DEF ElectionInv, GrantsAreBallots
  <2>2. CASE x = reply
    <3>1. grant /\ x.term = Larger(term[i], m.term) /\ x.from = i /\ x.to = m.from
      BY <2>2, Zenon
    <3>2. x.term = m.term
      BY <1>1, <1>3, <3>1, SMTT(40) DEF Larger
    <3>. QED  BY <1>2, <3>1, <3>2, Zenon
  <2>. QED  BY <1>2, <2>1, <2>2, SMTT(30)
<1>11. VotesAreBallots'
  BY <1>5, <1>9, Zenon DEF ElectionInv, VotesAreBallots
<1>12. ElectedByQuorum'
  BY <1>2, <1>9 DEF ElectionInv, ElectedByQuorum
<1>. QED  BY <1>7, <1>8, <1>10, <1>11, <1>12, Zenon DEF ElectionInv

\* A vote response, and the Leader that a quorum of votes makes.
LEMMA HandleVoteResponseElection ==
  ASSUME LeastElements, CountsAreNat, TypeOK, TypeOK', ElectionInv, NEW m \in msgs, HandleVoteResponse(m)
  PROVE  ElectionInv' /\ VoteKept
<1>1. m.to \in Node /\ m.from \in Node /\ m.term \in Nat /\ term[m.to] \in Nat
  BY MessageEnvelope, ZenonT(40) DEF TypeOK
<1>2. CASE StepDown(m, m.term)
  BY <1>1, <1>2, StepDownElection, NoElectionStepInv, ZenonT(40) DEF NoElectionStep
<1>3. CASE ~StepDown(m, m.term)
  <2>. DEFINE i == m.to
              granted == votes[i] \cup {m.from}
  <2>1. /\ m.type = "VoteResponse" /\ role[i] = "Candidate" /\ m.term = term[i] /\ m.granted
        /\ votes' = [votes EXCEPT ![i] = granted]
        /\ IF Cardinality(granted) < quorum
             THEN role' = role /\ elected' = elected
             ELSE role' = [role EXCEPT ![i] = "Leader"] /\ elected' = elected \cup {<<term[i], i>>}
        /\ UNCHANGED <<term, votedFor, ballots>>
    BY <1>3, Zenon DEF HandleVoteResponse, BecomeLeader, hardVars
  <2>2. /\ role \in [Node -> Role] /\ votes \in [Node -> SUBSET Node]
        /\ term \in [Node -> Nat]
    BY ZenonT(40) DEF TypeOK
  <2>3. \A j \in granted : <<term[i], j, i>> \in ballots
    BY <1>1, <2>1, SMTT(30) DEF ElectionInv, GrantsAreBallots, VotesAreBallots
  <2>4. granted \in SUBSET Node
    BY <1>1, <2>2, SMTT(30)
  <2>. HIDE DEF granted
  <2>5. VoteKept
    BY <2>1, <2>2 DEF VoteKept
  <2>6. BallotsBind' /\ OneBallot'
    BY <2>1, ZenonT(40) DEF ElectionInv, BallotsBind, OneBallot
  <2>7. GrantsAreBallots'
    <3>1. msgs' \subseteq msgs \cup LeaderMessage
      BY HandleVoteResponseType
    <3>2. \A x \in msgs' : x.type = "VoteResponse" => x \in msgs
      BY <3>1 DEF LeaderMessage
    <3>. QED  BY <2>1, <3>2, SMTT(30) DEF ElectionInv, GrantsAreBallots
  <2>8. VotesAreBallots'
    <3>. SUFFICES ASSUME NEW k \in Node, role'[k] = "Candidate", NEW j \in votes'[k]
                  PROVE  <<term[k], j, k>> \in ballots
      BY <2>1, Zenon DEF VotesAreBallots
    <3>1. CASE k = i
      BY <1>1, <2>1, <2>2, <2>3, <3>1, Zenon
    <3>2. CASE k # i
      <4>1. role[k] = "Candidate" /\ j \in votes[k]
        BY <1>1, <2>1, <2>2, <3>2, Zenon
      <4>. QED  BY <4>1, Zenon DEF ElectionInv, VotesAreBallots
    <3>. QED  BY <3>1, <3>2
  <2>9. ElectedByQuorum'
    <3>. SUFFICES ASSUME NEW e \in elected'
                  PROVE  \E Q \in SUBSET Node : /\ Cardinality(Q) >= quorum
                                                /\ \A v \in Q : <<e[1], v, e[2]>> \in ballots
      BY <2>1, SMTT(30) DEF ElectedByQuorum
    <3>1. CASE e \in elected
      BY <3>1 DEF ElectionInv, ElectedByQuorum
    <3>2. CASE e \notin elected
      <4>1. e = <<term[i], i>> /\ ~(Cardinality(granted) < quorum)
        BY <2>1, <3>2
      <4>2. Cardinality(granted) \in Nat /\ Cardinality(Node) \in Nat
        BY <2>4, Zenon DEF CountsAreNat
      <4>3. Cardinality(granted) >= quorum
        <5>1. quorum \in Nat
          BY <4>2 DEF quorum
        <5>. QED  BY <4>1, <4>2, <5>1, NotBelow, Zenon
      <4>4. e[1] = term[i] /\ e[2] = i
        BY <4>1
      <4>. QED  BY <2>3, <2>4, <4>3, <4>4, ZenonT(40)
    <3>. QED  BY <3>1, <3>2, ZenonT(40)
  <2>. QED  BY <2>5, <2>6, <2>7, <2>8, <2>9, SMTT(30) DEF ElectionInv
<1>. QED  BY <1>2, <1>3, Zenon

-----------------------------------------------------------------------------

\* The ballots a Node recovers bind it, and nothing else is cast yet.
LEMMA InitElection == Init => ElectionInv
<1>. SUFFICES ASSUME Init PROVE ElectionInv
  OBVIOUS
<1>1. TypeOK
  BY InitType, SMTT(40)
<1>2. /\ ballots = {<<term[i], i, votedFor[i]>> : i \in {j \in Node : votedFor[j] # NoNode}}
      /\ msgs = {} /\ elected = {} /\ role = [i \in Node |-> "Follower"]
  BY Zenon DEF Init
<1>3. ASSUME NEW b \in ballots
      PROVE  b[2] \in Node /\ b[1] = term[b[2]] /\ b[3] = votedFor[b[2]]
  BY <1>2
<1>4. BallotsBind /\ OneBallot
  BY <1>3, ZenonT(40) DEF BallotsBind, OneBallot
<1>5. GrantsAreBallots /\ VotesAreBallots /\ ElectedByQuorum
  BY <1>2 DEF GrantsAreBallots, VotesAreBallots, ElectedByQuorum
<1>. QED  BY <1>4, <1>5 DEF ElectionInv

\* Every step keeps votes and preserves the invariant.
LEMMA NextElection ==
  ASSUME LeastElements, CountsAreNat, TypeOK, TypeOK', ElectionInv, [Next]_vars
  PROVE  ElectionInv' /\ VoteKept
<1>1. ASSUME NoElectionStep  PROVE ElectionInv' /\ VoteKept
  BY <1>1, NoElectionStepInv DEF NoElectionStep
<1>2. ASSUME NEW m \in msgs, Receive(m)  PROVE ElectionInv' /\ VoteKept
  BY <1>1, <1>2, FollowerElection, ResponseElection, HandlePreVoteResponseElection, ZenonT(40),
     HandleVoteRequestElection, HandleVoteResponseElection DEF Receive
<1>3. ASSUME NEW i \in Up, Local(i)  PROVE ElectionInv' /\ VoteKept
  <2>1. i \in Node
    BY NodeAssumption
  <2>2. CASE Restart(i)
    <3>1. term \in [Node -> Nat]
      BY DEF TypeOK
    <3>2. term[i] \in Nat
      BY <2>1, <3>1
    <3>3. term[i] >= term[i] /\ VoteIn(i, term[i]) = votedFor[i]
      BY <3>2, NotAboveItself, Zenon DEF VoteIn
    <3>4. NoElectionStep
      BY <2>1, <2>2, <3>2, <3>3, RecoverElection, ZenonT(40) DEF Restart
    <3>. QED  BY <1>1, <3>4, ZenonT(40)
  <2>3. CASE CheckQuorum(i)
    BY <1>1, <2>1, <2>3, CheckQuorumElection, Zenon
  <2>4. CASE \/ StartPreVote(i)
             \/ \E cmd \in Command : Propose(i, cmd)
             \/ ConfirmRead(i)
             \/ HeartbeatRound(i)
             \/ StartSnapshot(i) \/ SaveSnapshot(i) \/ FinishSnapshot(i)
    <3>1. NoElectionStep
      BY <2>1, <2>4, LocalElection, Zenon
    <3>. QED  BY <1>1, <3>1, Zenon
  <2>. QED  BY <1>3, <2>2, <2>3, <2>4, Zenon DEF Local
<1>4. CASE UNCHANGED vars
  <2>1. UNCHANGED <<hardVars, role, votes, ballots, elected, msgs>>
    BY <1>4 DEF vars, electionVars, historyVars
  <2>. QED  BY <1>1, <2>1, QuietElection, ZenonT(40)
<1>. QED  BY <1>2, <1>3, <1>4, ZenonT(40) DEF Next

=============================================================================
