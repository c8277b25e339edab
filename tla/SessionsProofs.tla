--------------------------- MODULE SessionsProofs ---------------------------
EXTENDS SessionsInvariants, FiniteSetTheorems, TLAPS

LeastElements == \A S \in SUBSET Nat : S # {} => \E x \in S : \A y \in S : x <= y

\* The order of the natural numbers is well founded.
LEMMA NaturalsAreOrdered == LeastElements
<1>. SUFFICES ASSUME NEW S \in SUBSET Nat, S # {}
              PROVE  \E x \in S : \A y \in S : x <= y
  BY Zenon DEF LeastElements
<1>1. PICK x \in S : \A y \in S : ~(<<y, x>> \in OpToRel(<, Nat))
  BY WFMin, NatLessThanWellFounded, Zenon
<1>2. OpToRel(<, Nat) = {ss \in Nat \X Nat : ss[1] < ss[2]}
  BY Zenon DEF OpToRel
<1>3. ASSUME NEW y \in S  PROVE x <= y
  <2>1. ~(<<y, x>> \in {ss \in Nat \X Nat : ss[1] < ss[2]})
    BY <1>1, <1>2, Zenon
  <2>. QED  BY <2>1
<1>. QED  BY <1>3, Zenon

-----------------------------------------------------------------------------
(* Applying commands in sequence *)

\* A set of numbers that has 0 and, with each number below N, the next one, has all
\* numbers up to N.
LEMMA UpTo ==
  ASSUME NEW N \in Nat, NEW S, 0 \in S,
         \A n \in 0..N : n + 1 \in 0..N /\ n \in S => n + 1 \in S
  PROVE  \A n \in 0..N : n \in S
<1>. SUFFICES ASSUME NEW n \in 0..N, n \notin S  PROVE FALSE
  OBVIOUS
<1>. DEFINE bad == {k \in 0..N : k \notin S}
<1>1. bad \in SUBSET Nat /\ bad # {}
  OBVIOUS
<1>2. PICK x \in bad : \A y \in bad : x <= y
  BY <1>1, NaturalsAreOrdered, Zenon DEF LeastElements
<1>3. x \in 0..N /\ x \notin S /\ x # 0
  BY <1>2
<1>4. x - 1 \in 0..N /\ x - 1 + 1 = x
  BY <1>3
<1>5. x - 1 \in S
  BY <1>2, <1>3, <1>4
<1>. QED  BY <1>3, <1>4, <1>5

\* f gives the states that N commands lead through.
IsStates(f, N, m, c) ==
  f = [n \in 0..N |-> IF n = 0 THEN m ELSE Apply(f[n - 1], c[n]).machine]

\* Such states begin with m, and each command is applied to the state before it.
LEMMA StatesFollow ==
  ASSUME NEW N \in Nat, NEW m, NEW c, NEW f, IsStates(f, N, m, c)
  PROVE  /\ f[0] = m
         /\ \A n \in 0..N : n + 1 \in 0..N => f[n + 1] = Apply(f[n], c[n + 1]).machine
<1>1. 0 \in 0..N
  OBVIOUS
<1>2. f[0] = m
  BY <1>1, Zenon DEF IsStates
<1>3. ASSUME NEW n \in 0..N, n + 1 \in 0..N  PROVE f[n + 1] = Apply(f[n], c[n + 1]).machine
  <2>1. n + 1 # 0 /\ n + 1 - 1 = n
    OBVIOUS
  <2>2. f[n + 1] = IF n + 1 = 0 THEN m ELSE Apply(f[n + 1 - 1], c[n + 1]).machine
    BY <1>3 DEF IsStates
  <2>. QED  BY <2>1, <2>2, Zenon
<1>. QED  BY <1>2, <1>3, Zenon

\* They exist.
LEMMA StatesExist ==
  ASSUME NEW N \in Nat, NEW m, NEW c
  PROVE  \E f : IsStates(f, N, m, c)
<1>. DEFINE S == {n \in 0..N : \E f : IsStates(f, n, m, c)}
<1>1. 0 \in S
  <2>1. IsStates([k \in 0..0 |-> m], 0, m, c)
    BY DEF IsStates
  <2>2. 0 \in 0..N
    OBVIOUS
  <2>. QED  BY <2>1, <2>2, Zenon
<1>2. ASSUME NEW n \in 0..N, n + 1 \in 0..N, n \in S  PROVE n + 1 \in S
  <2>1. PICK f : IsStates(f, n, m, c)
    BY <1>2
  <2>. DEFINE g == [k \in 0..(n + 1) |-> IF k = n + 1 THEN Apply(f[n], c[n + 1]).machine ELSE f[k]]
  <2>2. ASSUME NEW k \in 0..(n + 1)
        PROVE  g[k] = IF k = 0 THEN m ELSE Apply(g[k - 1], c[k]).machine
    <3>1. CASE k = n + 1
      <4>1. n \in 0..(n + 1) /\ n # n + 1 /\ k - 1 = n /\ k # 0
        BY <3>1
      <4>2. g[n] = f[n]
        BY <4>1
      <4>. QED  BY <3>1, <4>1, <4>2
    <3>2. CASE k # n + 1
      <4>1. k \in 0..n
        BY <3>2
      <4>2. f[k] = IF k = 0 THEN m ELSE Apply(f[k - 1], c[k]).machine
        BY <2>1, <4>1, Zenon DEF IsStates
      <4>3. CASE k = 0
        BY <3>2, <4>2, <4>3
      <4>4. CASE k # 0
        <5>1. k - 1 \in 0..(n + 1) /\ k - 1 # n + 1
          BY <4>1, <4>4
        <5>. QED  BY <3>2, <4>2, <4>4, <5>1
      <4>. QED  BY <4>3, <4>4
    <3>. QED  BY <3>1, <3>2
  <2>3. IsStates(g, n + 1, m, c)
    BY <2>2, Zenon DEF IsStates
  <2>. QED  BY <1>2, <2>3, Zenon
<1>3. N \in 0..N
  OBVIOUS
<1>. HIDE DEF S
<1>4. N \in S
  BY <1>1, <1>2, <1>3, UpTo, Zenon
<1>. QED  BY <1>4, Zenon DEF S

\* ApplyAll is the last of the states.
LEMMA ApplyAllUnfolds ==
  ASSUME NEW N \in Nat, NEW m, NEW c, Len(c) = N
  PROVE  \E f : ApplyAll(m, c) = f[N] /\ IsStates(f, N, m, c)
<1>. DEFINE after == CHOOSE f : IsStates(f, N, m, c)
<1>1. IsStates(after, N, m, c)
  BY StatesExist, Zenon
<1>2. ApplyAll(m, c) = after[N]
  BY Zenon DEF ApplyAll, IsStates
<1>. HIDE DEF after
<1>. QED  BY <1>1, <1>2, Zenon

\* A function on an initial interval is a sequence of that length.
LEMMA IntervalLength ==
  ASSUME NEW n \in Nat, NEW f, f \in [1..n -> {f[k] : k \in 1..n}]
  PROVE  Len(f) = n
<1>1. f \in Seq({f[k] : k \in 1..n})
  OBVIOUS
<1>2. DOMAIN f = 1..n
  OBVIOUS
<1>. QED  BY <1>1, <1>2

\* The commands of the entries from `first` through `to`.
LEMMA CommandsAre ==
  ASSUME NEW entries, NEW first \in Nat, NEW to \in Nat, first <= to + 1
  PROVE  /\ Len(Commands(entries, first, to)) = to - first + 1
         /\ \A k \in 1..(to - first + 1) :
              Commands(entries, first, to)[k] = entries[first + k - 1].command
<1>. DEFINE c == Commands(entries, first, to)
            n == to - first + 1
<1>1. n \in Nat
  OBVIOUS
<1>2. c = [k \in 1..n |-> entries[first + k - 1].command]
  BY Zenon DEF Commands
<1>. HIDE DEF n
<1>3. c \in [1..n -> {c[k] : k \in 1..n}]
  BY <1>2, Zenon
<1>4. Len(c) = n
  BY <1>1, <1>3, IntervalLength, Zenon
<1>. QED  BY <1>2, <1>4, Zenon DEF n

\* Applying nothing changes nothing.
LEMMA ApplyNone ==
  ASSUME NEW m, NEW entries, NEW first \in Nat, NEW to \in Nat, first = to + 1
  PROVE  ApplyAll(m, Commands(entries, first, to)) = m
<1>1. 0 \in Nat /\ first <= to + 1 /\ to - first + 1 = 0
  OBVIOUS
<1>2. Len(Commands(entries, first, to)) = 0
  BY <1>1, CommandsAre, Zenon
<1>3. PICK f : /\ ApplyAll(m, Commands(entries, first, to)) = f[0]
               /\ IsStates(f, 0, m, Commands(entries, first, to))
  BY <1>1, <1>2, ApplyAllUnfolds, Zenon
<1>. QED  BY <1>1, <1>3, StatesFollow

\* One entry more is one application more.
LEMMA ApplyNext ==
  ASSUME NEW m, NEW entries, NEW first \in Nat, NEW to \in Nat, NEW next \in Nat, first <= next
  PROVE  next = to + 1 =>
           ApplyAll(m, Commands(entries, first, next)) =
           Apply(ApplyAll(m, Commands(entries, first, to)), entries[next].command).machine
<1>. DEFINE N == next - first
            c == Commands(entries, first, to)
            d == Commands(entries, first, next)
<1>0. /\ first <= to + 1 => /\ Len(c) = to - first + 1
                            /\ \A k \in 1..(to - first + 1) : c[k] = entries[first + k - 1].command
      /\ first <= next + 1 => /\ Len(d) = next - first + 1
                              /\ \A k \in 1..(next - first + 1) : d[k] = entries[first + k - 1].command
  BY CommandsAre, Zenon
<1>. HAVE next = to + 1
<1>1. /\ N \in Nat /\ N + 1 \in Nat
      /\ to - first + 1 = N /\ next - first + 1 = N + 1 /\ next = first + (N + 1) - 1
      /\ first <= to + 1 /\ first <= next + 1
      /\ N \in 0..N /\ N \in 0..(N + 1) /\ N + 1 \in 0..(N + 1) /\ N + 1 \in 1..(N + 1)
      /\ \A n \in 0..N : n \in 0..(N + 1) /\ n + 1 \in 0..(N + 1)
      /\ \A n \in 0..N : n + 1 \in 0..N => n + 1 \in 1..N /\ n + 1 \in 1..(N + 1)
      /\ 0 \in 0..N
  OBVIOUS
<1>. HIDE DEF N, c, d
<1>2. /\ Len(c) = N
      /\ Len(d) = N + 1
      /\ \A k \in 1..N : c[k] = entries[first + k - 1].command
      /\ \A k \in 1..(N + 1) : d[k] = entries[first + k - 1].command
  BY <1>0, <1>1, Zenon
<1>3. entries[next].command = d[N + 1]
  BY <1>1, <1>2, Zenon
<1>4. PICK f : ApplyAll(m, c) = f[N] /\ IsStates(f, N, m, c)
  BY <1>1, <1>2, ApplyAllUnfolds, Zenon
<1>5. PICK g : ApplyAll(m, d) = g[N + 1] /\ IsStates(g, N + 1, m, d)
  BY <1>1, <1>2, ApplyAllUnfolds, Zenon
<1>6. /\ f[0] = m
      /\ \A n \in 0..N : n + 1 \in 0..N => f[n + 1] = Apply(f[n], c[n + 1]).machine
  BY <1>1, <1>4, StatesFollow
<1>7. /\ g[0] = m
      /\ \A n \in 0..(N + 1) : n + 1 \in 0..(N + 1) => g[n + 1] = Apply(g[n], d[n + 1]).machine
  BY <1>1, <1>5, StatesFollow
<1>. DEFINE S == {n \in 0..N : g[n] = f[n]}
<1>8. 0 \in S
  BY <1>1, <1>6, <1>7, Zenon
<1>9. ASSUME NEW n \in 0..N, n + 1 \in 0..N, n \in S  PROVE n + 1 \in S
  <2>1. c[n + 1] = d[n + 1]
    BY <1>1, <1>2, <1>9, Zenon
  <2>. QED  BY <1>1, <1>6, <1>7, <1>9, <2>1, Zenon
<1>. HIDE DEF S
<1>10. N \in S
  BY <1>1, <1>8, <1>9, UpTo, Zenon
<1>11. g[N] = f[N]
  BY <1>10, Zenon DEF S
<1>12. g[N + 1] = Apply(g[N], d[N + 1]).machine
  BY <1>1, <1>7, Zenon
<1>13. ApplyAll(m, d) = Apply(ApplyAll(m, c), entries[next].command).machine
  BY <1>3, <1>4, <1>5, <1>11, <1>12, Zenon
<1>. QED  BY <1>13, Zenon DEF c, d

\* The state after no entries is the new state machine.
LEMMA StateBegins ==
  ASSUME NEW entries
  PROVE  StateAt(entries, 0) = NewMachine
<1>1. 1 \in Nat /\ 0 \in Nat /\ 1 = 0 + 1
  OBVIOUS
<1>. QED  BY <1>1, ApplyNone, Zenon DEF StateAt

\* The state after one more entry is what that entry makes of the state before it.
LEMMA StateSteps ==
  ASSUME NEW entries, NEW n \in Nat, NEW next \in Nat, next = n + 1
  PROVE  StateAt(entries, next) = Apply(StateAt(entries, n), entries[next].command).machine
<1>1. 1 \in Nat /\ 1 <= next
  OBVIOUS
<1>. QED  BY <1>1, ApplyNext DEF StateAt

\* A state is reached from any earlier one by the entries between them.
LEMMA StateContinues ==
  ASSUME NEW entries, NEW from \in Nat, NEW to \in Nat, from <= to
  PROVE  ApplyAll(StateAt(entries, from), Commands(entries, from + 1, to)) = StateAt(entries, to)
<1>. DEFINE m == StateAt(entries, from)
            N == to - from
            S == {n \in 0..N : ApplyAll(m, Commands(entries, from + 1, from + n))
                                 = StateAt(entries, from + n)}
<1>1. 0 \in S
  <2>1. 0 \in 0..N /\ from + 0 = from /\ from + 1 \in Nat
    OBVIOUS
  <2>2. ApplyAll(m, Commands(entries, from + 1, from)) = m
    BY <2>1, ApplyNone, Zenon
  <2>. QED  BY <2>1, <2>2
<1>2. ASSUME NEW n \in 0..N, n + 1 \in 0..N, n \in S  PROVE n + 1 \in S
  <2>. DEFINE k == from + n
              next == from + (n + 1)
  <2>1. k \in Nat /\ next \in Nat /\ from + 1 \in Nat /\ from + 1 <= next /\ next = k + 1
    OBVIOUS
  <2>2. ApplyAll(m, Commands(entries, from + 1, k)) = StateAt(entries, k)
    BY <1>2
  <2>. HIDE DEF k, next, m
  <2>3. ApplyAll(m, Commands(entries, from + 1, next)) =
        Apply(ApplyAll(m, Commands(entries, from + 1, k)), entries[next].command).machine
    BY <2>1, ApplyNext
  <2>4. StateAt(entries, next) = Apply(StateAt(entries, k), entries[next].command).machine
    BY <2>1, StateSteps, Zenon
  <2>5. ApplyAll(m, Commands(entries, from + 1, next)) = StateAt(entries, next)
    BY <2>2, <2>3, <2>4, Zenon
  <2>. QED  BY <1>2, <2>5, Zenon DEF next
<1>3. N \in Nat /\ N \in 0..N /\ from + N = to
  OBVIOUS
<1>. HIDE DEF S, N
<1>4. N \in S
  BY <1>1, <1>2, <1>3, UpTo, Zenon
<1>. QED  BY <1>3, <1>4 DEF S

\* States depend on the entries that are applied and on no others.
LEMMA StatesAgree ==
  ASSUME NEW s, NEW t, NEW n \in Nat, \A k \in 1..n : s[k] = t[k]
  PROVE  StateAt(s, n) = StateAt(t, n)
<1>1. Commands(s, 1, n) = Commands(t, 1, n)
  BY DEF Commands
<1>. QED  BY <1>1, Zenon DEF StateAt

-----------------------------------------------------------------------------
(* One command *)

\* The fields of a request.
LEMMA RequestFields ==
  ASSUME NEW c \in Request
  PROVE  /\ c \in Command
         /\ c # NoOp
         /\ c.type \in {"Open", "Close", "Set", "Delete"}
         /\ c.session \in Session
         /\ IsMutation(c) => /\ c.sequence \in Nat /\ c.sequence >= 1
                             /\ c.key \in Key
                             /\ c.type = "Set" => c.value \in Value
<1>1. CASE c \in [type : {"Open", "Close"}, session : Session]
  BY <1>1 DEF IsMutation, Command, NoOp
<1>2. CASE c \in [type : {"Set"}, session : Session, sequence : 1..MaxSequence, key : Key, value : Value]
  BY <1>2, NodesAssumption DEF IsMutation, Command, NoOp
<1>3. CASE c \in [type : {"Delete"}, session : Session, sequence : 1..MaxSequence, key : Key]
  BY <1>3, NodesAssumption DEF IsMutation, Command, NoOp
<1>. QED  BY <1>1, <1>2, <1>3 DEF Request

\* The state machine begins with no sessions.
LEMMA NewMachineOK == MachineOK(NewMachine)
<1>1. ActiveSessions(NewMachine) = {}
  BY DEF ActiveSessions, NewMachine, NoRecord
<1>2. NewMachine \in [active : Nat, sessions : [Session -> Record], values : [Key -> Value \cup {NoValue}]]
  BY DEF NewMachine, NoRecord, Record
<1>3. NewMachine.active = 0 /\ \A s \in Session : NewMachine.sessions[s] = NoRecord
  BY DEF NewMachine
<1>. QED  BY <1>1, <1>2, <1>3, FS_EmptySet, SessionAssumption DEF MachineOK

\* What a request can be answered.
ResultType ==
  [failure : {"Succeeded", "LimitReached", "Unknown", "Closed", "AlreadyExists",
              "StaleSequence", "OutOfOrderSequence"},
   existed : BOOLEAN]

\* evaluateMutation: only the next mutation of an open session takes effect, and only
\* the latest one is answered with success again, from the record.
LEMMA Evaluated ==
  ASSUME NEW m, MachineOK(m), NEW c \in Request, IsMutation(c)
  PROVE  LET r == m.sessions[c.session]
             e == EvaluateMutation(m, c)
         IN /\ e.apply \in BOOLEAN
            /\ e.result \in ResultType
            /\ e.apply => /\ r.state = "Active"
                          /\ c.sequence = r.last + 1
                          /\ e.result.failure = "Succeeded"
            /\ ~e.apply /\ e.result.failure = "Succeeded" =>
                 c.sequence = r.last /\ e.result.existed = r.existed
<1>. DEFINE r == m.sessions[c.session]
<1>1. r \in Record
  BY RequestFields DEF MachineOK
<1>2. c.sequence \in Nat /\ c.sequence >= 1
  BY RequestFields
<1>3. r.state \in {"Unknown", "Closed", "Active"} /\ r.last \in Nat /\ r.result = "Succeeded"
  BY <1>1 DEF Record
<1>4. EvaluateMutation(m, c) =
        CASE r.state \in {"Unknown", "Closed"} ->
               [apply |-> FALSE, result |-> [failure |-> r.state, existed |-> FALSE]]
          [] r.state = "Active" /\ c.sequence = r.last /\ c.sequence # 0 ->
               [apply |-> FALSE, result |-> [failure |-> r.result, existed |-> r.existed]]
          [] r.state = "Active" /\ c.sequence < r.last ->
               [apply |-> FALSE, result |-> [failure |-> "StaleSequence", existed |-> FALSE]]
          [] r.state = "Active" /\ c.sequence > r.last + 1 ->
               [apply |-> FALSE, result |-> [failure |-> "OutOfOrderSequence", existed |-> FALSE]]
          [] OTHER -> [apply |-> TRUE, result |-> [failure |-> "Succeeded", existed |-> FALSE]]
  BY DEF EvaluateMutation, Result
<1>. DEFINE e == EvaluateMutation(m, c)
<1>. HIDE DEF r, e
<1>5. CASE r.state # "Active"
  <2>1. e = [apply |-> FALSE, result |-> [failure |-> r.state, existed |-> FALSE]]
    BY <1>3, <1>4, <1>5 DEF e
  <2>. QED  BY <1>3, <1>5, <2>1 DEF r, e, ResultType
<1>6. CASE r.state = "Active" /\ c.sequence = r.last
  <2>1. e = [apply |-> FALSE, result |-> [failure |-> "Succeeded", existed |-> r.existed]]
    BY <1>2, <1>3, <1>4, <1>6 DEF e
  <2>2. r.existed \in BOOLEAN
    BY <1>1 DEF Record
  <2>. QED  BY <1>6, <2>1, <2>2 DEF r, e, ResultType
<1>7. CASE r.state = "Active" /\ c.sequence < r.last
  <2>1. e = [apply |-> FALSE, result |-> [failure |-> "StaleSequence", existed |-> FALSE]]
    BY <1>2, <1>3, <1>4, <1>7 DEF e
  <2>. QED  BY <2>1 DEF r, e, ResultType
<1>8. CASE r.state = "Active" /\ c.sequence > r.last + 1
  <2>1. e = [apply |-> FALSE, result |-> [failure |-> "OutOfOrderSequence", existed |-> FALSE]]
    BY <1>2, <1>3, <1>4, <1>8 DEF e
  <2>. QED  BY <2>1 DEF r, e, ResultType
<1>9. CASE r.state = "Active" /\ c.sequence = r.last + 1
  <2>1. e = [apply |-> TRUE, result |-> [failure |-> "Succeeded", existed |-> FALSE]]
    BY <1>2, <1>3, <1>4, <1>9 DEF e
  <2>. QED  BY <1>9, <2>1 DEF r, e, ResultType
<1>10. \/ r.state # "Active"
       \/ r.state = "Active" /\ c.sequence = r.last
       \/ r.state = "Active" /\ c.sequence < r.last
       \/ r.state = "Active" /\ c.sequence > r.last + 1
       \/ r.state = "Active" /\ c.sequence = r.last + 1
  BY <1>2, <1>3
<1>. QED  BY <1>5, <1>6, <1>7, <1>8, <1>9, <1>10, Zenon

\* Opening a session takes a slot, if there is one.
LEMMA OpenOK ==
  ASSUME NEW m, MachineOK(m), NEW s \in Session
  PROVE  LET a == ApplyOpen(m, s)
         IN /\ MachineOK(a.machine)
            /\ a.result \in ResultType /\ a.result.existed = FALSE
            /\ \A x \in Session : /\ a.machine.sessions[x].last = m.sessions[x].last
                                  /\ a.machine.sessions[x].existed = m.sessions[x].existed
<1>. DEFINE n == [m EXCEPT !.sessions[s].state = "Active", !.active = @ + 1]
<1>0. m \in [active : Nat, sessions : [Session -> Record], values : [Key -> Value \cup {NoValue}]]
  BY DEF MachineOK
<1>1. CASE m.sessions[s].state # "Unknown" \/ m.active >= Limit
  BY <1>1 DEF ApplyOpen, Result, ResultType
<1>2. CASE m.sessions[s].state = "Unknown" /\ ~(m.active >= Limit)
  <2>1. ApplyOpen(m, s) = [machine |-> n, result |-> [failure |-> "Succeeded", existed |-> FALSE]]
    BY <1>2 DEF ApplyOpen, Result
  <2>2. /\ n.active = m.active + 1
        /\ n.values = m.values
        /\ n.sessions = [m.sessions EXCEPT ![s].state = "Active"]
        /\ n \in [active : {n.active}, sessions : {n.sessions}, values : {n.values}]
    <3>1. DOMAIN m = {"active", "sessions", "values"}
      BY <1>0
    <3>3. n.active = m.active + 1
      BY <3>1
    <3>4. n.values = m.values
      BY <3>1
    <3>5. n.sessions = [m.sessions EXCEPT ![s].state = "Active"]
      BY <3>1
    <3>6. n \in [active : {n.active}, sessions : {n.sessions}, values : {n.values}]
      BY <1>0, Zenon
    <3>. QED  BY <3>3, <3>4, <3>5, <3>6, Zenon
  <2>. HIDE DEF n
  <2>3. /\ n.sessions \in [Session -> Record]
        /\ \A x \in Session : x # s => n.sessions[x] = m.sessions[x]
        /\ n.sessions[s].state = "Active"
        /\ n.sessions[s].last = m.sessions[s].last
        /\ n.sessions[s].existed = m.sessions[s].existed
    BY <1>0, <2>2 DEF Record
  <2>4. ActiveSessions(n) = ActiveSessions(m) \cup {s} /\ s \notin ActiveSessions(m)
    BY <1>2, <2>3 DEF ActiveSessions
  <2>5. /\ IsFiniteSet(ActiveSessions(m))
        /\ m.active = Cardinality(ActiveSessions(m))
        /\ m.active \in Nat /\ m.active <= Limit
        /\ \A x \in Session : m.sessions[x].state = "Unknown" => m.sessions[x] = NoRecord
    BY <1>0 DEF MachineOK
  <2>6. IsFiniteSet(ActiveSessions(n)) /\ Cardinality(ActiveSessions(n)) = m.active + 1
    BY <2>4, <2>5, FS_AddElement
  <2>7. n.active \in Nat /\ n.active <= Limit
    BY <1>2, <2>2, <2>5, SessionAssumption
  <2>8. \A x \in Session : n.sessions[x].state = "Unknown" => n.sessions[x] = NoRecord
    BY <2>3, <2>5
  <2>9. n \in [active : Nat, sessions : [Session -> Record], values : [Key -> Value \cup {NoValue}]]
    BY <1>0, <2>2, <2>3, <2>7
  <2>10. MachineOK(n)
    BY <2>2, <2>6, <2>7, <2>8, <2>9, Zenon DEF MachineOK
  <2>11. \A x \in Session : /\ n.sessions[x].last = m.sessions[x].last
                            /\ n.sessions[x].existed = m.sessions[x].existed
    BY <2>3, Zenon
  <2>. QED  BY <2>1, <2>10, <2>11 DEF ResultType
<1>. QED  BY <1>1, <1>2, Zenon

\* Closing a session frees its slot, once.
LEMMA CloseOK ==
  ASSUME NEW m, MachineOK(m), NEW s \in Session
  PROVE  LET a == ApplyClose(m, s)
         IN /\ MachineOK(a.machine)
            /\ a.result \in ResultType /\ a.result.existed = FALSE
            /\ \A x \in Session : /\ a.machine.sessions[x].last = m.sessions[x].last
                                  /\ a.machine.sessions[x].existed = m.sessions[x].existed
<1>. DEFINE n == [m EXCEPT !.sessions[s].state = "Closed", !.active = @ - 1]
<1>0. m \in [active : Nat, sessions : [Session -> Record], values : [Key -> Value \cup {NoValue}]]
  BY DEF MachineOK
<1>1. CASE m.sessions[s].state # "Active"
  <2>1. m.sessions[s].state \in {"Unknown", "Closed"}
    BY <1>0, <1>1 DEF Record
  <2>. QED  BY <1>1, <2>1 DEF ApplyClose, Result, ResultType
<1>2. CASE m.sessions[s].state = "Active"
  <2>1. ApplyClose(m, s) = [machine |-> n, result |-> [failure |-> "Succeeded", existed |-> FALSE]]
    BY <1>2 DEF ApplyClose, Result
  <2>2. /\ n.active = m.active - 1
        /\ n.values = m.values
        /\ n.sessions = [m.sessions EXCEPT ![s].state = "Closed"]
        /\ n \in [active : {n.active}, sessions : {n.sessions}, values : {n.values}]
    <3>1. DOMAIN m = {"active", "sessions", "values"}
      BY <1>0
    <3>3. n.active = m.active - 1
      BY <3>1
    <3>4. n.values = m.values
      BY <3>1
    <3>5. n.sessions = [m.sessions EXCEPT ![s].state = "Closed"]
      BY <3>1
    <3>6. n \in [active : {n.active}, sessions : {n.sessions}, values : {n.values}]
      BY <1>0, Zenon
    <3>. QED  BY <3>3, <3>4, <3>5, <3>6, Zenon
  <2>. HIDE DEF n
  <2>3. /\ n.sessions \in [Session -> Record]
        /\ \A x \in Session : x # s => n.sessions[x] = m.sessions[x]
        /\ n.sessions[s].state = "Closed"
        /\ n.sessions[s].last = m.sessions[s].last
        /\ n.sessions[s].existed = m.sessions[s].existed
    BY <1>0, <2>2 DEF Record
  <2>4. ActiveSessions(n) = ActiveSessions(m) \ {s} /\ s \in ActiveSessions(m)
    BY <1>2, <2>3 DEF ActiveSessions
  <2>5. /\ IsFiniteSet(ActiveSessions(m))
        /\ m.active = Cardinality(ActiveSessions(m))
        /\ m.active \in Nat /\ m.active <= Limit
        /\ \A x \in Session : m.sessions[x].state = "Unknown" => m.sessions[x] = NoRecord
    BY <1>0 DEF MachineOK
  <2>6. IsFiniteSet(ActiveSessions(n)) /\ Cardinality(ActiveSessions(n)) = m.active - 1
    BY <2>4, <2>5, FS_RemoveElement
  <2>7. n.active \in Nat /\ n.active <= Limit
    <3>1. Cardinality(ActiveSessions(n)) \in Nat
      BY <2>6, FS_CardinalityType
    <3>. QED  BY <2>2, <2>5, <2>6, <3>1, SessionAssumption
  <2>8. \A x \in Session : n.sessions[x].state = "Unknown" => n.sessions[x] = NoRecord
    BY <2>3, <2>5
  <2>9. n \in [active : Nat, sessions : [Session -> Record], values : [Key -> Value \cup {NoValue}]]
    BY <1>0, <2>2, <2>3, <2>7
  <2>10. MachineOK(n)
    BY <2>2, <2>6, <2>7, <2>8, <2>9, Zenon DEF MachineOK
  <2>11. \A x \in Session : /\ n.sessions[x].last = m.sessions[x].last
                            /\ n.sessions[x].existed = m.sessions[x].existed
    BY <2>3, Zenon
  <2>. QED  BY <2>1, <2>10, <2>11 DEF ResultType
<1>. QED  BY <1>1, <1>2, Zenon

\* A mutation that takes effect is the next of its session, and its result is kept.
LEMMA MutationOK ==
  ASSUME NEW m, MachineOK(m), NEW c \in Request, IsMutation(c), EvaluateMutation(m, c).apply
  PROVE  LET a == ApplyMutation(m, c)
             existed == c.type = "Delete" /\ m.values[c.key] # NoValue
         IN /\ MachineOK(a.machine)
            /\ a.result \in [failure : {"Succeeded"}, existed : {existed}]
            /\ c.sequence = m.sessions[c.session].last + 1
            /\ a.machine.sessions[c.session].last = c.sequence
            /\ a.machine.sessions[c.session].existed = existed
            /\ \A x \in Session : x # c.session => a.machine.sessions[x] = m.sessions[x]
<1>. DEFINE s == c.session
            existed == c.type = "Delete" /\ m.values[c.key] # NoValue
            value == IF c.type = "Set" THEN c.value ELSE NoValue
            record == [state |-> "Active", last |-> c.sequence, result |-> "Succeeded", existed |-> existed]
            n == [m EXCEPT !.values[c.key] = value, !.sessions[s] = record]
<1>0. m \in [active : Nat, sessions : [Session -> Record], values : [Key -> Value \cup {NoValue}]]
  BY DEF MachineOK
<1>1. /\ EvaluateMutation(m, c).result \in ResultType
      /\ EvaluateMutation(m, c).result.failure = "Succeeded"
      /\ m.sessions[s].state = "Active" /\ c.sequence = m.sessions[s].last + 1
  BY Evaluated
<1>. DEFINE e == EvaluateMutation(m, c)
<1>2. /\ ApplyMutation(m, c).machine = n
      /\ ApplyMutation(m, c).result \in [failure : {"Succeeded"}, existed : {existed}]
  <2>1. e.apply /\ e.result \in ResultType
    BY <1>1
  <2>2. e.result.failure = "Succeeded"
    BY <1>1
  <2>. HIDE DEF e
  <2>3. ApplyMutation(m, c) = [machine |-> n, result |-> [e.result EXCEPT !.existed = existed]]
    BY <2>1, <2>2 DEF ApplyMutation, e
  <2>. HIDE DEF n
  <2>. QED  BY <2>1, <2>2, <2>3 DEF ResultType
<1>3. /\ n.active = m.active
      /\ n.values = [m.values EXCEPT ![c.key] = value]
      /\ n.sessions = [m.sessions EXCEPT ![s] = record]
      /\ n \in [active : {n.active}, sessions : {n.sessions}, values : {n.values}]
  <2>. HIDE DEF value, record
  <2>1. DOMAIN m = {"active", "sessions", "values"}
    BY <1>0
  <2>3. n.active = m.active
    BY <2>1
  <2>4. n.values = [m.values EXCEPT ![c.key] = value]
    BY <2>1
  <2>5. n.sessions = [m.sessions EXCEPT ![s] = record]
    BY <2>1
  <2>6. n \in [active : {n.active}, sessions : {n.sessions}, values : {n.values}]
    BY <1>0, Zenon
  <2>. QED  BY <2>3, <2>4, <2>5, <2>6, Zenon
<1>4. /\ s \in Session /\ c.sequence \in Nat /\ existed \in BOOLEAN
      /\ value \in Value \cup {NoValue}
  BY RequestFields DEF IsMutation
<1>5. record \in Record /\ record.state = "Active" /\ record.last = c.sequence /\ record.existed = existed
  BY <1>4 DEF Record
<1>. HIDE DEF n, record, value, existed, s
<1>6. /\ n.sessions \in [Session -> Record]
      /\ \A x \in Session : x # s => n.sessions[x] = m.sessions[x]
      /\ n.sessions[s] = record
      /\ n.values \in [Key -> Value \cup {NoValue}]
  <2>1. m.sessions \in [Session -> Record] /\ m.values \in [Key -> Value \cup {NoValue}]
    BY <1>0
  <2>2. n.sessions \in [Session -> Record]
    BY <1>3, <1>5, <2>1, Zenon
  <2>3. (\A x \in Session : x # s => n.sessions[x] = m.sessions[x]) /\ n.sessions[s] = record
    BY <1>3, <1>4, <2>1, Zenon
  <2>4. n.values \in [Key -> Value \cup {NoValue}]
    BY <1>3, <1>4, <2>1, Zenon
  <2>. QED  BY <2>2, <2>3, <2>4, Zenon
<1>7. ActiveSessions(n) = ActiveSessions(m)
  BY <1>1, <1>4, <1>5, <1>6 DEF ActiveSessions
<1>8. \A x \in Session : n.sessions[x].state = "Unknown" => n.sessions[x] = NoRecord
  BY <1>5, <1>6 DEF MachineOK
<1>9. n \in [active : Nat, sessions : [Session -> Record], values : [Key -> Value \cup {NoValue}]]
  BY <1>0, <1>3, <1>6
<1>10. MachineOK(n)
  BY <1>3, <1>7, <1>8, <1>9 DEF MachineOK
<1>. QED  BY <1>1, <1>2, <1>5, <1>6, <1>10 DEF existed, s

\* What one command does to the state, and what it answers.
Outcome(m, c, n, result) ==
  /\ MachineOK(n)
  /\ \A x \in Session :
       \/ /\ n.sessions[x].last = m.sessions[x].last
          /\ n.sessions[x].existed = m.sessions[x].existed
       \/ /\ IsMutation(c)
          /\ EvaluateMutation(m, c).apply
          /\ x = c.session
          /\ n.sessions[x].last = c.sequence
          /\ c.sequence = m.sessions[x].last + 1
          /\ n.sessions[x].existed = (c.type = "Delete" /\ m.values[c.key] # NoValue)
  /\ result \in ResultType
  /\ ~IsMutation(c) => result.existed = FALSE
  /\ IsMutation(c) /\ EvaluateMutation(m, c).apply =>
       /\ result.existed = (c.type = "Delete" /\ m.values[c.key] # NoValue)
       /\ n.sessions[c.session].last = c.sequence
       /\ c.sequence = m.sessions[c.session].last + 1
  /\ IsMutation(c) /\ ~EvaluateMutation(m, c).apply /\ result.failure = "Succeeded" =>
       /\ c.sequence = m.sessions[c.session].last
       /\ result.existed = m.sessions[c.session].existed

\* A mutation that is not the next of its session changes nothing.
LEMMA RejectedOutcome ==
  ASSUME NEW m, MachineOK(m), NEW c \in Request, IsMutation(c), ~EvaluateMutation(m, c).apply
  PROVE  Outcome(m, c, m, EvaluateMutation(m, c).result)
<1>. DEFINE e == EvaluateMutation(m, c)
            r == m.sessions[c.session]
<1>3. /\ e.result \in ResultType
      /\ e.result.failure = "Succeeded" => c.sequence = r.last /\ e.result.existed = r.existed
  BY Evaluated
<1>. HIDE DEF e, r
<1>4. ~e.apply
  BY DEF e
<1>. QED  BY <1>3, <1>4, Zenon DEF Outcome, e, r

\* apply, for every command a log may hold.
LEMMA ApplyOutcome ==
  ASSUME NEW m, MachineOK(m), NEW c \in Request \cup {NoOp}
  PROVE  Outcome(m, c, Apply(m, c).machine, Apply(m, c).result)
<1>. DEFINE a == Apply(m, c)
<1>1. CASE c = NoOp
  <2>1. a = [machine |-> m, result |-> [failure |-> "Succeeded", existed |-> FALSE]]
    <3>1. c.type = "NoOp"
      BY <1>1 DEF NoOp
    <3>. QED  BY <3>1 DEF Apply, Result, IsMutation
  <2>2. ~IsMutation(c)
    BY <1>1 DEF IsMutation, NoOp
  <2>. HIDE DEF a
  <2>3. a.machine = m /\ a.result.existed = FALSE /\ a.result.failure = "Succeeded"
        /\ a.result \in ResultType
    BY <2>1 DEF ResultType
  <2>4. Outcome(m, c, a.machine, a.result)
    BY <2>2, <2>3, Zenon DEF Outcome
  <2>. QED  BY <2>4, Zenon DEF a
<1>2. CASE c \in Request /\ c.type \in {"Open", "Close"}
  <2>1. c.session \in Session /\ ~IsMutation(c)
    BY <1>2, RequestFields DEF IsMutation
  <2>2. a = ApplyOpen(m, c.session) \/ a = ApplyClose(m, c.session)
    BY <1>2 DEF Apply, IsMutation
  <2>. HIDE DEF a
  <2>3. /\ MachineOK(a.machine)
        /\ a.result \in ResultType /\ a.result.existed = FALSE
        /\ \A x \in Session : /\ a.machine.sessions[x].last = m.sessions[x].last
                              /\ a.machine.sessions[x].existed = m.sessions[x].existed
    <3>1. CASE a = ApplyOpen(m, c.session)
      BY <2>1, <3>1, OpenOK, Zenon
    <3>2. CASE a = ApplyClose(m, c.session)
      BY <2>1, <3>2, CloseOK, Zenon
    <3>. QED  BY <2>2, <3>1, <3>2, Zenon
  <2>5. Outcome(m, c, a.machine, a.result)
    BY <2>1, <2>3, Zenon DEF Outcome
  <2>. QED  BY <2>5, Zenon DEF a
<1>3. CASE c \in Request /\ IsMutation(c) /\ EvaluateMutation(m, c).apply
  <2>1. a = ApplyMutation(m, c)
    BY <1>3 DEF Apply, IsMutation
  <2>. DEFINE existed == c.type = "Delete" /\ m.values[c.key] # NoValue
  <2>. HIDE DEF a
  <2>2. /\ MachineOK(a.machine)
        /\ a.result \in [failure : {"Succeeded"}, existed : {existed}]
        /\ c.sequence = m.sessions[c.session].last + 1
        /\ a.machine.sessions[c.session].last = c.sequence
        /\ a.machine.sessions[c.session].existed = existed
        /\ \A x \in Session : x # c.session => a.machine.sessions[x] = m.sessions[x]
    BY <1>3, <2>1, MutationOK
  <2>3. existed \in BOOLEAN
    OBVIOUS
  <2>. HIDE DEF existed
  <2>4. /\ a.result.existed = existed
        /\ a.result \in ResultType
    BY <2>2, <2>3 DEF ResultType
  <2>5. Outcome(m, c, a.machine, a.result)
    BY <1>3, <2>2, <2>4, Zenon DEF Outcome, existed
  <2>. QED  BY <2>5, Zenon DEF a
<1>4. CASE c \in Request /\ IsMutation(c) /\ ~EvaluateMutation(m, c).apply
  <2>1. a = ApplyMutation(m, c)
    BY <1>4 DEF Apply, IsMutation
  <2>2. a = [machine |-> m, result |-> EvaluateMutation(m, c).result]
    BY <1>4, <2>1 DEF ApplyMutation
  <2>3. a.machine = m /\ a.result = EvaluateMutation(m, c).result
    BY <2>2
  <2>. HIDE DEF a
  <2>4. Outcome(m, c, a.machine, a.result)
    BY <1>4, <2>3, RejectedOutcome, Zenon
  <2>. QED  BY <2>4, Zenon DEF a
<1>5. c \in Request => c.type \in {"Open", "Close"} \/ IsMutation(c)
  BY RequestFields DEF IsMutation
<1>. QED  BY <1>1, <1>2, <1>3, <1>4, <1>5, Zenon

-----------------------------------------------------------------------------
(* The states of a log *)

\* Every command of a log is a request or a no-op.
HoldsRequests(entries) ==
  /\ Len(entries) \in Nat
  /\ \A k \in 1..Len(entries) : entries[k].command \in Request \cup {NoOp}

\* Every state of a log is a state of the machine.
LEMMA StatesOK ==
  ASSUME NEW e, HoldsRequests(e)
  PROVE  \A n \in 0..Len(e) : MachineOK(StateAt(e, n))
<1>. DEFINE N == Len(e)
            S == {n \in 0..N : MachineOK(StateAt(e, n))}
<1>1. N \in Nat /\ \A k \in 1..N : e[k].command \in Request \cup {NoOp}
  BY DEF HoldsRequests
<1>. HIDE DEF N
<1>2. 0 \in S
  <2>1. 0 \in 0..N
    BY <1>1
  <2>. QED  BY <2>1, StateBegins, NewMachineOK, Zenon
<1>3. ASSUME NEW n \in 0..N, n + 1 \in 0..N, n \in S  PROVE n + 1 \in S
  <2>1. n \in Nat /\ n + 1 \in Nat /\ n + 1 \in 1..N
    BY <1>1, <1>3
  <2>. DEFINE next == n + 1
              c == e[next].command
  <2>2. c \in Request \cup {NoOp} /\ MachineOK(StateAt(e, n))
    BY <1>1, <1>3, <2>1, Zenon
  <2>3. StateAt(e, next) = Apply(StateAt(e, n), c).machine
    BY <2>1, StateSteps
  <2>. HIDE DEF next, c
  <2>4. MachineOK(Apply(StateAt(e, n), c).machine)
    BY <2>2, ApplyOutcome, Zenon DEF Outcome
  <2>5. MachineOK(StateAt(e, next))
    BY <2>3, <2>4, Zenon
  <2>. QED  BY <1>3, <2>5, Zenon DEF next
<1>. HIDE DEF S
<1>4. \A n \in 0..N : n \in S
  BY <1>1, <1>2, <1>3, UpTo, Zenon
<1>. QED  BY <1>4, Zenon DEF S, N

\* Each entry has the outcome of its command.
LEMMA EntryOutcome ==
  ASSUME NEW e, HoldsRequests(e), NEW k \in 1..Len(e)
  PROVE  /\ MachineOK(StateAt(e, k - 1))
         /\ Outcome(StateAt(e, k - 1), e[k].command, StateAt(e, k),
                    Apply(StateAt(e, k - 1), e[k].command).result)
<1>. DEFINE j == k - 1
            c == e[k].command
<1>1. Len(e) \in Nat
  BY DEF HoldsRequests
<1>2. j \in 0..Len(e) /\ j \in Nat /\ k \in Nat /\ k = j + 1
  BY <1>1
<1>. HIDE DEF j
<1>3. c \in Request \cup {NoOp}
  BY DEF HoldsRequests
<1>4. MachineOK(StateAt(e, j))
  BY <1>2, StatesOK, Zenon
<1>5. StateAt(e, k) = Apply(StateAt(e, j), c).machine
  BY <1>2, StateSteps
<1>. HIDE DEF c
<1>6. Outcome(StateAt(e, j), c, StateAt(e, k), Apply(StateAt(e, j), c).result)
  BY <1>3, <1>4, <1>5, ApplyOutcome, Zenon
<1>. QED  BY <1>4, <1>6, Zenon DEF j, c

\* The sequence of a session never falls.
LEMMA LastGrows ==
  ASSUME NEW e, HoldsRequests(e), NEW s \in Session, NEW j \in 0..Len(e), NEW k \in 0..Len(e), j <= k
  PROVE  /\ StateAt(e, j).sessions[s].last \in Nat
         /\ StateAt(e, j).sessions[s].last <= StateAt(e, k).sessions[s].last
<1>. DEFINE Last(n) == StateAt(e, n).sessions[s].last
            N == Len(e) - j
            S == {n \in 0..N : Last(j) <= Last(j + n)}
<1>1. Len(e) \in Nat
  BY DEF HoldsRequests
<1>2. \A n \in 0..Len(e) : Last(n) \in Nat
  BY StatesOK DEF MachineOK, Record
<1>. HIDE DEF Last
<1>3. N \in Nat /\ k - j \in 0..N /\ j + (k - j) = k /\ j \in Nat
  BY <1>1
<1>4. 0 \in S
  <2>1. 0 \in 0..N /\ j + 0 = j /\ Last(j) <= Last(j)
    BY <1>2, <1>3
  <2>. QED  BY <2>1
<1>5. ASSUME NEW n \in 0..N, n + 1 \in 0..N, n \in S  PROVE n + 1 \in S
  <2>. DEFINE x == j + n
              y == j + (n + 1)
  <2>1. x \in 0..Len(e) /\ y \in 0..Len(e) /\ y \in 1..Len(e) /\ y - 1 = x
    BY <1>1, <1>5
  <2>. HIDE DEF x, y
  <2>2. Outcome(StateAt(e, x), e[y].command, StateAt(e, y),
                Apply(StateAt(e, x), e[y].command).result)
    BY <2>1, EntryOutcome
  <2>3. \/ Last(y) = Last(x)
        \/ /\ Last(y) = e[y].command.sequence
           /\ e[y].command.sequence = Last(x) + 1
    BY <2>2, Zenon DEF Outcome, Last
  <2>4. Last(j) <= Last(x)
    BY <1>5, Zenon DEF x
  <2>5. Last(x) \in Nat /\ Last(j) \in Nat
    BY <1>2, <2>1, Zenon
  <2>6. Last(j) <= Last(y)
    BY <2>3, <2>4, <2>5
  <2>. QED  BY <1>5, <2>6, Zenon DEF y
<1>. HIDE DEF S, N
<1>6. k - j \in S
  BY <1>3, <1>4, <1>5, UpTo, Zenon
<1>7. Last(j) <= Last(k)
  BY <1>3, <1>6 DEF S
<1>. QED  BY <1>2, <1>7, Zenon DEF Last

\* An entry that takes effect carries the sequence after the last one of its session,
\* and becomes the last one.
LEMMA EffectiveIsNext ==
  ASSUME NEW e, HoldsRequests(e), NEW k \in EffectiveIn(e)
  PROVE  LET c == e[k].command
         IN /\ k \in 1..Len(e) /\ IsMutation(c) /\ c \in Request
            /\ c.session \in Session /\ c.sequence \in Nat
            /\ c.sequence = StateAt(e, k - 1).sessions[c.session].last + 1
            /\ c.sequence = StateAt(e, k).sessions[c.session].last
            /\ Apply(StateAt(e, k - 1), c).result.existed = ExistedAt(e, k)
<1>. DEFINE c == e[k].command
<1>1. k \in 1..Len(e) /\ IsMutation(c) /\ EvaluateMutation(StateAt(e, k - 1), c).apply
  BY DEF EffectiveIn
<1>2. c \in Request
  <2>1. c \in Request \cup {NoOp}
    BY <1>1 DEF HoldsRequests
  <2>2. c # NoOp
    BY <1>1 DEF IsMutation, NoOp
  <2>. QED  BY <2>1, <2>2
<1>3. c.session \in Session /\ c.sequence \in Nat
  BY <1>1, <1>2, RequestFields
<1>4. Outcome(StateAt(e, k - 1), c, StateAt(e, k), Apply(StateAt(e, k - 1), c).result)
  BY <1>1, EntryOutcome, Zenon
<1>5. /\ c.sequence = StateAt(e, k - 1).sessions[c.session].last + 1
      /\ StateAt(e, k).sessions[c.session].last = c.sequence
      /\ Apply(StateAt(e, k - 1), c).result.existed =
           (c.type = "Delete" /\ StateAt(e, k - 1).values[c.key] # NoValue)
  BY <1>1, <1>4, Zenon DEF Outcome
<1>. QED  BY <1>1, <1>2, <1>3, <1>5, Zenon DEF ExistedAt

\* Two entries of one session and sequence do not both take effect.
LEMMA OnceInLog ==
  ASSUME NEW e, HoldsRequests(e), NEW j \in EffectiveIn(e), NEW k \in EffectiveIn(e),
         e[j].command.session = e[k].command.session,
         e[j].command.sequence = e[k].command.sequence
  PROVE  j = k
<1>0. Len(e) \in Nat
  BY DEF HoldsRequests
<1>1. ASSUME NEW a \in EffectiveIn(e), NEW b \in EffectiveIn(e), a < b,
             e[a].command.session = e[b].command.session,
             e[a].command.sequence = e[b].command.sequence
      PROVE  FALSE
  <2>. DEFINE s == e[a].command.session
              q == e[a].command.sequence
  <2>1. a \in 1..Len(e) /\ s \in Session /\ q \in Nat /\ q = StateAt(e, a).sessions[s].last
    BY EffectiveIsNext, SMTT(30)
  <2>2. b \in 1..Len(e) /\ q = StateAt(e, b - 1).sessions[s].last + 1
    BY <1>1, EffectiveIsNext, SMTT(30)
  <2>. HIDE DEF s, q
  <2>3. a \in 0..Len(e) /\ b - 1 \in 0..Len(e) /\ a <= b - 1
    BY <1>0, <1>1, <2>1, <2>2
  <2>4. /\ StateAt(e, a).sessions[s].last <= StateAt(e, b - 1).sessions[s].last
        /\ StateAt(e, b - 1).sessions[s].last \in Nat
    <3>1. b - 1 <= b - 1
      BY <2>3
    <3>. QED  BY <2>1, <2>3, <3>1, LastGrows, Zenon
  <2>. QED  BY <2>1, <2>2, <2>4, SMTT(30)
<1>2. j \in 1..Len(e) /\ k \in 1..Len(e)
  BY DEF EffectiveIn
<1>3. j < k \/ k < j \/ j = k
  BY <1>0, <1>2
<1>. QED  BY <1>1, <1>3, Zenon

\* The record of a session is that of its latest mutation to take effect.
LEMMA RecordsAreOf ==
  ASSUME NEW e, HoldsRequests(e)
  PROVE  \A n \in 0..Len(e) : \A s \in Session : RecordIsOf(e, n, s)
<1>. DEFINE N == Len(e)
            S == {n \in 0..N : \A s \in Session : RecordIsOf(e, n, s)}
<1>1. N \in Nat
  BY DEF HoldsRequests
<1>2. 0 \in S
  <2>1. 0 \in 0..N /\ ~(0 > 0)
    BY <1>1
  <2>2. \A s \in Session : StateAt(e, 0).sessions[s].last = 0
    BY StateBegins DEF NewMachine, NoRecord
  <2>. QED  BY <2>1, <2>2, Zenon DEF RecordIsOf
<1>3. ASSUME NEW n \in 0..N, n + 1 \in 0..N, n \in S  PROVE n + 1 \in S
  <2>. DEFINE x == n + 1
              c == e[x].command
              m == StateAt(e, n)
  <2>1. x \in 1..Len(e) /\ x - 1 = n /\ x <= x /\ n <= x
    BY <1>1, <1>3
  <2>. HIDE DEF x
  <2>2. Outcome(m, c, StateAt(e, x), Apply(m, c).result)
    BY <2>1, EntryOutcome
  <2>. HIDE DEF c, m
  <2>3. ASSUME NEW s \in Session  PROVE RecordIsOf(e, x, s)
    <3>. DEFINE record == StateAt(e, x).sessions[s]
    <3>1. CASE /\ record.last = m.sessions[s].last
               /\ record.existed = m.sessions[s].existed
      <4>. SUFFICES ASSUME record.last > 0
                    PROVE  \E k \in EffectiveIn(e) : /\ k <= x
                                                     /\ e[k].command.session = s
                                                     /\ e[k].command.sequence = record.last
                                                     /\ ExistedAt(e, k) = record.existed
        BY Zenon DEF RecordIsOf
      <4>1. RecordIsOf(e, n, s) /\ m.sessions[s].last > 0
        BY <1>3, <3>1, Zenon
      <4>2. PICK k \in EffectiveIn(e) : /\ k <= n
                                        /\ e[k].command.session = s
                                        /\ e[k].command.sequence = m.sessions[s].last
                                        /\ ExistedAt(e, k) = m.sessions[s].existed
        BY <4>1, Zenon DEF RecordIsOf, m
      <4>3. k <= x
        <5>1. k \in 1..Len(e)
          BY DEF EffectiveIn
        <5>. QED  BY <1>1, <2>1, <4>2, <5>1
      <4>. QED  BY <3>1, <4>2, <4>3, Zenon
    <3>2. CASE /\ IsMutation(c)
               /\ EvaluateMutation(m, c).apply
               /\ s = c.session
               /\ record.last = c.sequence
               /\ record.existed = (c.type = "Delete" /\ m.values[c.key] # NoValue)
      <4>1. x \in EffectiveIn(e)
        BY <2>1, <3>2 DEF EffectiveIn, c, m
      <4>2. ExistedAt(e, x) = record.existed
        <5>1. ExistedAt(e, x) = (c.type = "Delete" /\ m.values[c.key] # NoValue)
          BY <2>1, Zenon DEF ExistedAt, c, m
        <5>. QED  BY <3>2, <5>1, Zenon
      <4>. QED  BY <2>1, <3>2, <4>1, <4>2, Zenon DEF RecordIsOf, c
    <3>. QED  BY <2>2, <3>1, <3>2, Zenon DEF Outcome
  <2>. QED  BY <1>3, <2>3, Zenon DEF x
<1>. HIDE DEF S
<1>4. \A n \in 0..N : n \in S
  BY <1>1, <1>2, <1>3, UpTo, Zenon
<1>. QED  BY <1>4, Zenon DEF S

\* No other command of the log has the sequence of c.
OnlyOne(e, c) ==
  \A k \in 1..Len(e) :
    LET d == e[k].command
    IN IsMutation(d) /\ d.session = c.session /\ d.sequence = c.sequence => d = c

\* A mutation that its session's record answers with success is the one that took
\* effect, if no other request has its sequence.
LEMMA CachedAnswer ==
  ASSUME NEW e, HoldsRequests(e), NEW n \in 0..Len(e), NEW c \in Request, IsMutation(c),
         ~EvaluateMutation(StateAt(e, n), c).apply,
         EvaluateMutation(StateAt(e, n), c).result.failure = "Succeeded",
         OnlyOne(e, c)
  PROVE  \E k \in EffectiveIn(e) :
           /\ e[k].command = c
           /\ EvaluateMutation(StateAt(e, n), c).result.existed = ExistedAt(e, k)
<1>. DEFINE m == StateAt(e, n)
            r == m.sessions[c.session]
<1>1. c.session \in Session /\ c.sequence \in Nat /\ c.sequence >= 1
  BY RequestFields
<1>2. MachineOK(m)
  BY StatesOK, Zenon
<1>. HIDE DEF m
<1>3. c.sequence = r.last /\ EvaluateMutation(m, c).result.existed = r.existed
  BY <1>2, Evaluated DEF m
<1>4. RecordIsOf(e, n, c.session)
  BY <1>1, RecordsAreOf, Zenon
<1>5. r.last > 0
  BY <1>1, <1>3
<1>6. PICK k \in EffectiveIn(e) : /\ e[k].command.session = c.session
                                  /\ e[k].command.sequence = r.last
                                  /\ ExistedAt(e, k) = r.existed
  BY <1>4, <1>5, Zenon DEF RecordIsOf, m
<1>7. k \in 1..Len(e) /\ IsMutation(e[k].command)
  BY DEF EffectiveIn
<1>8. e[k].command = c
  BY <1>3, <1>6, <1>7, Zenon DEF OnlyOne
<1>. QED  BY <1>3, <1>6, <1>8, Zenon DEF m

\* A longer log has the states of the shorter one.
LEMMA LongerLog ==
  ASSUME NEW s, NEW t, Len(s) \in Nat, Len(t) \in Nat, Len(s) <= Len(t),
         \A k \in 1..Len(s) : t[k] = s[k]
  PROVE  /\ \A n \in 0..Len(s) : StateAt(t, n) = StateAt(s, n)
         /\ EffectiveIn(s) \subseteq EffectiveIn(t)
         /\ \A k \in 1..Len(s) : ExistedAt(t, k) = ExistedAt(s, k)
<1>1. ASSUME NEW n \in 0..Len(s)  PROVE StateAt(t, n) = StateAt(s, n)
  <2>1. n \in Nat /\ \A k \in 1..n : k \in 1..Len(s)
    OBVIOUS
  <2>. QED  BY <2>1, StatesAgree, Zenon
<1>2. \A k \in 1..Len(s) : k - 1 \in 0..Len(s) /\ k \in 1..Len(t)
  OBVIOUS
<1>3. \A k \in 1..Len(s) : StateAt(t, k - 1) = StateAt(s, k - 1)
  BY <1>1, <1>2, Zenon
<1>4. EffectiveIn(s) \subseteq EffectiveIn(t)
  <2>. SUFFICES ASSUME NEW k \in EffectiveIn(s)  PROVE k \in EffectiveIn(t)
    BY Zenon
  <2>1. /\ k \in 1..Len(s) /\ IsMutation(s[k].command)
        /\ EvaluateMutation(StateAt(s, k - 1), s[k].command).apply
    BY Zenon DEF EffectiveIn
  <2>. QED  BY <1>2, <1>3, <2>1, Zenon DEF EffectiveIn
<1>5. \A k \in 1..Len(s) : ExistedAt(t, k) = ExistedAt(s, k)
  BY <1>3, Zenon DEF ExistedAt
<1>. QED  BY <1>1, <1>4, <1>5, Zenon

-----------------------------------------------------------------------------
(* Snapshots *)

\* The stored form of a session's record.
Stored(m, s) ==
  [id |-> s, closed |-> m.sessions[s].state = "Closed", last |-> m.sessions[s].last,
   result |-> m.sessions[s].result, existed |-> m.sessions[s].existed]

Known(m) == {x \in Session : m.sessions[x].state # "Unknown"}

\* The open sessions of a Snapshot are those of the state.
LEMMA StoredAreCounted ==
  ASSUME NEW m, MachineOK(m)
  PROVE  Cardinality({r \in {Stored(m, s) : s \in Known(m)} : ~r.closed}) = m.active
<1>. DEFINE A == ActiveSessions(m)
            T == {r \in {Stored(m, s) : s \in Known(m)} : ~r.closed}
            f == [s \in A |-> Stored(m, s)]
<1>1. \A s \in Session : m.sessions[s].state \in {"Unknown", "Active", "Closed"}
  BY DEF MachineOK, Record
<1>2. \A s : Stored(m, s).id = s /\ Stored(m, s).closed = (m.sessions[s].state = "Closed")
  BY DEF Stored
<1>3. ASSUME NEW s \in A  PROVE Stored(m, s) \in T
  <2>1. s \in Known(m) /\ m.sessions[s].state # "Closed"
    BY DEF ActiveSessions, Known
  <2>. QED  BY <1>2, <2>1, Zenon
<1>4. ASSUME NEW t \in T  PROVE \E s \in A : t = Stored(m, s)
  <2>1. PICK s \in Known(m) : t = Stored(m, s)
    BY Zenon
  <2>2. ~t.closed
    BY Zenon
  <2>3. m.sessions[s].state = "Active" /\ s \in Session
    BY <1>1, <1>2, <2>1, <2>2, Zenon DEF Known
  <2>. QED  BY <2>1, <2>3 DEF ActiveSessions
<1>. HIDE DEF T, A
<1>5. f \in Bijection(A, T)
  <2>1. f \in [A -> T]
    BY <1>3, Zenon
  <2>2. \A x, y \in A : f[x] = f[y] => x = y
    <3>1. \A x \in A : f[x].id = x
      BY <1>2, Zenon
    <3>. HIDE DEF f
    <3>. QED  BY <3>1
  <2>3. \A t \in T : \E s \in A : f[s] = t
    BY <1>4, Zenon
  <2>. HIDE DEF f
  <2>. QED  BY <2>1, <2>2, <2>3, Zenon DEF Bijection, Injection, Surjection, IsInjective
<1>6. ExistsBijection(A, T)
  BY <1>5, Zenon DEF ExistsBijection
<1>7. IsFiniteSet(A) /\ m.active = Cardinality(A)
  BY DEF MachineOK, A
<1>8. Cardinality(T) = Cardinality(A)
  BY <1>6, <1>7, FS_Bijection, Zenon
<1>. QED  BY <1>7, <1>8, Zenon DEF T

\* A restored Snapshot is the state it was taken of, the counter that it does not
\* store included.
LEMMA RestoreExact ==
  ASSUME NEW m, MachineOK(m)
  PROVE  Restore(Snapshot(m)) = m
<1>. DEFINE R == {Stored(m, s) : s \in Known(m)}
            Of(s) == CHOOSE r \in R : r.id = s
            ids == {r.id : r \in R}
            Back(s) == IF s \notin ids THEN NoRecord
                       ELSE [state |-> IF Of(s).closed THEN "Closed" ELSE "Active", last |-> Of(s).last,
                             result |-> Of(s).result, existed |-> Of(s).existed]
<1>1. Snapshot(m) = [values |-> m.values, sessions |-> R]
  BY Zenon DEF Snapshot, Stored, Known
<1>2. Snapshot(m).values = m.values /\ Snapshot(m).sessions = R
  BY <1>1
<1>3. Restore(Snapshot(m)) = [active |-> Cardinality({r \in R : ~r.closed}),
                              sessions |-> [s \in Session |-> Back(s)],
                              values |-> m.values]
  BY <1>2, Zenon DEF Restore
<1>4. Cardinality({r \in R : ~r.closed}) = m.active
  BY StoredAreCounted, Zenon
<1>5. \A s : Stored(m, s).id = s
  BY DEF Stored
<1>6. \A s : s \in ids <=> s \in Known(m)
  BY <1>5, Zenon
<1>7. ASSUME NEW s \in Known(m)  PROVE Of(s) = Stored(m, s)
  BY <1>5, <1>7, Zenon
<1>. HIDE DEF R, ids, Of
<1>8. ASSUME NEW s \in Session  PROVE Back(s) = m.sessions[s]
  <2>. DEFINE r == m.sessions[s]
  <2>1. r \in Record /\ (r.state = "Unknown" => r = NoRecord)
    BY DEF MachineOK
  <2>2. CASE r.state = "Unknown"
    <3>1. s \notin ids
      BY <1>6, <2>2 DEF Known
    <3>. QED  BY <2>1, <2>2, <3>1
  <2>3. CASE r.state # "Unknown"
    <3>1. s \in Known(m)
      BY <2>3 DEF Known
    <3>2. s \in ids /\ Of(s) = Stored(m, s)
      BY <1>6, <1>7, <3>1, Zenon
    <3>3. /\ Of(s).closed = (r.state = "Closed")
          /\ Of(s).last = r.last /\ Of(s).result = r.result /\ Of(s).existed = r.existed
      BY <3>2 DEF Stored
    <3>. HIDE DEF r
    <3>4. (IF Of(s).closed THEN "Closed" ELSE "Active") = r.state
      BY <2>1, <2>3, <3>3, Zenon DEF Record
    <3>5. Back(s) = [state |-> r.state, last |-> r.last, result |-> r.result, existed |-> r.existed]
      BY <3>2, <3>3, <3>4, Zenon
    <3>6. r = [state |-> r.state, last |-> r.last, result |-> r.result, existed |-> r.existed]
      BY <2>1 DEF Record
    <3>. QED  BY <3>5, <3>6, Zenon DEF r
  <2>. QED  BY <2>2, <2>3
<1>9. m \in [active : Nat, sessions : [Session -> Record], values : [Key -> Value \cup {NoValue}]]
  BY DEF MachineOK
<1>10. m = [active |-> m.active, sessions |-> m.sessions, values |-> m.values]
  BY <1>9
<1>. HIDE DEF Back
<1>11. [s \in Session |-> Back(s)] = m.sessions
  <2>1. m.sessions = [s \in Session |-> m.sessions[s]]
    BY <1>9
  <2>. QED  BY <1>8, <2>1, Zenon
<1>. QED  BY <1>3, <1>4, <1>10, <1>11, Zenon

-----------------------------------------------------------------------------
(* Answers *)

\* The answer that applying an entry gives to the request that it is.
LEMMA AppliedAnswer ==
  ASSUME NEW e, HoldsRequests(e), NEW k \in 1..Len(e), NEW c \in Request, IsMutation(c) => OnlyOne(e, c),
         e[k].command = c
  PROVE  AnswerIsOf(e, Reply(c, Apply(StateAt(e, k - 1), e[k].command).result))
<1>. DEFINE d == e[k].command
            m == StateAt(e, k - 1)
            result == Apply(m, d).result
            r == Reply(c, result)
<1>1. r.failure = result.failure /\ r.existed = result.existed /\ r.command = c
  BY DEF Reply
<1>2. MachineOK(m) /\ Outcome(m, d, StateAt(e, k), result)
  BY EntryOutcome, Zenon
<1>. HIDE DEF r, m
<1>. SUFFICES ASSUME result.failure = "Succeeded"
              PROVE  IF IsMutation(c)
                       THEN \E x \in EffectiveIn(e) :
                              e[x].command = c /\ result.existed = ExistedAt(e, x)
                       ELSE (\E x \in 1..Len(e) : e[x].command = c) /\ result.existed = FALSE
  <2>1. ASSUME r.failure = "Succeeded"
        PROVE  IF IsMutation(c)
                 THEN \E x \in EffectiveIn(e) :
                        e[x].command = r.command /\ r.existed = ExistedAt(e, x)
                 ELSE (\E x \in 1..Len(e) : e[x].command = r.command) /\ r.existed = FALSE
    BY <1>1, <2>1, Zenon
  <2>. QED  BY <1>1, <2>1, Zenon DEF AnswerIsOf, r, m
<1>3. CASE ~IsMutation(c)
  BY <1>2, <1>3, Zenon DEF Outcome
<1>4. CASE IsMutation(c) /\ EvaluateMutation(m, c).apply
  <2>1. k \in EffectiveIn(e)
    BY <1>4, Zenon DEF EffectiveIn, m
  <2>2. result.existed = ExistedAt(e, k)
    BY <2>1, EffectiveIsNext, Zenon DEF m
  <2>. QED  BY <1>4, <2>1, <2>2, Zenon
<1>5. CASE IsMutation(c) /\ ~EvaluateMutation(m, c).apply
  <2>1. Apply(m, c) = [machine |-> m, result |-> EvaluateMutation(m, c).result]
    <3>1. c.type \in {"Set", "Delete"}
      BY <1>5 DEF IsMutation
    <3>2. Apply(m, c) = ApplyMutation(m, c)
      BY <3>1 DEF Apply, IsMutation
    <3>. QED  BY <1>5, <3>2 DEF ApplyMutation
  <2>2. result = EvaluateMutation(m, c).result
    BY <2>1
  <2>3. k - 1 \in 0..Len(e)
    BY DEF HoldsRequests
  <2>4. \E x \in EffectiveIn(e) :
          e[x].command = c /\ EvaluateMutation(m, c).result.existed = ExistedAt(e, x)
    <3>1. EvaluateMutation(m, c).result.failure = "Succeeded" /\ OnlyOne(e, c)
      BY <1>5, <2>2, Zenon
    <3>. QED  BY <1>5, <2>3, <3>1, CachedAnswer, Zenon DEF m
  <2>. QED  BY <1>5, <2>2, <2>4, Zenon
<1>. QED  BY <1>3, <1>4, <1>5, Zenon

\* An answer keeps its entry when the log grows.
LEMMA AnswerStays ==
  ASSUME NEW s, NEW t, Len(s) \in Nat, Len(t) \in Nat, Len(s) <= Len(t),
         \A k \in 1..Len(s) : t[k] = s[k], NEW r, AnswerIsOf(s, r)
  PROVE  AnswerIsOf(t, r)
<1>1. /\ EffectiveIn(s) \subseteq EffectiveIn(t)
      /\ \A k \in 1..Len(s) : ExistedAt(t, k) = ExistedAt(s, k)
  BY LongerLog, Zenon
<1>2. \A k \in EffectiveIn(s) : k \in 1..Len(s)
  BY Zenon DEF EffectiveIn
<1>3. \A k \in 1..Len(s) : k \in 1..Len(t)
  OBVIOUS
<1>. QED  BY <1>1, <1>2, <1>3, Zenon DEF AnswerIsOf

-----------------------------------------------------------------------------
(* What the invariant says of the logs *)

\* Every log holds requests and no-ops.
LEMMA LogsHoldRequests ==
  ASSUME requests \subseteq Request, NEW e \in Seq(Entry)
  PROVE  /\ HoldsRequests(e)
         /\ SequencesAreUnique => \A c \in requests : IsMutation(c) => OnlyOne(e, c)
<1>1. Len(e) \in Nat /\ \A k \in 1..Len(e) : e[k] \in Entry
  OBVIOUS
<1>2. \A k \in 1..Len(e) : e[k].command \in requests \cup {NoOp}
  BY <1>1 DEF Entry
<1>3. HoldsRequests(e)
  BY <1>1, <1>2, Zenon DEF HoldsRequests
<1>4. ASSUME SequencesAreUnique, NEW c \in requests, IsMutation(c), NEW k \in 1..Len(e),
             IsMutation(e[k].command), e[k].command.session = c.session,
             e[k].command.sequence = c.sequence
      PROVE  e[k].command = c
  <2>1. e[k].command \in requests
    BY <1>2, <1>4 DEF IsMutation, NoOp
  <2>. QED  BY <1>4, <2>1, Zenon DEF SequencesAreUnique
<1>. QED  BY <1>3, <1>4, Zenon DEF OnlyOne

-----------------------------------------------------------------------------
(* Applying committed entries *)

\* The answers that applying through n sends, and the state that it leaves, are those
\* of the log e that is committed then: it begins with the one committed before, and the
\* entries are its own up to n.
LEMMA ApplyThroughIs ==
  ASSUME SessionsInv, NEW i \in Node, NEW entries, NEW e \in Seq(Entry), NEW n \in 0..Len(e),
         applied[i] <= n, Len(chosen) <= Len(e), \A k \in 1..Len(chosen) : e[k] = chosen[k],
         \A k \in 1..n : entries[k] = e[k],
         \A p \in pending[i] : entries[p.index].command = p.command
  PROVE  /\ ApplyAll(machine[i], Commands(entries, applied[i] + 1, n)) = StateAt(e, n)
         /\ \A r \in Answers(i, entries, n) : r \in Answer /\ AnswerIsOf(e, r)
<1>. DEFINE a == applied[i]
<1>1. /\ requests \subseteq Request
      /\ chosen \in Seq(Entry)
      /\ a \in 0..Len(chosen)
      /\ machine[i] = StateAt(chosen, a)
  BY Zenon DEF SessionsInv, LogType, StatesAreChosen
<1>. HIDE DEF a
<1>2. Len(chosen) \in Nat /\ Len(e) \in Nat
  BY <1>1
<1>3. a \in Nat /\ n \in Nat /\ a <= n
  BY <1>1, <1>2 DEF a
<1>4. machine[i] = StateAt(entries, a)
  <2>1. \A k \in 1..a : chosen[k] = e[k] /\ e[k] = entries[k]
    BY <1>1, <1>2, <1>3
  <2>2. \A k \in 1..a : chosen[k] = entries[k]
    BY <2>1, Zenon
  <2>. QED  BY <1>1, <1>3, <2>2, StatesAgree, Zenon
<1>5. ASSUME NEW k \in Nat, a <= k, k <= n
      PROVE  ApplyAll(machine[i], Commands(entries, a + 1, k)) = StateAt(e, k)
  <2>1. ApplyAll(StateAt(entries, a), Commands(entries, a + 1, k)) = StateAt(entries, k)
    BY <1>3, <1>5, StateContinues, Zenon
  <2>2. \A x \in 1..k : entries[x] = e[x]
    BY <1>3, <1>5
  <2>3. StateAt(entries, k) = StateAt(e, k)
    BY <1>5, <2>2, StatesAgree, Zenon
  <2>. QED  BY <1>4, <2>1, <2>3, Zenon
<1>6. ASSUME NEW r \in Answers(i, entries, n)  PROVE r \in Answer /\ AnswerIsOf(e, r)
  <2>. DEFINE Before(p) == ApplyAll(machine[i], Commands(entries, a + 1, p.index - 1))
  <2>1. PICK p \in pending[i] :
          /\ p.index > a /\ p.index <= n
          /\ r = Reply(p.command, Apply(Before(p), entries[p.index].command).result)
    BY Zenon DEF Answers, a
  <2>. DEFINE k == p.index
              c == p.command
              result == Apply(StateAt(e, k - 1), e[k].command).result
  <2>2. k \in Nat /\ c \in requests
    <3>1. p \in [index : Nat \ {0}, command : requests]
      BY DEF SessionsInv, LoopType
    <3>. QED  BY <3>1
  <2>. HIDE DEF k, c
  <2>3. k > a /\ k <= n
    BY <2>1, Zenon DEF k
  <2>4. k \in 1..Len(e) /\ k \in 1..n /\ k - 1 \in Nat /\ a <= k - 1 /\ k - 1 <= n
    BY <1>2, <1>3, <2>2, <2>3
  <2>5. Before(p) = StateAt(e, k - 1)
    BY <1>5, <2>4, Zenon DEF k
  <2>6. entries[k] = e[k]
    BY <2>4, Zenon
  <2>7. r = Reply(c, result) /\ e[k].command = c
    BY <2>1, <2>5, <2>6, Zenon DEF k, c
  <2>8. HoldsRequests(e) /\ (IsMutation(c) => OnlyOne(e, c)) /\ c \in Request
    BY <1>1, <2>2, LogsHoldRequests DEF SessionsInv
  <2>9. AnswerIsOf(e, r)
    BY <2>4, <2>7, <2>8, AppliedAnswer, Zenon
  <2>10. result \in ResultType
    BY <2>4, <2>8, EntryOutcome, Zenon DEF Outcome
  <2>11. c \in Command
    BY <2>8, RequestFields
  <2>. HIDE DEF result
  <2>12. r \in Answer
    BY <2>7, <2>8, <2>10, <2>11 DEF Answer, Reply, ResultType
  <2>. QED  BY <2>9, <2>12
<1>7. n <= n
  BY <1>3
<1>8. ApplyAll(machine[i], Commands(entries, a + 1, n)) = StateAt(e, n)
  BY <1>3, <1>5, <1>7, Zenon
<1>. QED  BY <1>6, <1>8, Zenon DEF a

\* A step that applies entries keeps the states and the answers those of the
\* committed log.
LEMMA ApplyThroughOK ==
  ASSUME SessionsInv, NEW i \in Node, NEW entries, chosen' \in Seq(Entry), NEW n \in 0..Len(chosen'),
         applied[i] <= n, Len(chosen) <= Len(chosen'),
         \A k \in 1..Len(chosen) : chosen'[k] = chosen[k],
         \A k \in 1..n : entries[k] = chosen'[k],
         \A p \in pending[i] : entries[p.index].command = p.command,
         ApplyThrough(i, entries, n), saved' = saved
  PROVE  /\ replies' \subseteq Answer
         /\ StatesAreChosen'
         /\ \A r \in replies' : AnswerIsOf(chosen', r)
<1>. DEFINE e == chosen'
<1>1. /\ ApplyAll(machine[i], Commands(entries, applied[i] + 1, n)) = StateAt(e, n)
      /\ \A r \in Answers(i, entries, n) : r \in Answer /\ AnswerIsOf(e, r)
  BY ApplyThroughIs, Zenon
<1>2. Len(chosen) \in Nat /\ Len(e) \in Nat
  BY DEF SessionsInv, LogType
<1>3. /\ \A r \in replies : r \in Answer /\ AnswerIsOf(chosen, r)
      /\ replies' = replies \cup Answers(i, entries, n)
  BY Zenon DEF SessionsInv, ApplyThrough
<1>4. \A r \in replies : AnswerIsOf(e, r)
  BY <1>2, <1>3, AnswerStays, Zenon
<1>5. \A x \in 0..Len(chosen) : StateAt(e, x) = StateAt(chosen, x) /\ x \in 0..Len(e)
  <2>1. \A x \in 0..Len(chosen) : StateAt(e, x) = StateAt(chosen, x)
    BY <1>2, LongerLog, Zenon
  <2>. QED  BY <1>2, <2>1
<1>6. /\ applied \in [Node -> 0..Len(chosen)]
      /\ machine = [u \in Node |-> StateAt(chosen, applied[u])]
      /\ saved \in [Node -> [index : Nat, state : {Snapshot(StateAt(chosen, x)) : x \in 0..Len(chosen)}]]
      /\ \A u \in Node : /\ saved[u].index <= applied[u]
                         /\ saved[u].state = Snapshot(StateAt(chosen, saved[u].index))
  BY Zenon DEF SessionsInv, StatesAreChosen
<1>7. /\ applied' = [applied EXCEPT ![i] = n]
      /\ machine' = [machine EXCEPT ![i] = StateAt(e, n)]
  BY <1>1, Zenon DEF ApplyThrough
<1>. HIDE DEF e
<1>8. applied' \in [Node -> 0..Len(e)]
  <2>1. n \in 0..Len(e)
    BY DEF e
  <2>. QED  BY <1>5, <1>6, <1>7, <2>1, Zenon
<1>9. machine' = [u \in Node |-> StateAt(e, applied'[u])]
  <2>1. \A u \in Node : applied'[u] = IF u = i THEN n ELSE applied[u]
    BY <1>6, <1>7, Zenon
  <2>2. \A u \in Node : StateAt(chosen, applied[u]) = StateAt(e, applied[u])
    BY <1>5, <1>6, Zenon
  <2>3. machine' = [u \in Node |-> IF u = i THEN StateAt(e, n) ELSE StateAt(chosen, applied[u])]
    BY <1>6, <1>7, Zenon
  <2>. QED  BY <2>1, <2>2, <2>3, Zenon
<1>10. saved' \in [Node -> [index : Nat, state : {Snapshot(StateAt(e, x)) : x \in 0..Len(e)}]]
  <2>1. {Snapshot(StateAt(chosen, x)) : x \in 0..Len(chosen)} \subseteq {Snapshot(StateAt(e, x)) : x \in 0..Len(e)}
    BY <1>5, Zenon
  <2>. DEFINE A == {Snapshot(StateAt(chosen, x)) : x \in 0..Len(chosen)}
              B == {Snapshot(StateAt(e, x)) : x \in 0..Len(e)}
  <2>2. saved' \in [Node -> [index : Nat, state : A]] /\ A \subseteq B
    BY <1>6, <2>1, Zenon
  <2>. HIDE DEF A, B
  <2>3. saved' \in [Node -> [index : Nat, state : B]]
    BY <2>2
  <2>. QED  BY <2>3, Zenon DEF B
<1>11. ASSUME NEW u \in Node
       PROVE  /\ saved'[u].index <= applied'[u]
              /\ saved'[u].state = Snapshot(StateAt(e, saved'[u].index))
  <2>. DEFINE x == saved[u].index
  <2>1. /\ x \in Nat /\ x <= applied[u] /\ applied[u] \in 0..Len(chosen)
        /\ saved[u].state = Snapshot(StateAt(chosen, x))
    <3>1. saved[u] \in [index : Nat, state : {Snapshot(StateAt(chosen, y)) : y \in 0..Len(chosen)}]
      BY <1>6, Zenon
    <3>2. x \in Nat
      BY <3>1
    <3>. QED  BY <1>6, <3>2, Zenon
  <2>2. applied'[u] = IF u = i THEN n ELSE applied[u]
    BY <1>6, <1>7, Zenon
  <2>. HIDE DEF x
  <2>3. n \in Nat
    BY <1>2 DEF e
  <2>4. x <= applied'[u] /\ x \in 0..Len(chosen)
    BY <1>2, <2>1, <2>2, <2>3
  <2>. QED  BY <1>5, <2>1, <2>4, Zenon DEF x
<1>12. StatesAreChosen'
  BY <1>8, <1>9, <1>10, <1>11, Zenon DEF StatesAreChosen, e
<1>. QED  BY <1>1, <1>3, <1>4, <1>12, Zenon DEF e

-----------------------------------------------------------------------------
(* Each step keeps the invariant *)

\* What steps that leave the committed log, the states and the answers alone keep.
LEMMA StillStates ==
  ASSUME SessionsInv, UNCHANGED <<chosen, applied, machine, saved>>
  PROVE  StatesAreChosen'
BY ZenonT(40) DEF SessionsInv, StatesAreChosen

\* The same of the answers.
LEMMA StillAnswers ==
  ASSUME SessionsInv, UNCHANGED <<chosen, replies>>
  PROVE  replies' \subseteq Answer /\ \A r \in replies' : AnswerIsOf(chosen', r)
BY Zenon DEF SessionsInv

\* The same of the requests, and of what a log may hold.
LEMMA StillRequests ==
  ASSUME SessionsInv, requests' = requests
  PROVE  /\ requests' \subseteq Request
         /\ SequencesAreUnique'
         /\ Entry' = Entry
BY Zenon DEF SessionsInv, SequencesAreUnique, Entry

\* With nobody waiting there is nothing to hold.
LEMMA HoldsNobody == \A e : HoldsWaiters(e, {}, {})
BY Zenon DEF HoldsWaiters

\* Fewer waiters are held by the same log.
LEMMA HoldsFewer ==
  ASSUME NEW e, NEW P, NEW F, HoldsWaiters(e, P, F), NEW Q, NEW G, Q \subseteq P, G \subseteq F
  PROVE  HoldsWaiters(e, Q, G)
BY Zenon DEF HoldsWaiters

\* A longer log holds them at the same indexes.
LEMMA HoldsLonger ==
  ASSUME NEW e, NEW t, Len(e) \in Nat, Len(t) \in Nat, Len(e) <= Len(t),
         \A k \in 1..Len(e) : t[k] = e[k],
         NEW P, NEW F, HoldsWaiters(e, P, F), \A p \in P \cup F : p.index \in Nat \ {0}
  PROVE  HoldsWaiters(t, P, F)
<1>1. ASSUME NEW p \in P \cup F  PROVE p.index <= Len(t) /\ t[p.index] = e[p.index]
  <2>1. p.index \in Nat \ {0} /\ p.index <= Len(e)
    BY <1>1, Zenon DEF HoldsWaiters
  <2>2. \A x \in Nat \ {0} : x <= Len(e) => x \in 1..Len(e) /\ x <= Len(t)
    OBVIOUS
  <2>3. p.index \in 1..Len(e) /\ p.index <= Len(t)
    BY <2>1, <2>2, Zenon
  <2>. QED  BY <2>3, Zenon
<1>. QED  BY <1>1, Zenon DEF HoldsWaiters

\* Nothing is committed, applied, saved or answered at the start.
LEMMA InitInv ==
  ASSUME Init
  PROVE  SessionsInv
<1>1. requests = {} /\ replies = {}
  BY Zenon DEF Init
<1>2. LoopType
  BY DEF Init, LoopType
<1>3. LogType
  BY DEF Init, LogType
<1>4. WaitersFit
  <2>1. pending = [i \in Node |-> {}] /\ inFlightMutations = [i \in Node |-> {}]
    BY Zenon DEF Init
  <2>. QED  BY <2>1, HoldsNobody, Zenon DEF WaitersFit
<1>5. SequencesAreUnique
  BY <1>1, Zenon DEF SequencesAreUnique
<1>6. LeaderHoldsChosen
  BY Zenon DEF Init, LeaderHoldsChosen
<1>7. StatesAreChosen
  <2>1. Len(chosen) = 0 /\ 0 \in 0..Len(chosen) /\ 0 \in Nat /\ 0 <= 0
    BY DEF Init
  <2>2. NewMachine = StateAt(chosen, 0)
    BY StateBegins, Zenon
  <2>. DEFINE A == {Snapshot(StateAt(chosen, n)) : n \in 0..Len(chosen)}
  <2>3. NoSnapshot.index = 0 /\ NoSnapshot.state = Snapshot(StateAt(chosen, 0))
    BY <2>2 DEF NoSnapshot
  <2>4. Snapshot(StateAt(chosen, 0)) \in A
    BY <2>1, Zenon
  <2>5. NoSnapshot \in [index : Nat, state : A]
    <3>. HIDE DEF A
    <3>. QED  BY <2>2, <2>4 DEF NoSnapshot
  <2>6. /\ applied = [i \in Node |-> 0]
        /\ machine = [i \in Node |-> NewMachine]
        /\ saved = [i \in Node |-> NoSnapshot]
    BY Zenon DEF Init
  <2>7. saved \in [Node -> [index : Nat, state : A]]
    BY <2>5, <2>6, Zenon
  <2>8. \A i \in Node : /\ saved[i].index <= applied[i]
                        /\ saved[i].state = Snapshot(StateAt(chosen, saved[i].index))
    BY <2>1, <2>3, <2>6, Zenon
  <2>9. applied \in [Node -> 0..Len(chosen)] /\ machine = [i \in Node |-> StateAt(chosen, applied[i])]
    BY <2>1, <2>2, <2>6, Zenon
  <2>. QED  BY <2>7, <2>8, <2>9, Zenon DEF StatesAreChosen
<1>. QED  BY <1>1, <1>2, <1>3, <1>4, <1>5, <1>6, <1>7, Zenon DEF SessionsInv

\* A Client submits: a sequence that it has used is used for the same mutation.
LEMMA SubmitInv ==
  ASSUME SessionsInv, NEW i \in Node, NEW c \in Request, Submit(i, c)
  PROVE  SessionsInv'
<1>1. /\ inbox' = [inbox EXCEPT ![i] = inbox[i] \cup {c}]
      /\ requests' = requests \cup {c}
      /\ UNCHANGED <<term, current, log, chosen, leads, applied, machine, saved, pending,
                     inFlightMutations, replies>>
  BY Zenon DEF Submit, raftVars, machineVars
<1>2. requests' \subseteq Request
  BY <1>1, Zenon DEF SessionsInv
<1>3. Entry \subseteq Entry'
  BY <1>1 DEF Entry
<1>4. Seq(Entry) \subseteq Seq(Entry')
  BY <1>3
<1>5. LogType'
  BY <1>1, <1>4, Zenon DEF SessionsInv, LogType
<1>6. LoopType'
  <2>1. inbox \in [Node -> SUBSET requests] /\ requests \subseteq requests' /\ c \in requests'
    BY <1>1 DEF SessionsInv, LoopType
  <2>2. inbox' \in [Node -> SUBSET requests']
    BY <1>1, <2>1
  <2>3. pending' \in [Node -> SUBSET [index : Nat \ {0}, command : requests']]
    BY <1>1, <2>1 DEF SessionsInv, LoopType
  <2>. QED  BY <1>1, <2>2, <2>3, Zenon DEF SessionsInv, LoopType
<1>7. WaitersFit'
  BY <1>1, Zenon DEF SessionsInv, WaitersFit
<1>8. SequencesAreUnique'
  <2>1. ASSUME NEW d \in requests, IsMutation(c), IsMutation(d), d.session = c.session,
               d.sequence = c.sequence
        PROVE  d = c
    <3>1. ClientMaySend(c) /\ c.type \in {"Set", "Delete"}
      BY <2>1 DEF Submit, IsMutation
    <3>2. \A x \in requests : IsMutation(x) /\ x.session = c.session /\ x.sequence = c.sequence => x = c
      BY <2>1, <3>1 DEF ClientMaySend
    <3>. QED  BY <2>1, <3>2, Zenon
  <2>2. \A x, y \in requests :
          IsMutation(x) /\ IsMutation(y) /\ x.session = y.session /\ x.sequence = y.sequence => x = y
    BY Zenon DEF SessionsInv, SequencesAreUnique
  <2>. QED  BY <1>1, <2>1, <2>2, Zenon DEF SequencesAreUnique
<1>9. LeaderHoldsChosen'
  BY <1>1, Zenon DEF SessionsInv, LeaderHoldsChosen
<1>. QED  BY <1>1, <1>2, <1>5, <1>6, <1>7, <1>8, <1>9, StillStates, StillAnswers, Zenon DEF SessionsInv

\* A Node that stops leading has nobody waiting.
LEMMA LoseLeadershipOK ==
  ASSUME SessionsInv, NEW i \in Node, LoseLeadership(i), requests' = requests,
         inbox' \in [Node -> SUBSET requests],
         \A j \in Node \ {i} : log'[j] = log[j]
  PROVE  LoopType' /\ WaitersFit'
<1>1. /\ leads \in [Node -> BOOLEAN]
      /\ pending \in [Node -> SUBSET [index : Nat \ {0}, command : requests]]
      /\ inFlightMutations \in [Node -> SUBSET [session : Session, sequence : Nat, index : Nat \ {0}]]
  BY Zenon DEF SessionsInv, LoopType
<1>2. /\ leads' = [leads EXCEPT ![i] = FALSE]
      /\ pending' = [pending EXCEPT ![i] = {}]
      /\ inFlightMutations' = [inFlightMutations EXCEPT ![i] = {}]
  BY Zenon DEF LoseLeadership
<1>3. LoopType'
  <2>1. leads' \in [Node -> BOOLEAN]
    BY <1>1, <1>2
  <2>2. pending' \in [Node -> SUBSET [index : Nat \ {0}, command : requests]]
    BY <1>1, <1>2
  <2>3. inFlightMutations' \in [Node -> SUBSET [session : Session, sequence : Nat, index : Nat \ {0}]]
    BY <1>1, <1>2
  <2>. QED  BY <2>1, <2>2, <2>3, Zenon DEF LoopType
<1>4. ASSUME NEW j \in Node
      PROVE  /\ HoldsWaiters(log'[j], pending'[j], inFlightMutations'[j])
             /\ ~leads'[j] => pending'[j] = {} /\ inFlightMutations'[j] = {}
  <2>1. CASE j = i
    <3>1. pending'[j] = {} /\ inFlightMutations'[j] = {}
      BY <1>1, <1>2, <2>1, Zenon
    <3>. QED  BY <3>1, HoldsNobody, Zenon
  <2>2. CASE j # i
    <3>1. /\ pending'[j] = pending[j] /\ inFlightMutations'[j] = inFlightMutations[j]
          /\ leads'[j] = leads[j] /\ log'[j] = log[j]
      BY <1>1, <1>2, <2>2, Zenon
    <3>. QED  BY <3>1, Zenon DEF SessionsInv, WaitersFit
  <2>. QED  BY <2>1, <2>2, Zenon
<1>. QED  BY <1>3, <1>4, Zenon DEF WaitersFit

\* The log of a Node that is not the newest Leader becomes another one.
LEMMA OtherLog ==
  ASSUME SessionsInv, NEW i \in Node, i # current, NEW e \in Seq(Entry), log' = [log EXCEPT ![i] = e],
         UNCHANGED <<requests, term, current, chosen>>
  PROVE  LogType' /\ LeaderHoldsChosen' /\ \A j \in Node \ {i} : log'[j] = log[j]
<1>1. log \in [Node -> Seq(Entry)] /\ current \in Node \cup {NoNode}
  BY Zenon DEF SessionsInv, LogType
<1>2. Entry' = Entry
  BY Zenon DEF Entry
<1>3. \A j \in Node \ {i} : log'[j] = log[j]
  BY <1>1, Zenon
<1>4. log' \in [Node -> Seq(Entry)]
  BY <1>1, Zenon
<1>5. LogType'
  BY <1>2, <1>4, Zenon DEF SessionsInv, LogType
<1>6. LeaderHoldsChosen'
  <2>1. ASSUME current # NoNode  PROVE log'[current] = log[current]
    BY <1>1, <1>3, <2>1, Zenon
  <2>. QED  BY <2>1, Zenon DEF SessionsInv, LeaderHoldsChosen
<1>. QED  BY <1>3, <1>5, <1>6, Zenon

\* The parts of the invariant put together, for a step that keeps the requests.
LEMMA InvOf ==
  ASSUME SessionsInv, requests' = requests, replies' \subseteq Answer, LoopType', LogType', WaitersFit',
         LeaderHoldsChosen', StatesAreChosen', \A r \in replies' : AnswerIsOf(chosen', r)
  PROVE  SessionsInv'
BY StillRequests, Zenon DEF SessionsInv

\* A leadership ends, with everything else as it was.
LEMMA LeadershipEnds ==
  ASSUME SessionsInv, NEW i \in Node, LoseLeadership(i),
         UNCHANGED <<term, current, log, chosen, applied, machine, saved, inbox, requests, replies>>
  PROVE  SessionsInv'
<1>1. inbox' \in [Node -> SUBSET requests]
  BY Zenon DEF SessionsInv, LoopType
<1>2. LoopType' /\ WaitersFit'
  BY <1>1, LoseLeadershipOK, Zenon
<1>3. LogType' /\ LeaderHoldsChosen'
  BY StillRequests, Zenon DEF SessionsInv, LogType, LeaderHoldsChosen
<1>. QED  BY <1>2, <1>3, StillStates, StillAnswers, InvOf, Zenon

\* Whoever was answered waits no longer; the others wait as before.
LEMMA WaitersLeave ==
  ASSUME SessionsInv, NEW i \in Node, NEW entries, NEW n, ApplyThrough(i, entries, n),
         UNCHANGED <<leads, inbox, requests>>, log'[i] = log[i] \/ pending[i] \cup inFlightMutations[i] = {},
         \A j \in Node \ {i} : log'[j] = log[j]
  PROVE  LoopType' /\ WaitersFit'
<1>1. /\ leads \in [Node -> BOOLEAN] /\ inbox \in [Node -> SUBSET requests]
      /\ pending \in [Node -> SUBSET [index : Nat \ {0}, command : requests]]
      /\ inFlightMutations \in [Node -> SUBSET [session : Session, sequence : Nat, index : Nat \ {0}]]
  BY Zenon DEF SessionsInv, LoopType
<1>2. PICK P, F : /\ P \subseteq pending[i] /\ F \subseteq inFlightMutations[i]
                  /\ pending' = [pending EXCEPT ![i] = P]
                  /\ inFlightMutations' = [inFlightMutations EXCEPT ![i] = F]
  <2>. DEFINE P == {p \in pending[i] : p.index > n}
              F == {m \in inFlightMutations[i] :
                      \A k \in (applied[i] + 1)..n :
                        ~ /\ IsMutation(entries[k].command)
                          /\ entries[k].command.session = m.session
                          /\ entries[k].command.sequence = m.sequence}
  <2>1. /\ pending' = [pending EXCEPT ![i] = P]
        /\ inFlightMutations' = [inFlightMutations EXCEPT ![i] = F]
    BY Zenon DEF ApplyThrough
  <2>2. P \subseteq pending[i] /\ F \subseteq inFlightMutations[i]
    BY Zenon
  <2>. HIDE DEF P, F
  <2>. QED  BY <2>1, <2>2, Zenon
<1>3. /\ pending'[i] = P /\ inFlightMutations'[i] = F
      /\ \A j \in Node \ {i} : pending'[j] = pending[j] /\ inFlightMutations'[j] = inFlightMutations[j]
  BY <1>1, <1>2, Zenon
<1>4. LoopType'
  <2>1. pending' \in [Node -> SUBSET [index : Nat \ {0}, command : requests]]
    BY <1>1, <1>2, Zenon
  <2>2. inFlightMutations' \in [Node -> SUBSET [session : Session, sequence : Nat, index : Nat \ {0}]]
    BY <1>1, <1>2, Zenon
  <2>. QED  BY <1>1, <2>1, <2>2, Zenon DEF LoopType
<1>5. ASSUME NEW j \in Node
      PROVE  /\ HoldsWaiters(log'[j], pending'[j], inFlightMutations'[j])
             /\ ~leads'[j] => pending'[j] = {} /\ inFlightMutations'[j] = {}
  <2>1. /\ HoldsWaiters(log[j], pending[j], inFlightMutations[j])
        /\ ~leads[j] => pending[j] = {} /\ inFlightMutations[j] = {}
    BY Zenon DEF SessionsInv, WaitersFit
  <2>2. CASE j # i
    BY <1>3, <2>1, <2>2, Zenon
  <2>3. CASE j = i /\ log'[i] = log[i]
    <3>1. HoldsWaiters(log[i], P, F)
      BY <1>2, <2>1, <2>3, HoldsFewer, Zenon
    <3>. QED  BY <1>2, <1>3, <2>1, <2>3, <3>1, Zenon
  <2>4. CASE j = i /\ pending[i] \cup inFlightMutations[i] = {}
    <3>1. P = {} /\ F = {}
      BY <1>2, <2>4, Zenon
    <3>. QED  BY <1>3, <2>4, <3>1, HoldsNobody, Zenon
  <2>. QED  BY <2>2, <2>3, <2>4, Zenon
<1>. QED  BY <1>4, <1>5, Zenon DEF WaitersFit

\* The newest Leader commits: its log begins with what is committed already.
LEMMA CommitInv ==
  ASSUME SessionsInv, NEW i \in Node, Commit(i)
  PROVE  SessionsInv'
<1>1. PICK n \in (Len(chosen) + 1)..Len(log[i]) :
        /\ chosen' = SubSeq(log[i], 1, n)
        /\ ApplyThrough(i, log[i], n)
  BY Zenon DEF Commit
<1>2. i = current /\ leads[i]
      /\ UNCHANGED <<term, current, log, leads, saved, inbox, requests>>
  BY Zenon DEF Commit
<1>3. /\ log \in [Node -> Seq(Entry)] /\ chosen \in Seq(Entry) /\ applied[i] \in 0..Len(chosen)
      /\ log[i] \in Seq(Entry)
  BY Zenon DEF SessionsInv, LogType, StatesAreChosen
<1>4. i # NoNode
  BY NodesAssumption, Zenon
<1>5. Len(chosen) <= Len(log[i]) /\ \A k \in 1..Len(chosen) : log[i][k] = chosen[k]
  BY <1>2, <1>4, Zenon DEF SessionsInv, LeaderHoldsChosen
<1>6. /\ Len(chosen) \in Nat /\ Len(log[i]) \in Nat /\ n \in Nat /\ Len(chosen) <= n /\ n <= Len(log[i])
      /\ applied[i] <= n
  BY <1>3
<1>7. /\ chosen' \in Seq(Entry) /\ Len(chosen') = n
      /\ \A k \in 1..n : log[i][k] = chosen'[k]
  BY <1>1, <1>3, <1>6
<1>8. n \in 0..Len(chosen') /\ \A k \in 1..Len(chosen) : chosen'[k] = chosen[k]
  BY <1>5, <1>6, <1>7
<1>9. /\ replies' \subseteq Answer
      /\ StatesAreChosen'
      /\ \A r \in replies' : AnswerIsOf(chosen', r)
  <2>1. saved' = saved /\ Len(chosen) <= Len(chosen')
    BY <1>2, <1>6, <1>7, Zenon
  <2>2. \A p \in pending[i] : log[i][p.index].command = p.command
    BY Zenon DEF SessionsInv, WaitersFit, HoldsWaiters
  <2>. QED  BY <1>1, <1>6, <1>7, <1>8, <2>1, <2>2, ApplyThroughOK, Zenon
<1>10. LogType'
  BY <1>2, <1>7, StillRequests, Zenon DEF SessionsInv, LogType
<1>11. LeaderHoldsChosen'
  BY <1>2, <1>6, <1>7, Zenon DEF LeaderHoldsChosen
<1>12. LoopType' /\ WaitersFit'
  BY <1>1, <1>2, WaitersLeave, Zenon
<1>. QED  BY <1>2, <1>9, <1>10, <1>11, <1>12, InvOf, Zenon

\* The newest Leader reaches one of an older term.
LEMMA DeposeInv ==
  ASSUME SessionsInv, NEW i \in Node, Depose(i)
  PROVE  SessionsInv'
<1>1. /\ LoseLeadership(i)
      /\ UNCHANGED <<term, current, log, chosen, applied, machine, saved, inbox, requests, replies>>
  BY Zenon DEF Depose, raftVars, machineVars
<1>. QED  BY <1>1, LeadershipEnds, Zenon

\* A Follower learns of committed entries: nobody waits there.
LEMMA LearnInv ==
  ASSUME SessionsInv, NEW i \in Node, Learn(i)
  PROVE  SessionsInv'
<1>1. PICK n \in (applied[i] + 1)..Len(chosen) :
        /\ log' = [log EXCEPT ![i] = SubSeq(chosen, 1, n)]
        /\ ApplyThrough(i, chosen, n)
  BY Zenon DEF Learn
<1>2. i # current /\ ~leads[i] /\ UNCHANGED <<term, current, leads, chosen, saved, inbox, requests>>
  BY Zenon DEF Learn
<1>3. chosen \in Seq(Entry) /\ applied[i] \in 0..Len(chosen)
  BY Zenon DEF SessionsInv, LogType, StatesAreChosen
<1>4. Len(chosen) \in Nat /\ n \in 0..Len(chosen) /\ applied[i] <= n /\ Len(chosen) <= Len(chosen)
  BY <1>3
<1>5. SubSeq(chosen, 1, n) \in Seq(Entry)
  BY <1>3, <1>4
<1>6. /\ replies' \subseteq Answer
      /\ StatesAreChosen'
      /\ \A r \in replies' : AnswerIsOf(chosen', r)
  <2>1. chosen' = chosen /\ saved' = saved
    BY <1>2, Zenon
  <2>2. /\ chosen' \in Seq(Entry) /\ n \in 0..Len(chosen') /\ Len(chosen) <= Len(chosen')
        /\ \A k \in 1..Len(chosen) : chosen'[k] = chosen[k]
        /\ \A k \in 1..n : chosen[k] = chosen'[k]
    BY <1>3, <1>4, <2>1, Zenon
  <2>3. \A p \in pending[i] : chosen[p.index].command = p.command
    BY <1>2, Zenon DEF SessionsInv, WaitersFit
  <2>. QED  BY <1>1, <1>4, <2>1, <2>2, <2>3, ApplyThroughOK, Zenon
<1>7. LogType' /\ LeaderHoldsChosen' /\ \A j \in Node \ {i} : log'[j] = log[j]
  BY <1>1, <1>2, <1>5, OtherLog, Zenon
<1>8. pending[i] \cup inFlightMutations[i] = {}
  BY <1>2, Zenon DEF SessionsInv, WaitersFit
<1>9. LoopType' /\ WaitersFit'
  BY <1>1, <1>2, <1>7, <1>8, WaitersLeave, Zenon
<1>. QED  BY <1>2, <1>6, <1>7, <1>9, InvOf, Zenon

\* A new Leader's log holds everything committed, and its no-op.
LEMMA ElectInv ==
  ASSUME SessionsInv, NEW i \in Node, Elect(i)
  PROVE  SessionsInv'
<1>1. /\ term' = term + 1 /\ current' = i /\ ~leads[i]
      /\ leads' = [leads EXCEPT ![i] = TRUE]
      /\ UNCHANGED <<chosen, applied, machine, saved, inbox, pending, inFlightMutations, requests, replies>>
  BY Zenon DEF Elect, machineVars, loopVars
<1>. DEFINE noOp == [term |-> term + 1, command |-> NoOp]
<1>2. PICK j \in Node, n \in Len(chosen)..(MaxLog - 1) :
        /\ n <= Len(log[j])
        /\ \A k \in 1..Len(chosen) : log[j][k] = chosen[k]
        /\ log' = [log EXCEPT ![i] = Append(SubSeq(log[j], 1, n), noOp)]
  BY Zenon DEF Elect
<1>. DEFINE e == Append(SubSeq(log[j], 1, n), noOp)
<1>3. /\ log \in [Node -> Seq(Entry)] /\ chosen \in Seq(Entry) /\ log[j] \in Seq(Entry)
      /\ term \in Nat /\ current \in Node \cup {NoNode}
  BY Zenon DEF SessionsInv, LogType
<1>4. noOp \in Entry
  <2>1. term + 1 \in Nat
    BY <1>3
  <2>. QED  BY <2>1 DEF Entry
<1>5. n \in Nat /\ Len(chosen) \in Nat /\ Len(chosen) <= n /\ Len(log[j]) \in Nat
  <2>1. Len(chosen) \in Nat /\ Len(log[j]) \in Nat
    BY <1>3
  <2>2. MaxLog \in Nat
    BY NodesAssumption
  <2>. QED  BY <2>1, <2>2
<1>. HIDE DEF noOp
<1>6. /\ SubSeq(log[j], 1, n) \in Seq(Entry)
      /\ Len(SubSeq(log[j], 1, n)) = n
      /\ \A k \in 1..n : SubSeq(log[j], 1, n)[k] = log[j][k]
  BY <1>2, <1>3, <1>5
<1>7. /\ e \in Seq(Entry) /\ Len(e) = n + 1
      /\ \A k \in 1..n : e[k] = log[j][k]
  <2>. DEFINE s == SubSeq(log[j], 1, n)
  <2>1. s \in Seq(Entry) /\ Len(s) = n /\ \A k \in 1..n : s[k] = log[j][k]
    BY <1>6, Zenon
  <2>. HIDE DEF s
  <2>2. Append(s, noOp) \in Seq(Entry) /\ Len(Append(s, noOp)) = n + 1
        /\ \A k \in 1..n : Append(s, noOp)[k] = s[k]
    BY <1>4, <2>1
  <2>. QED  BY <2>1, <2>2, Zenon DEF s
<1>. HIDE DEF e
<1>8. log' = [log EXCEPT ![i] = e]
  BY <1>2, Zenon DEF e
<1>9. LogType'
  <2>1. term' \in Nat /\ current' \in Node \cup {NoNode}
    BY <1>1, <1>3
  <2>2. log' \in [Node -> Seq(Entry)]
    BY <1>3, <1>7, <1>8, Zenon
  <2>. QED  BY <1>1, <1>3, <2>1, <2>2, StillRequests, Zenon DEF LogType
<1>10. log'[i] = e /\ \A u \in Node \ {i} : log'[u] = log[u]
  BY <1>3, <1>8, Zenon
<1>11. LeaderHoldsChosen'
  <2>1. Len(chosen) <= Len(e) /\ \A k \in 1..Len(chosen) : e[k] = log[j][k]
    BY <1>5, <1>7
  <2>2. Len(chosen') <= Len(log'[current']) /\ \A k \in 1..Len(chosen') : log'[current'][k] = chosen'[k]
    BY <1>1, <1>2, <1>10, <2>1, Zenon
  <2>. QED  BY <2>2, Zenon DEF LeaderHoldsChosen
<1>12. LoopType'
  <2>1. leads' \in [Node -> BOOLEAN]
    BY <1>1 DEF SessionsInv, LoopType
  <2>. QED  BY <1>1, <2>1, Zenon DEF SessionsInv, LoopType
<1>13. WaitersFit'
  <2>1. ASSUME NEW u \in Node
        PROVE  /\ HoldsWaiters(log'[u], pending'[u], inFlightMutations'[u])
               /\ ~leads'[u] => pending'[u] = {} /\ inFlightMutations'[u] = {}
    <3>1. CASE u = i
      <4>1. pending'[u] = {} /\ inFlightMutations'[u] = {}
        BY <1>1, <3>1, Zenon DEF SessionsInv, WaitersFit
      <4>. QED  BY <4>1, HoldsNobody, Zenon
    <3>2. CASE u # i
      <4>1. leads'[u] = leads[u] /\ log'[u] = log[u]
        BY <1>1, <1>10, <3>2, Zenon DEF SessionsInv, LoopType
      <4>. QED  BY <1>1, <4>1, Zenon DEF SessionsInv, WaitersFit
    <3>. QED  BY <3>1, <3>2, Zenon
  <2>. QED  BY <2>1, Zenon DEF WaitersFit
<1>. QED  BY <1>1, <1>9, <1>11, <1>12, <1>13, StillStates, StillAnswers, InvOf, Zenon

\* A higher term or a missed quorum ends a leadership.
LEMMA StepDownInv ==
  ASSUME SessionsInv, NEW i \in Node, StepDown(i)
  PROVE  SessionsInv'
<1>1. /\ LoseLeadership(i)
      /\ UNCHANGED <<term, current, log, chosen, applied, machine, saved, inbox, requests, replies>>
  BY Zenon DEF StepDown, raftVars, machineVars
<1>. QED  BY <1>1, LeadershipEnds, Zenon

\* A Node saves its state: what it has saved is of the entries that it has applied.
LEMMA TakeSnapshotInv ==
  ASSUME SessionsInv, NEW i \in Node, TakeSnapshot(i)
  PROVE  SessionsInv'
<1>. DEFINE new == [index |-> applied[i], state |-> Snapshot(machine[i])]
            A == {Snapshot(StateAt(chosen, n)) : n \in 0..Len(chosen)}
<1>1. /\ saved' = [saved EXCEPT ![i] = new]
      /\ UNCHANGED <<term, current, log, chosen, leads, applied, machine, inbox, pending, inFlightMutations,
                     requests, replies>>
  BY Zenon DEF TakeSnapshot, raftVars, loopVars
<1>2. LoopType' /\ WaitersFit' /\ LogType' /\ LeaderHoldsChosen'
  BY <1>1, StillRequests, Zenon DEF SessionsInv, LoopType, WaitersFit, LogType, LeaderHoldsChosen
<1>3. /\ applied \in [Node -> 0..Len(chosen)]
      /\ machine = [u \in Node |-> StateAt(chosen, applied[u])]
      /\ saved \in [Node -> [index : Nat, state : A]]
      /\ \A u \in Node : /\ saved[u].index <= applied[u]
                         /\ saved[u].state = Snapshot(StateAt(chosen, saved[u].index))
  BY Zenon DEF SessionsInv, StatesAreChosen
<1>4. applied[i] \in 0..Len(chosen) /\ machine[i] = StateAt(chosen, applied[i])
  BY <1>3, Zenon
<1>5. Snapshot(machine[i]) \in A
  BY <1>4, Zenon
<1>6. applied[i] \in Nat /\ applied[i] <= applied[i]
  <2>1. Len(chosen) \in Nat
    BY DEF SessionsInv, LogType
  <2>. QED  BY <1>4, <2>1
<1>7. new.index = applied[i] /\ new.state = Snapshot(StateAt(chosen, applied[i]))
  BY <1>4
<1>8. new \in [index : Nat, state : A]
  <2>. HIDE DEF A
  <2>. QED  BY <1>5, <1>6
<1>. HIDE DEF new
<1>9. saved' \in [Node -> [index : Nat, state : A]]
  BY <1>1, <1>3, <1>8, Zenon
<1>10. \A u \in Node : saved'[u] = IF u = i THEN new ELSE saved[u]
  BY <1>1, <1>3, Zenon
<1>11. ASSUME NEW u \in Node
       PROVE  saved'[u].index <= applied[u] /\ saved'[u].state = Snapshot(StateAt(chosen, saved'[u].index))
  <2>1. CASE u = i
    <3>1. saved'[u] = new /\ applied[u] = applied[i]
      BY <1>10, <2>1, Zenon
    <3>. QED  BY <1>6, <1>7, <3>1, Zenon
  <2>2. CASE u # i
    <3>1. saved'[u] = saved[u]
      BY <1>10, <2>2, Zenon
    <3>. QED  BY <1>3, <3>1, Zenon
  <2>. QED  BY <2>1, <2>2, Zenon
<1>12. StatesAreChosen'
  <2>1. chosen' = chosen /\ applied' = applied /\ machine' = machine
    BY <1>1, Zenon
  <2>2. /\ applied' \in [Node -> 0..Len(chosen')]
        /\ machine' = [u \in Node |-> StateAt(chosen', applied'[u])]
    BY <1>3, <2>1, Zenon
  <2>3. \A u \in Node : /\ saved'[u].index <= applied'[u]
                        /\ saved'[u].state = Snapshot(StateAt(chosen', saved'[u].index))
    BY <1>11, <2>1, Zenon
  <2>4. saved' \in [Node -> [index : Nat, state : {Snapshot(StateAt(chosen', n)) : n \in 0..Len(chosen')}]]
    BY <1>9, <2>1, Zenon
  <2>. QED  BY <2>2, <2>3, <2>4, Zenon DEF StatesAreChosen
<1>. QED  BY <1>1, <1>2, <1>12, StillAnswers, InvOf, Zenon

\* A Snapshot, whoever saved it, restores the state of the prefix that it covers.
LEMMA SavedRestores ==
  ASSUME SessionsInv, NEW i \in Node
  PROVE  /\ saved[i].index \in 0..Len(chosen)
         /\ Restore(saved[i].state) = StateAt(chosen, saved[i].index)
<1>1. /\ applied[i] \in 0..Len(chosen)
      /\ saved[i] \in [index : Nat, state : {Snapshot(StateAt(chosen, n)) : n \in 0..Len(chosen)}]
      /\ saved[i].index <= applied[i]
      /\ saved[i].state = Snapshot(StateAt(chosen, saved[i].index))
  BY Zenon DEF SessionsInv, StatesAreChosen
<1>2. requests \subseteq Request /\ chosen \in Seq(Entry)
  BY Zenon DEF SessionsInv, LogType
<1>3. saved[i].index \in Nat /\ Len(chosen) \in Nat
  BY <1>1, <1>2
<1>4. saved[i].index \in 0..Len(chosen)
  BY <1>1, <1>3
<1>5. MachineOK(StateAt(chosen, saved[i].index))
  BY <1>2, <1>4, LogsHoldRequests, StatesOK, Zenon
<1>. QED  BY <1>1, <1>4, <1>5, RestoreExact, Zenon

\* A Node restores the newest Leader's Snapshot, also over a longer applied prefix.
LEMMA RestoreSnapshotInv ==
  ASSUME SessionsInv, NEW i \in Node, RestoreSnapshot(i)
  PROVE  SessionsInv'
<1>. DEFINE new == saved[current]
            n == IF applied[i] > new.index THEN applied[i] ELSE new.index
            A == {Snapshot(StateAt(chosen, x)) : x \in 0..Len(chosen)}
<1>1. /\ i # current /\ current # NoNode
      /\ saved' = [saved EXCEPT ![i] = new]
      /\ machine' = [machine EXCEPT ![i] = Restore(new.state)]
      /\ applied' = [applied EXCEPT ![i] = new.index]
      /\ log' = [log EXCEPT ![i] = SubSeq(chosen, 1, n)]
      /\ LoseLeadership(i)
      /\ UNCHANGED <<term, current, chosen, inbox, requests, replies>>
  BY Zenon DEF RestoreSnapshot
<1>2. current \in Node /\ chosen \in Seq(Entry)
  BY <1>1, Zenon DEF SessionsInv, LogType
<1>3. new.index \in 0..Len(chosen) /\ Restore(new.state) = StateAt(chosen, new.index)
  BY <1>2, SavedRestores, Zenon
<1>4. /\ applied \in [Node -> 0..Len(chosen)]
      /\ machine = [u \in Node |-> StateAt(chosen, applied[u])]
      /\ saved \in [Node -> [index : Nat, state : A]]
      /\ \A u \in Node : /\ saved[u].index <= applied[u]
                         /\ saved[u].state = Snapshot(StateAt(chosen, saved[u].index))
  BY Zenon DEF SessionsInv, StatesAreChosen
<1>5. n \in 0..Len(chosen) /\ new \in [index : Nat, state : A]
      /\ new.state = Snapshot(StateAt(chosen, new.index))
  BY <1>2, <1>3, <1>4, Zenon
<1>. HIDE DEF n
<1>6. SubSeq(chosen, 1, n) \in Seq(Entry)
  <2>1. Len(chosen) \in Nat
    BY <1>2
  <2>. QED  BY <1>2, <1>5, <2>1
<1>7. LogType' /\ LeaderHoldsChosen' /\ \A j \in Node \ {i} : log'[j] = log[j]
  BY <1>1, <1>6, OtherLog, Zenon
<1>8. inbox' \in [Node -> SUBSET requests]
  BY <1>1, Zenon DEF SessionsInv, LoopType
<1>9. LoopType' /\ WaitersFit'
  BY <1>1, <1>7, <1>8, LoseLeadershipOK, Zenon
<1>10. new.index <= new.index
  <2>1. new.index \in Nat
    BY <1>5
  <2>. QED  BY <2>1
<1>. HIDE DEF new, A
<1>11. applied' \in [Node -> 0..Len(chosen)] /\ saved' \in [Node -> [index : Nat, state : A]]
  BY <1>1, <1>3, <1>4, <1>5, Zenon
<1>12. \A u \in Node : /\ saved'[u] = IF u = i THEN new ELSE saved[u]
                       /\ applied'[u] = IF u = i THEN new.index ELSE applied[u]
  BY <1>1, <1>4, Zenon
<1>13. machine' = [u \in Node |-> StateAt(chosen, applied'[u])]
  <2>1. machine' = [u \in Node |-> IF u = i THEN StateAt(chosen, new.index) ELSE StateAt(chosen, applied[u])]
    BY <1>1, <1>3, <1>4, Zenon
  <2>. QED  BY <1>12, <2>1, Zenon
<1>14. ASSUME NEW u \in Node
       PROVE  saved'[u].index <= applied'[u] /\ saved'[u].state = Snapshot(StateAt(chosen, saved'[u].index))
  <2>1. CASE u = i
    <3>1. saved'[u] = new /\ applied'[u] = new.index
      BY <1>12, <2>1, Zenon
    <3>. QED  BY <1>5, <1>10, <3>1, Zenon
  <2>2. CASE u # i
    <3>1. saved'[u] = saved[u] /\ applied'[u] = applied[u]
      BY <1>12, <2>2, Zenon
    <3>. QED  BY <1>4, <3>1, Zenon
  <2>. QED  BY <2>1, <2>2, Zenon
<1>15. StatesAreChosen'
  <2>1. chosen' = chosen
    BY <1>1, Zenon
  <2>2. /\ applied' \in [Node -> 0..Len(chosen')]
        /\ machine' = [u \in Node |-> StateAt(chosen', applied'[u])]
    BY <1>11, <1>13, <2>1, Zenon
  <2>3. \A u \in Node : /\ saved'[u].index <= applied'[u]
                        /\ saved'[u].state = Snapshot(StateAt(chosen', saved'[u].index))
    BY <1>14, <2>1, Zenon
  <2>4. saved' \in [Node -> [index : Nat, state : {Snapshot(StateAt(chosen', x)) : x \in 0..Len(chosen')}]]
    BY <1>11, <2>1, Zenon DEF A
  <2>. QED  BY <2>2, <2>3, <2>4, Zenon DEF StatesAreChosen
<1>. QED  BY <1>1, <1>7, <1>9, <1>15, StillAnswers, InvOf, Zenon

\* A start from the newest Snapshot and the committed suffix gives the state back.
LEMMA RestartInv ==
  ASSUME SessionsInv, NEW i \in Node, Restart(i)
  PROVE  SessionsInv'
<1>. DEFINE x == saved[i].index
            again == ApplyAll(Restore(saved[i].state), Commands(chosen, x + 1, applied[i]))
<1>1. /\ machine' = [machine EXCEPT ![i] = again]
      /\ LoseLeadership(i)
      /\ inbox' = [inbox EXCEPT ![i] = {}]
      /\ UNCHANGED <<term, current, log, chosen, applied, saved, requests, replies>>
  BY Zenon DEF Restart, raftVars
<1>2. x \in 0..Len(chosen) /\ Restore(saved[i].state) = StateAt(chosen, x)
  BY SavedRestores, Zenon
<1>3. /\ applied[i] \in 0..Len(chosen) /\ x <= applied[i] /\ chosen \in Seq(Entry)
      /\ machine = [u \in Node |-> StateAt(chosen, applied[u])]
  BY Zenon DEF SessionsInv, StatesAreChosen, LogType
<1>4. x \in Nat /\ applied[i] \in Nat
  BY <1>2, <1>3
<1>5. again = StateAt(chosen, applied[i])
  BY <1>2, <1>3, <1>4, StateContinues, Zenon
<1>. HIDE DEF again, x
<1>6. machine' = machine
  BY <1>1, <1>3, <1>5, Zenon
<1>7. StatesAreChosen'
  BY <1>1, <1>6, StillStates, Zenon
<1>8. inbox' \in [Node -> SUBSET requests]
  BY <1>1 DEF SessionsInv, LoopType
<1>9. LoopType' /\ WaitersFit'
  BY <1>1, <1>8, LoseLeadershipOK, Zenon
<1>10. LogType' /\ LeaderHoldsChosen'
  BY <1>1, StillRequests, Zenon DEF SessionsInv, LogType, LeaderHoldsChosen
<1>. QED  BY <1>1, <1>7, <1>9, <1>10, StillAnswers, InvOf, Zenon

\* A Leader proposes: whoever waits for the index waits within the longer log.
LEMMA ProposeOK ==
  ASSUME SessionsInv, NEW i \in Node, NEW c \in requests, Propose(i, c), UNCHANGED <<leads, requests>>
  PROVE  /\ replies' = replies
         /\ log' \in [Node -> Seq(Entry)]
         /\ \A j \in Node : /\ Len(log[j]) <= Len(log'[j])
                            /\ \A k \in 1..Len(log[j]) : log'[j][k] = log[j][k]
         /\ pending' \in [Node -> SUBSET [index : Nat \ {0}, command : requests]]
         /\ inFlightMutations' \in [Node -> SUBSET [session : Session, sequence : Nat, index : Nat \ {0}]]
         /\ WaitersFit'
<1>. DEFINE index == Len(log[i]) + 1
            entry == [term |-> term, command |-> c]
            waits == [index |-> index, command |-> c]
            flies == [session |-> c.session, sequence |-> c.sequence, index |-> index]
            others == {m \in inFlightMutations[i] : m.session # c.session}
<1>1. /\ log \in [Node -> Seq(Entry)] /\ term \in Nat /\ leads \in [Node -> BOOLEAN]
      /\ pending \in [Node -> SUBSET [index : Nat \ {0}, command : requests]]
      /\ inFlightMutations \in [Node -> SUBSET [session : Session, sequence : Nat, index : Nat \ {0}]]
      /\ requests \subseteq Request
  BY Zenon DEF SessionsInv, LogType, LoopType
<1>2. \A j \in Node : Len(log[j]) \in Nat /\ Len(log[j]) <= Len(log[j])
  BY <1>1
<1>3. CASE leads[i]
  <2>1. /\ log' = [log EXCEPT ![i] = Append(log[i], entry)]
        /\ pending' = [pending EXCEPT ![i] = pending[i] \cup {waits}]
        /\ inFlightMutations' = [inFlightMutations EXCEPT ![i] =
                                   IF IsMutation(c) THEN others \cup {flies} ELSE inFlightMutations[i]]
        /\ replies' = replies
    BY <1>3, Zenon DEF Propose
  <2>2. entry \in Entry /\ waits \in [index : Nat \ {0}, command : requests]
    <3>1. index \in Nat \ {0}
      BY <1>2
    <3>2. entry \in Entry
      BY <1>1 DEF Entry
    <3>. HIDE DEF index
    <3>. QED  BY <3>1, <3>2
  <2>3. IsMutation(c) => flies \in [session : Session, sequence : Nat, index : Nat \ {0}]
    <3>1. ASSUME IsMutation(c)  PROVE c.session \in Session /\ c.sequence \in Nat
      <4>1. c \in Request /\ c.type \in {"Set", "Delete"}
        BY <1>1, <3>1 DEF IsMutation
      <4>2. \A x \in 1..MaxSequence : x \in Nat
        BY NodesAssumption
      <4>. QED  BY <4>1, <4>2 DEF Request
    <3>2. index \in Nat \ {0}
      BY <1>2
    <3>. HIDE DEF index
    <3>. QED  BY <3>1, <3>2
  <2>4. waits.index = index /\ flies.index = index
    OBVIOUS
  <2>. DEFINE mine == IF IsMutation(c) THEN others \cup {flies} ELSE inFlightMutations[i]
  <2>5. mine \subseteq inFlightMutations[i] \cup {flies} /\ (IsMutation(c) \/ mine = inFlightMutations[i])
    BY Zenon
  <2>. HIDE DEF entry, waits, flies, others
  <2>6. mine \subseteq [session : Session, sequence : Nat, index : Nat \ {0}]
    BY <1>1, <2>3, <2>5, Zenon
  <2>7. inFlightMutations' = [inFlightMutations EXCEPT ![i] = mine]
    BY <2>1, Zenon
  <2>. HIDE DEF mine
  <2>8. log[i] \in Seq(Entry) /\ Append(log[i], entry) \in Seq(Entry)
    BY <1>1, <2>2
  <2>9. /\ Len(Append(log[i], entry)) = index
        /\ \A k \in 1..Len(log[i]) : Append(log[i], entry)[k] = log[i][k]
    BY <2>2, <2>8
  <2>10. log' \in [Node -> Seq(Entry)]
    BY <1>1, <2>1, <2>8, Zenon
  <2>11. /\ log'[i] = Append(log[i], entry) /\ pending'[i] = pending[i] \cup {waits}
         /\ inFlightMutations'[i] = mine
    BY <1>1, <2>1, <2>7, Zenon
  <2>12. \A j \in Node \ {i} : /\ log'[j] = log[j] /\ pending'[j] = pending[j]
                               /\ inFlightMutations'[j] = inFlightMutations[j]
    BY <1>1, <2>1, <2>7, Zenon
  <2>13. Len(log'[i]) = index /\ Len(log[i]) <= index /\ index <= index
    BY <1>2, <2>9, <2>11
  <2>14. ASSUME NEW j \in Node
         PROVE  Len(log[j]) <= Len(log'[j]) /\ \A k \in 1..Len(log[j]) : log'[j][k] = log[j][k]
    <3>1. CASE j = i
      BY <2>9, <2>11, <2>13, <3>1, Zenon
    <3>2. CASE j # i
      BY <1>2, <2>12, <3>2, Zenon
    <3>. QED  BY <3>1, <3>2, Zenon
  <2>15. pending' \in [Node -> SUBSET [index : Nat \ {0}, command : requests]]
    <3>1. pending[i] \cup {waits} \in SUBSET [index : Nat \ {0}, command : requests]
      BY <1>1, <2>2, Zenon
    <3>. QED  BY <1>1, <2>1, <3>1, Zenon
  <2>16. inFlightMutations' \in [Node -> SUBSET [session : Session, sequence : Nat, index : Nat \ {0}]]
    BY <1>1, <2>6, <2>7, Zenon
  <2>17. ASSUME NEW j \in Node
         PROVE  /\ HoldsWaiters(log'[j], pending'[j], inFlightMutations'[j])
                /\ ~leads'[j] => pending'[j] = {} /\ inFlightMutations'[j] = {}
    <3>1. CASE j = i
      <4>1. leads'[j]
        BY <1>3, <3>1, Zenon
      <4>2. HoldsWaiters(log'[i], pending[i], inFlightMutations[i])
        <5>1. HoldsWaiters(log[i], pending[i], inFlightMutations[i])
          BY Zenon DEF SessionsInv, WaitersFit
        <5>2. \A p \in pending[i] \cup inFlightMutations[i] : p.index \in Nat \ {0}
          BY <1>1
        <5>3. Len(log[i]) \in Nat /\ Len(log'[i]) \in Nat
          BY <1>2, <2>13
        <5>. QED  BY <2>14, <5>1, <5>2, <5>3, HoldsLonger, Zenon
      <4>3. \A p \in pending'[i] : p \in pending[i] \/ p = waits
        BY <2>11, Zenon
      <4>4. \A m \in inFlightMutations'[i] : m \in inFlightMutations[i] \/ (m = flies /\ IsMutation(c))
        BY <2>5, <2>11, Zenon
      <4>5. log'[i][index].command = c
        BY <2>2, <2>8, <2>11 DEF entry
      <4>6. HoldsWaiters(log'[i], pending'[i], inFlightMutations'[i])
        <5>1. waits.index = index /\ waits.command = c
          BY DEF waits
        <5>2. flies.index = index /\ flies.session = c.session /\ flies.sequence = c.sequence
          BY DEF flies
        <5>. HIDE DEF index
        <5>. QED  BY <2>13, <4>2, <4>3, <4>4, <4>5, <5>1, <5>2, Zenon DEF HoldsWaiters
      <4>. QED  BY <3>1, <4>1, <4>6, Zenon
    <3>2. CASE j # i
      BY <2>12, <3>2, Zenon DEF SessionsInv, WaitersFit
    <3>. QED  BY <3>1, <3>2, Zenon
  <2>. QED  BY <2>1, <2>10, <2>14, <2>15, <2>16, <2>17, Zenon DEF WaitersFit
<1>4. CASE ~leads[i]
  <2>1. UNCHANGED <<log, pending, inFlightMutations, replies>>
    BY <1>4, Zenon DEF Propose
  <2>. QED  BY <1>1, <1>2, <2>1, Zenon DEF SessionsInv, WaitersFit
<1>. QED  BY <1>3, <1>4, Zenon

\* The loop takes a request: joined to the mutation in flight, answered from the local
\* state, or proposed.
LEMMA HandleInv ==
  ASSUME SessionsInv, NEW i \in Node, NEW c \in inbox[i], Handle(i, c)
  PROVE  SessionsInv'
<1>. DEFINE joined == {m \in inFlightMutations[i] :
                         IsMutation(c) /\ m.session = c.session /\ m.sequence = c.sequence}
            here == EvaluateMutation(machine[i], c)
            waits == {[index |-> m.index, command |-> c] : m \in joined}
<1>1. /\ inbox' = [inbox EXCEPT ![i] = inbox[i] \ {c}]
      /\ UNCHANGED <<term, current, chosen, leads, applied, machine, saved, requests>>
      /\ \/ /\ joined # {}
            /\ pending' = [pending EXCEPT ![i] = pending[i] \cup waits]
            /\ UNCHANGED <<log, inFlightMutations, replies>>
         \/ /\ IsMutation(c)
            /\ ~here.apply
            /\ replies' = replies \cup {Reply(c, here.result)}
            /\ UNCHANGED <<log, pending, inFlightMutations>>
         \/ Propose(i, c)
  BY Zenon DEF Handle, machineVars
<1>2. /\ log \in [Node -> Seq(Entry)] /\ leads \in [Node -> BOOLEAN] /\ chosen \in Seq(Entry)
      /\ inbox \in [Node -> SUBSET requests]
      /\ pending \in [Node -> SUBSET [index : Nat \ {0}, command : requests]]
      /\ inFlightMutations \in [Node -> SUBSET [session : Session, sequence : Nat, index : Nat \ {0}]]
      /\ requests \subseteq Request /\ term \in Nat /\ current \in Node \cup {NoNode}
  BY Zenon DEF SessionsInv, LogType, LoopType
<1>3. c \in requests /\ c \in Request
  BY <1>2, Zenon
<1>4. inbox' \in [Node -> SUBSET requests]
  BY <1>1, <1>2, Zenon
<1>5. StatesAreChosen'
  BY <1>1, StillStates, Zenon
<1>6. CASE /\ joined # {}
           /\ pending' = [pending EXCEPT ![i] = pending[i] \cup waits]
           /\ UNCHANGED <<log, inFlightMutations, replies>>
  <2>1. joined \subseteq inFlightMutations[i] /\ leads[i]
    BY <1>6, Zenon DEF SessionsInv, WaitersFit
  <2>2. \A p \in waits : \E m \in joined : p = [index |-> m.index, command |-> c]
    BY Zenon
  <2>. HIDE DEF waits, joined
  <2>3. ASSUME NEW p \in waits
        PROVE  /\ p \in [index : Nat \ {0}, command : requests]
               /\ p.index <= Len(log[i])
               /\ log[i][p.index].command = p.command
    <3>1. PICK m \in joined : p = [index |-> m.index, command |-> c]
      BY <2>2, Zenon
    <3>2. /\ m \in inFlightMutations[i] /\ IsMutation(c)
          /\ m.session = c.session /\ m.sequence = c.sequence
      BY <2>1, Zenon DEF joined
    <3>3. m.index \in Nat \ {0} /\ p.index = m.index /\ p.command = c
      BY <1>2, <3>1, <3>2
    <3>4. /\ m.index <= Len(log[i])
          /\ IsMutation(log[i][m.index].command)
          /\ log[i][m.index].command.session = c.session
          /\ log[i][m.index].command.sequence = c.sequence
      BY <3>2, Zenon DEF SessionsInv, WaitersFit, HoldsWaiters
    <3>5. log[i][m.index].command = c
      <4>1. m.index \in 1..Len(log[i])
        <5>1. Len(log[i]) \in Nat
          BY <1>2
        <5>. QED  BY <3>3, <3>4, <5>1
      <4>2. OnlyOne(log[i], c)
        <5>1. log[i] \in Seq(Entry)
          BY <1>2, Zenon
        <5>. QED  BY <1>2, <1>3, <3>2, <5>1, LogsHoldRequests, Zenon DEF SessionsInv
      <4>. QED  BY <3>4, <4>1, <4>2, Zenon DEF OnlyOne
    <3>6. p \in [index : Nat \ {0}, command : requests]
      BY <1>3, <3>1, <3>3
    <3>. QED  BY <3>3, <3>4, <3>5, <3>6, Zenon
  <2>4. pending' \in [Node -> SUBSET [index : Nat \ {0}, command : requests]]
    <3>1. pending[i] \cup waits \in SUBSET [index : Nat \ {0}, command : requests]
      BY <1>2, <2>3, Zenon
    <3>. QED  BY <1>2, <1>6, <3>1, Zenon
  <2>5. LoopType'
    BY <1>1, <1>2, <1>4, <1>6, <2>4, Zenon DEF LoopType
  <2>6. ASSUME NEW j \in Node
        PROVE  /\ HoldsWaiters(log'[j], pending'[j], inFlightMutations'[j])
               /\ ~leads'[j] => pending'[j] = {} /\ inFlightMutations'[j] = {}
    <3>1. CASE j = i
      <4>1. pending'[i] = pending[i] \cup waits
        BY <1>2, <1>6, Zenon
      <4>2. HoldsWaiters(log[i], pending[i], inFlightMutations[i])
        BY Zenon DEF SessionsInv, WaitersFit
      <4>3. HoldsWaiters(log[i], pending[i] \cup waits, inFlightMutations[i])
        BY <2>3, <4>2, Zenon DEF HoldsWaiters
      <4>. QED  BY <1>1, <1>6, <2>1, <3>1, <4>1, <4>3, Zenon
    <3>2. CASE j # i
      <4>1. pending'[j] = pending[j]
        BY <1>2, <1>6, <3>2, Zenon
      <4>. QED  BY <1>1, <1>6, <4>1, Zenon DEF SessionsInv, WaitersFit
    <3>. QED  BY <3>1, <3>2, Zenon
  <2>7. WaitersFit'
    BY <2>6, Zenon DEF WaitersFit
  <2>8. LogType' /\ LeaderHoldsChosen'
    BY <1>1, <1>6, StillRequests, Zenon DEF SessionsInv, LogType, LeaderHoldsChosen
  <2>. QED  BY <1>1, <1>5, <1>6, <2>5, <2>7, <2>8, StillAnswers, InvOf, Zenon
<1>7. CASE /\ IsMutation(c)
           /\ ~here.apply
           /\ replies' = replies \cup {Reply(c, here.result)}
           /\ UNCHANGED <<log, pending, inFlightMutations>>
  <2>. DEFINE r == Reply(c, here.result)
  <2>1. LoopType'
    BY <1>1, <1>2, <1>4, <1>7, Zenon DEF LoopType
  <2>2. WaitersFit'
    BY <1>1, <1>7, Zenon DEF SessionsInv, WaitersFit
  <2>3. LogType' /\ LeaderHoldsChosen'
    BY <1>1, <1>7, StillRequests, Zenon DEF SessionsInv, LogType, LeaderHoldsChosen
  <2>4. applied[i] \in 0..Len(chosen) /\ machine[i] = StateAt(chosen, applied[i])
    BY Zenon DEF SessionsInv, StatesAreChosen
  <2>5. HoldsRequests(chosen) /\ OnlyOne(chosen, c)
    BY <1>2, <1>3, <1>7, LogsHoldRequests, Zenon DEF SessionsInv
  <2>6. MachineOK(machine[i])
    BY <2>4, <2>5, StatesOK, Zenon
  <2>7. here.result \in ResultType
    BY <1>3, <1>7, <2>6, Evaluated
  <2>8. c \in Command
    BY <1>3, RequestFields
  <2>9. r \in Answer /\ r.failure = here.result.failure /\ r.existed = here.result.existed
        /\ r.command = c
    <3>. HIDE DEF here
    <3>. QED  BY <2>7, <2>8 DEF Answer, Reply, ResultType
  <2>10. AnswerIsOf(chosen, r)
    <3>. SUFFICES ASSUME here.result.failure = "Succeeded"
                  PROVE  \E k \in EffectiveIn(chosen) :
                           chosen[k].command = c /\ here.result.existed = ExistedAt(chosen, k)
      <4>. HIDE DEF r, here
      <4>. QED  BY <1>7, <2>9, Zenon DEF AnswerIsOf
    <3>1. \E k \in EffectiveIn(chosen) :
            /\ chosen[k].command = c
            /\ EvaluateMutation(StateAt(chosen, applied[i]), c).result.existed = ExistedAt(chosen, k)
      <4>1. /\ ~EvaluateMutation(StateAt(chosen, applied[i]), c).apply
            /\ EvaluateMutation(StateAt(chosen, applied[i]), c).result.failure = "Succeeded"
        BY <1>7, <2>4, Zenon
      <4>. QED  BY <1>3, <1>7, <2>4, <2>5, <4>1, CachedAnswer, Zenon
    <3>. QED  BY <2>4, <3>1, Zenon
  <2>. HIDE DEF r
  <2>11. replies' \subseteq Answer /\ \A q \in replies' : AnswerIsOf(chosen', q)
    <3>1. replies' = replies \cup {r} /\ chosen' = chosen
      BY <1>1, <1>7, Zenon DEF r
    <3>. QED  BY <2>9, <2>10, <3>1, Zenon DEF SessionsInv
  <2>. QED  BY <1>1, <1>5, <2>1, <2>2, <2>3, <2>11, InvOf, Zenon
<1>8. CASE Propose(i, c)
  <2>1. /\ replies' = replies
        /\ log' \in [Node -> Seq(Entry)]
        /\ \A j \in Node : /\ Len(log[j]) <= Len(log'[j])
                           /\ \A k \in 1..Len(log[j]) : log'[j][k] = log[j][k]
        /\ pending' \in [Node -> SUBSET [index : Nat \ {0}, command : requests]]
        /\ inFlightMutations' \in [Node -> SUBSET [session : Session, sequence : Nat, index : Nat \ {0}]]
        /\ WaitersFit'
    BY <1>1, <1>3, <1>8, ProposeOK, Zenon
  <2>2. LoopType'
    BY <1>1, <1>2, <1>4, <2>1, Zenon DEF LoopType
  <2>3. LogType'
    BY <1>1, <1>2, <2>1, StillRequests, Zenon DEF LogType
  <2>4. ASSUME current # NoNode
        PROVE  /\ Len(chosen) <= Len(log'[current])
               /\ \A k \in 1..Len(chosen) : log'[current][k] = chosen[k]
    <3>1. current \in Node
      BY <1>2, <2>4, Zenon
    <3>2. /\ Len(chosen) <= Len(log[current])
          /\ \A k \in 1..Len(chosen) : log[current][k] = chosen[k]
      BY <2>4, Zenon DEF SessionsInv, LeaderHoldsChosen
    <3>3. /\ Len(log[current]) <= Len(log'[current])
          /\ \A k \in 1..Len(log[current]) : log'[current][k] = log[current][k]
      BY <2>1, <3>1, Zenon
    <3>4. Len(chosen) \in Nat /\ Len(log[current]) \in Nat /\ Len(log'[current]) \in Nat
      BY <1>2, <2>1, <3>1
    <3>. QED  BY <3>2, <3>3, <3>4
  <2>5. LeaderHoldsChosen'
    BY <1>1, <2>4, Zenon DEF LeaderHoldsChosen
  <2>6. replies' \subseteq Answer /\ \A r \in replies' : AnswerIsOf(chosen', r)
    BY <1>1, <2>1, StillAnswers, Zenon
  <2>. QED  BY <1>1, <1>5, <2>1, <2>2, <2>3, <2>5, <2>6, InvOf, Zenon
<1>. QED  BY <1>1, <1>6, <1>7, <1>8, Zenon

-----------------------------------------------------------------------------
(* The invariant, and what it says *)

\* SessionsInv is inductive: submissions and retries at any Leader, the loop's answers,
\* commits, lost leaderships, Snapshots and restarts all keep it.
THEOREM SessionsInvariant == Spec => []SessionsInv
<1>1. Init => SessionsInv
  BY InitInv
<1>2. SessionsInv /\ [Next]_vars => SessionsInv'
  <2>. SUFFICES ASSUME SessionsInv, [Next]_vars  PROVE SessionsInv'
    OBVIOUS
  <2>1. CASE Next
    <3>1. PICK i \in Node :
            \/ \E c \in Request : Submit(i, c)
            \/ \E c \in inbox[i] : Handle(i, c)
            \/ Commit(i) \/ Depose(i) \/ Learn(i) \/ Elect(i) \/ StepDown(i)
            \/ TakeSnapshot(i) \/ RestoreSnapshot(i) \/ Restart(i)
      BY <2>1, Zenon DEF Next
    <3>2. CASE \E c \in Request : Submit(i, c)
      BY <3>2, SubmitInv, Zenon
    <3>3. CASE \E c \in inbox[i] : Handle(i, c)
      BY <3>3, HandleInv, Zenon
    <3>4. CASE Commit(i)
      BY <3>4, CommitInv, Zenon
    <3>5. CASE Learn(i)
      BY <3>5, LearnInv, Zenon
    <3>6. CASE Elect(i)
      BY <3>6, ElectInv, Zenon
    <3>7. CASE StepDown(i)
      BY <3>7, StepDownInv, Zenon
    <3>8. CASE TakeSnapshot(i)
      BY <3>8, TakeSnapshotInv, Zenon
    <3>9. CASE RestoreSnapshot(i)
      BY <3>9, RestoreSnapshotInv, Zenon
    <3>10. CASE Restart(i)
      BY <3>10, RestartInv, Zenon
    <3>11. CASE Depose(i)
      BY <3>11, DeposeInv, Zenon
    <3>. QED  BY <3>1, <3>2, <3>3, <3>4, <3>5, <3>6, <3>7, <3>8, <3>9, <3>10, <3>11, Zenon
  <2>2. CASE UNCHANGED vars
    <3>1. UNCHANGED <<term, current, log, chosen, leads, applied, machine, saved, inbox, pending,
                      inFlightMutations, requests, replies>>
      BY <2>2, Zenon DEF vars, raftVars, machineVars, loopVars
    <3>2. LoopType' /\ WaitersFit' /\ LogType' /\ LeaderHoldsChosen'
      BY <3>1, StillRequests, Zenon DEF SessionsInv, LoopType, WaitersFit, LogType, LeaderHoldsChosen
    <3>. QED  BY <3>1, <3>2, StillStates, StillAnswers, InvOf, Zenon
  <2>. QED  BY <2>1, <2>2, Zenon
<1>. QED  BY <1>1, <1>2, PTL DEF Spec

\* The state of every Node is one that commands can lead to.
LEMMA MachinesOK ==
  ASSUME SessionsInv, NEW i \in Node
  PROVE  MachineOK(machine[i])
<1>1. applied[i] \in 0..Len(chosen) /\ machine[i] = StateAt(chosen, applied[i])
  BY Zenon DEF SessionsInv, StatesAreChosen
<1>2. HoldsRequests(chosen)
  BY LogsHoldRequests, Zenon DEF SessionsInv, LogType
<1>. QED  BY <1>1, <1>2, StatesOK, Zenon

\* The types of the loop's maps, and that nobody waits at a Node that does not lead.
LEMMA TypesFollow ==
  ASSUME SessionsInv
  PROVE  SessionsTypeOK
<1>1. /\ term \in Nat /\ current \in Node \cup {NoNode} /\ leads \in [Node -> BOOLEAN]
      /\ requests \subseteq Request /\ replies \subseteq Answer
      /\ log \in [Node -> Seq(Entry)] /\ applied \in [Node -> 0..Len(chosen)]
      /\ inbox \in [Node -> SUBSET requests]
      /\ pending \in [Node -> SUBSET [index : Nat \ {0}, command : requests]]
      /\ inFlightMutations \in [Node -> SUBSET [session : Session, sequence : Nat, index : Nat \ {0}]]
  BY Zenon DEF SessionsInv, LogType, LoopType, StatesAreChosen
<1>2. requests \subseteq Command /\ NoOp \in Command
  <2>1. \A c \in Request : c \in Command
    BY RequestFields
  <2>2. NoOp \in Command
    BY DEF Command, NoOp
  <2>. QED  BY <1>1, <2>1, <2>2, Zenon
<1>3. ASSUME NEW i \in Node
      PROVE  /\ \A k \in 1..Len(log[i]) : log[i][k] \in [term : Nat, command : Command]
             /\ applied[i] \in 0..Len(chosen)
             /\ machine[i].active \in Nat
             /\ inbox[i] \subseteq Command
             /\ pending[i] \subseteq [index : 1..Len(log[i]), command : Command]
             /\ inFlightMutations[i] \subseteq [session : Session, sequence : Nat, index : 1..Len(log[i])]
             /\ ~leads[i] => pending[i] = {} /\ inFlightMutations[i] = {}
  <2>1. log[i] \in Seq(Entry) /\ Len(log[i]) \in Nat
    BY <1>1
  <2>2. ASSUME NEW k \in 1..Len(log[i])  PROVE log[i][k] \in [term : Nat, command : Command]
    <3>1. log[i][k] \in Entry
      BY <2>1
    <3>. QED  BY <1>2, <3>1 DEF Entry
  <2>3. machine[i].active \in Nat
    <3>1. machine[i] \in [active : Nat, sessions : [Session -> Record], values : [Key -> Value \cup {NoValue}]]
      BY MachinesOK, Zenon DEF MachineOK
    <3>. QED  BY <3>1
  <2>4. \A p \in pending[i] \cup inFlightMutations[i] : p.index <= Len(log[i])
    BY Zenon DEF SessionsInv, WaitersFit, HoldsWaiters
  <2>5. ASSUME NEW p \in pending[i]  PROVE p \in [index : 1..Len(log[i]), command : Command]
    <3>1. p \in [index : Nat \ {0}, command : requests] /\ p.index <= Len(log[i])
      BY <1>1, <2>4, <2>5, Zenon
    <3>2. p.index \in 1..Len(log[i])
      BY <2>1, <3>1
    <3>. QED  BY <1>2, <3>1, <3>2
  <2>6. ASSUME NEW p \in inFlightMutations[i]
        PROVE  p \in [session : Session, sequence : Nat, index : 1..Len(log[i])]
    <3>1. p \in [session : Session, sequence : Nat, index : Nat \ {0}] /\ p.index <= Len(log[i])
      BY <1>1, <2>4, <2>6, Zenon
    <3>2. p.index \in 1..Len(log[i])
      BY <2>1, <3>1
    <3>. QED  BY <3>1, <3>2
  <2>7. applied[i] \in 0..Len(chosen) /\ inbox[i] \subseteq Command
    BY <1>1, <1>2, Zenon
  <2>8. ~leads[i] => pending[i] = {} /\ inFlightMutations[i] = {}
    BY Zenon DEF SessionsInv, WaitersFit
  <2>. QED  BY <2>2, <2>3, <2>5, <2>6, <2>7, <2>8, Zenon
<1>. QED  BY <1>1, <1>2, <1>3, Zenon DEF SessionsTypeOK

\* The requests, waiters and answers of the Raft loops keep their types, and the maps
\* are empty on a Node that does not lead.
THEOREM SessionsTypeCorrect == Spec => []SessionsTypeOK
<1>1. SessionsInv => SessionsTypeOK
  BY TypesFollow
<1>. QED  BY <1>1, SessionsInvariant, PTL

\* Exactly-once: a session and sequence take effect at most once in the committed log,
\* whatever Clients retry and however many Leaders propose it.
THEOREM MutationsTakeEffectOnce == Spec => []AtMostOnce
<1>1. SessionsInv => AtMostOnce
  <2>. SUFFICES ASSUME SessionsInv  PROVE AtMostOnce
    OBVIOUS
  <2>1. HoldsRequests(chosen)
    BY LogsHoldRequests, Zenon DEF SessionsInv, LogType
  <2>. QED  BY <2>1, OnceInLog, Zenon DEF AtMostOnce
<1>. QED  BY <1>1, SessionsInvariant, PTL

\* Applying entries, restoring Snapshots and restarting all lead to the state of the
\* committed prefix that the Node has applied.
THEOREM StatesAreReplicated == Spec => []ReplicasAgree
<1>1. SessionsInv => ReplicasAgree
  BY Zenon DEF SessionsInv, StatesAreChosen, ReplicasAgree
<1>. QED  BY <1>1, SessionsInvariant, PTL

\* The active counter is the number of open sessions on every Node, also after it was
\* counted again from a Snapshot, and stays within the limit.
THEOREM SessionsAreCounted == Spec => []ActiveIsCounted
<1>1. SessionsInv => ActiveIsCounted
  BY MachinesOK, Zenon DEF MachineOK, ActiveSessions, ActiveIsCounted
<1>. QED  BY <1>1, SessionsInvariant, PTL

\* All successful answers to one mutation agree, from whichever Leader, from the
\* application of its entry or from the result that the session keeps.
THEOREM RetriedAnswersAgree == Spec => []RetriesAgree
<1>1. SessionsInv => RetriesAgree
  <2>. SUFFICES ASSUME SessionsInv, NEW r \in replies, NEW q \in replies,
                       r.command = q.command,
                       r.failure = "Succeeded", q.failure = "Succeeded"
                PROVE  r.existed = q.existed
    BY Zenon DEF RetriesAgree
  <2>1. AnswerIsOf(chosen, r) /\ AnswerIsOf(chosen, q)
    BY Zenon DEF SessionsInv
  <2>2. CASE IsMutation(r.command)
    <3>1. PICK j \in EffectiveIn(chosen) :
            chosen[j].command = r.command /\ r.existed = ExistedAt(chosen, j)
      BY <2>1, <2>2, Zenon DEF AnswerIsOf
    <3>2. PICK k \in EffectiveIn(chosen) :
            chosen[k].command = q.command /\ q.existed = ExistedAt(chosen, k)
      BY <2>1, <2>2, Zenon DEF AnswerIsOf
    <3>3. HoldsRequests(chosen)
      BY LogsHoldRequests, Zenon DEF SessionsInv, LogType
    <3>4. chosen[j].command = chosen[k].command
      BY <3>1, <3>2, Zenon
    <3>5. j = k
      BY <3>3, <3>4, OnceInLog, Zenon
    <3>. QED  BY <3>1, <3>2, <3>5, Zenon
  <2>3. CASE ~IsMutation(r.command)
    BY <2>1, <2>3, Zenon DEF AnswerIsOf
  <2>. QED  BY <2>2, <2>3, Zenon
<1>. QED  BY <1>1, SessionsInvariant, PTL

\* Whoever is told success has a committed entry: the loop answers by index, and at the
\* index that a request waits for a Leader holds that request, until it leads no longer
\* and nobody waits.
THEOREM AnswersAreCommitted == Spec => []AcknowledgedIsCommitted
<1>1. SessionsInv => AcknowledgedIsCommitted
  <2>. SUFFICES ASSUME SessionsInv, NEW r \in replies, r.failure = "Succeeded"
                PROVE  \E k \in 1..Len(chosen) : chosen[k].command = r.command
    BY Zenon DEF AcknowledgedIsCommitted
  <2>1. AnswerIsOf(chosen, r)
    BY Zenon DEF SessionsInv
  <2>2. \A k \in EffectiveIn(chosen) : k \in 1..Len(chosen)
    BY Zenon DEF EffectiveIn
  <2>. QED  BY <2>1, <2>2, Zenon DEF AnswerIsOf
<1>. QED  BY <1>1, SessionsInvariant, PTL

=============================================================================
