---------------------------- MODULE ServiceProofs ----------------------------
(***************************************************************************)
(* The safety of Service for every number of Nodes, callers and operators,   *)
(* every queue capacity and every budget.  EveryWaiterIsServed rests on an   *)
(* inductive invariant that says what becomes of the requests nobody waits   *)
(* for any more: they may stay in a queue while their caller goes on, and    *)
(* must not be taken for a later request of the same caller.                *)
(***************************************************************************)
EXTENDS Service, TLAPS

-----------------------------------------------------------------------------
(* The invariant *)

\* A hint names a Node.
Told == {a \in Answer : a.kind = "hint" => a.leader \in Node}

Call == [node : Node \cup {NoNode}, at : {"none", "arrived", "enqueue", "wait"},
         done : BOOLEAN, result : Told, answer : Told]

Session == [at : {"idle", "ready", "calling", "pausing", "finished"},
            configured : 1..Len(Addresses), address : Node, attempt : 1..(MaxAttempts + 1),
            hints : 0..MaxHints,
            outcome : {"none", "closed", "exhausted", "final", "canceled"}]

OperatorCall == [at : {"idle", "enqueue", "wait", "finished"},
                 result : {"none", "ok", "error"}]

StateInv ==
  /\ node \in [Node -> Process]
  /\ \A n \in Node : Len(node[n].queue) <= QueueCap /\ node[n].errors <= ServeErrorsCap
  /\ rpc \in [Caller -> Call]
  /\ \A c \in Caller : rpc[c].at # "none" => rpc[c].node \in Node
  /\ caller \in [Caller -> Session]
  /\ \A c \in Caller : caller[c].at \in {"calling", "pausing"} => caller[c].attempt <= MaxAttempts
  /\ op \in [Operator -> OperatorCall]
  /\ leader \in Node \cup {NoNode}

Running(n) == node[n].goroutine["raft"] = "running"

\* Nobody enters a handler of n again.
Halted(n) == node[n].run \in {"waiting", "returned"}

\* The caller has given up, or will as soon as it looks at its answer.
GivenUp(c) ==
  \/ caller[c].at = "finished"
  \/ caller[c].at = "calling" /\ rpc[c].answer.kind = "canceled"

Once(q, x) == \A j, k \in 1..Len(q) : q[j] = x /\ q[k] = x => j = k

\* What the handler and its caller know of each other.
HandlerInv(c) ==
  /\ rpc[c].done => GivenUp(c) \/ \E n \in Node : rpc[c].node = n /\ Halted(n)
  /\ caller[c].at # "calling" \/ rpc[c].answer.kind # "none" => rpc[c].at = "none" \/ rpc[c].done
  /\ rpc[c].node # NoNode /\ (rpc[c].at = "none" \/ rpc[c].done) => rpc[c].answer.kind # "none"
  /\ rpc[c].at \in {"arrived", "enqueue"} => rpc[c].result.kind = "none"
  /\ \A n \in Node : Halted(n) /\ rpc[c].node = n => rpc[c].at \in {"none", "arrived"} \/ rpc[c].done

\* A request in the hands of a running loop is waited for, or its caller never
\* gets as far as another request to this Node.
RequestInv(n, c) ==
  Running(n) =>
    /\ c \in Range(node[n].queue) \/ c \in node[n].pending
         => ~CtxDone(n, c) \/ GivenUp(c) \/ Halted(n)
    /\ ~CtxDone(n, c) =>
         /\ ExactlyOne(c \in Range(node[n].queue), c \in node[n].pending,
                       rpc[c].result.kind # "none")
         /\ Once(node[n].queue, c)

OperatorInv(n, o) ==
  /\ o \in Range(node[n].queue) \/ o \in node[n].waiters =>
       Home[o] = n /\ op[o].at \in {"wait", "finished"}
  /\ op[o].at \in {"idle", "enqueue"} => op[o].result = "none"
  /\ Running(n) /\ Home[o] = n /\ op[o].at = "wait" =>
       /\ ExactlyOne(o \in Range(node[n].queue), o \in node[n].waiters, op[o].result # "none")
       /\ Once(node[n].queue, o)

ServiceInv ==
  /\ StateInv
  /\ ClosedHoldsNoConnection
  /\ \A c \in Caller : HandlerInv(c)
  /\ \A n \in Node, c \in Caller : RequestInv(n, c)
  /\ \A n \in Node, o \in Operator : OperatorInv(n, o)

-----------------------------------------------------------------------------
(* Queues *)

\* A sequence that is not empty.
LEMMA LongerThanZero ==
  ASSUME NEW S, NEW s \in Seq(S), s # <<>>
  PROVE  Len(s) \in Nat \ {0}
  OBVIOUS

\* A request that joins the queue.
LEMMA QueueAppend ==
  ASSUME NEW S, NEW q \in Seq(S), NEW x \in S
  PROVE  /\ Append(q, x) \in Seq(S)
         /\ Len(Append(q, x)) = Len(q) + 1
         /\ Range(Append(q, x)) = Range(q) \cup {x}
         /\ \A y : y # x /\ Once(q, y) => Once(Append(q, x), y)
         /\ x \notin Range(q) => Once(Append(q, x), x)
<1>. DEFINE a == Append(q, x)
<1>1. /\ a \in Seq(S)
      /\ Len(a) = Len(q) + 1
      /\ DOMAIN a = 1..Len(a) /\ DOMAIN q = 1..Len(q)
      /\ \A k \in 1..Len(q) : a[k] = q[k]
      /\ a[Len(q) + 1] = x
      /\ Len(q) \in Nat
  OBVIOUS
<1>2. Range(a) = Range(q) \cup {x}
  BY <1>1 DEF Range
<1>3. ASSUME NEW y, y # x, Once(q, y)
      PROVE  Once(a, y)
  BY <1>1, <1>3 DEF Once
<1>4. ASSUME x \notin Range(q)
      PROVE  Once(a, x)
  BY <1>1, <1>4 DEF Once, Range
<1>. QED  BY <1>1, <1>2, <1>3, <1>4

\* A loop that takes the first one.
LEMMA QueueTail ==
  ASSUME NEW S, NEW q \in Seq(S), q # <<>>
  PROVE  /\ Tail(q) \in Seq(S)
         /\ Len(Tail(q)) <= Len(q)
         /\ Head(q) \in S
         /\ Head(q) \in Range(q)
         /\ Range(Tail(q)) \subseteq Range(q)
         /\ \A y \in Range(q) : y # Head(q) => y \in Range(Tail(q))
         /\ \A y : Once(q, y) => Once(Tail(q), y)
         /\ Once(q, Head(q)) => Head(q) \notin Range(Tail(q))
<1>. DEFINE t == Tail(q)
<1>1. /\ t \in Seq(S)
      /\ Len(q) \in Nat \ {0}
      /\ Len(t) = Len(q) - 1
      /\ DOMAIN t = 1..Len(t) /\ DOMAIN q = 1..Len(q)
      /\ \A k \in 1..Len(t) : t[k] = q[k + 1]
      /\ Head(q) = q[1]
      /\ Head(q) \in S
  BY LongerThanZero, SMT
<1>2. Head(q) \in Range(q) /\ Range(t) \subseteq Range(q)
  BY <1>1 DEF Range
<1>3. ASSUME NEW y \in Range(q), y # Head(q)
      PROVE  y \in Range(t)
  <2>1. PICK k \in 1..Len(q) : y = q[k]
    BY <1>1 DEF Range
  <2>2. k - 1 \in 1..Len(t) /\ t[k - 1] = y
    BY <1>1, <1>3, <2>1
  <2>. QED  BY <1>1, <2>2, Zenon DEF Range
<1>4. ASSUME NEW y, Once(q, y)
      PROVE  Once(t, y)
  <2>1. SUFFICES ASSUME NEW j \in 1..Len(t), NEW k \in 1..Len(t), t[j] = y, t[k] = y
                 PROVE  j = k
    BY Zenon DEF Once
  <2>2. j + 1 \in 1..Len(q) /\ k + 1 \in 1..Len(q) /\ q[j + 1] = y /\ q[k + 1] = y
    BY <1>1, <2>1
  <2>3. j + 1 = k + 1
    BY <1>4, <2>2 DEF Once
  <2>. QED  BY <2>3
<1>5. ASSUME Once(q, Head(q)), Head(q) \in Range(t)
      PROVE  FALSE
  <2>1. PICK k \in 1..Len(t) : Head(q) = t[k]
    BY <1>1, <1>5 DEF Range
  <2>2. k + 1 \in 1..Len(q) /\ 1 \in 1..Len(q) /\ q[k + 1] = q[1]
    BY <1>1, <2>1
  <2>3. k + 1 = 1
    BY <1>1, <1>5, <2>2 DEF Once
  <2>. QED  BY <2>3
<1>6. Len(t) <= Len(q)
  BY <1>1
<1>. QED  BY <1>1, <1>2, <1>3, <1>4, <1>5, <1>6, Zenon

-----------------------------------------------------------------------------
(* Calls *)

\* The answers without a hint.
LEMMA BareIsTold ==
  ASSUME NEW kind \in {"none", "final", "unavailable", "canceled"}
  PROVE  Bare(kind) \in Told /\ Bare(kind).kind = kind
  BY DEF Bare, Told, Answer

\* A rejection is an answer, and it hints at a Node if at anyone.
LEMMA NotLeaderIsTold ==
  ASSUME NEW m \in Node \cup {NoNode}
  PROVE  NotLeader(m) \in Told /\ NotLeader(m).kind \in {"hint", "unavailable"}
  BY ServiceAssumption DEF NotLeader, Bare, Told, Answer

\* A new call.
LEMMA CallingIsCall ==
  ASSUME NEW n \in Node
  PROVE  /\ Calling(n) \in Call
         /\ Calling(n).node = n
         /\ Calling(n).at = "arrived"
         /\ Calling(n).done = FALSE
         /\ Calling(n).result.kind = "none"
         /\ Calling(n).answer.kind = "none"
  BY BareIsTold, Zenon DEF Calling, Idle, Call

\* A call that ends under its handler.
LEMMA AbortedIsCall ==
  ASSUME NEW r \in Call, NEW a \in Told
  PROVE  /\ Aborted(r, a) \in Call
         /\ Aborted(r, a).node = r.node
         /\ Aborted(r, a).at = r.at
         /\ Aborted(r, a).done = TRUE
         /\ Aborted(r, a).result = r.result
         /\ Aborted(r, a).answer = IF r.done THEN r.answer ELSE a
  BY Zenon DEF Aborted, Call

\* A handler that returns.
LEMMA AnsweredIsCall ==
  ASSUME NEW r \in Call, NEW a \in Told
  PROVE  /\ Answered(r, a) \in Call
         /\ Answered(r, a).node = r.node
         /\ Answered(r, a).at = "none"
         /\ Answered(r, a).done = r.done
         /\ Answered(r, a).result = r.result
         /\ Answered(r, a).answer = IF r.done THEN r.answer ELSE a
  BY Zenon DEF Answered, Call

-----------------------------------------------------------------------------
(* Steps that leave the requests where they are *)

\* A request stays accounted for when its queue and its loop stay, and its handler
\* stays or its caller is done with it.
LEMMA RequestKept ==
  ASSUME NEW n \in Node, NEW c \in Caller, RequestInv(n, c),
         Running(n)' => Running(n),
         node'[n].queue = node[n].queue,
         node'[n].pending = node[n].pending,
         Halted(n) => Halted(n)',
         GivenUp(c) => GivenUp(c)',
         ~CtxDone(n, c) /\ Running(n)' /\ rpc[c].result.kind = "none"
           => ~CtxDone(n, c)' \/ GivenUp(c)' \/ Halted(n)',
         ~CtxDone(n, c)' => ~CtxDone(n, c) /\ rpc'[c].result = rpc[c].result
  PROVE  RequestInv(n, c)'
  BY DEF RequestInv, ExactlyOne

\* A waiting CreateSnapshot stays accounted for as its queue and the waiters stay.
LEMMA OperatorKept ==
  ASSUME NEW n \in Node, NEW o \in Operator, OperatorInv(n, o),
         Running(n)' => Running(n),
         node'[n].queue = node[n].queue,
         node'[n].waiters = node[n].waiters,
         op'[o] = op[o]
  PROVE  OperatorInv(n, o)'
  BY DEF OperatorInv

\* The same when other requests join or leave the queue.
LEMMA RequestPassed ==
  ASSUME NEW n \in Node, NEW c \in Caller, RequestInv(n, c),
         Running(n)' => Running(n),
         Halted(n) => Halted(n)',
         GivenUp(c) => GivenUp(c)',
         CtxDone(n, c)' <=> CtxDone(n, c),
         rpc'[c].result = rpc[c].result,
         c \in Range(node'[n].queue) <=> c \in Range(node[n].queue),
         Once(node[n].queue, c) => Once(node'[n].queue, c),
         c \in node'[n].pending => c \in node[n].pending,
         ~CtxDone(n, c) /\ c \in node[n].pending => c \in node'[n].pending
  PROVE  RequestInv(n, c)'
<1>1. ASSUME Running(n)', c \in Range(node'[n].queue) \/ c \in node'[n].pending
      PROVE  ~CtxDone(n, c)' \/ GivenUp(c)' \/ Halted(n)'
  BY <1>1, Zenon DEF RequestInv
<1>2. ASSUME Running(n)', ~CtxDone(n, c)'
      PROVE  /\ ExactlyOne(c \in Range(node'[n].queue), c \in node'[n].pending,
                           rpc'[c].result.kind # "none")
             /\ Once(node'[n].queue, c)
  <2>1. /\ ExactlyOne(c \in Range(node[n].queue), c \in node[n].pending,
                      rpc[c].result.kind # "none")
        /\ Once(node[n].queue, c)
    BY <1>2, Zenon DEF RequestInv
  <2>. QED  BY <1>2, <2>1, Zenon DEF ExactlyOne
<1>. QED  BY <1>1, <1>2, Zenon DEF RequestInv

\* And for a CreateSnapshot.
LEMMA OperatorPassed ==
  ASSUME NEW n \in Node, NEW o \in Operator, OperatorInv(n, o),
         Running(n)' => Running(n),
         o \in Range(node'[n].queue) <=> o \in Range(node[n].queue),
         Once(node[n].queue, o) => Once(node'[n].queue, o),
         o \in node'[n].waiters <=> o \in node[n].waiters,
         op'[o] = op[o]
  PROVE  OperatorInv(n, o)'
<1>1. ASSUME Running(n)', Home[o] = n, op[o].at = "wait"
      PROVE  /\ ExactlyOne(o \in Range(node'[n].queue), o \in node'[n].waiters, op'[o].result # "none")
             /\ Once(node'[n].queue, o)
  <2>1. /\ ExactlyOne(o \in Range(node[n].queue), o \in node[n].waiters, op[o].result # "none")
        /\ Once(node[n].queue, o)
    BY <1>1, Zenon DEF OperatorInv
  <2>. QED  BY <2>1, Zenon DEF ExactlyOne
<1>. QED  BY <1>1, Zenon DEF OperatorInv

-----------------------------------------------------------------------------
(* The Client *)

\* A step of the callers that keeps the types, the calls' handlers and the
\* Client's connections preserves the rest.
LEMMA ClientFrame ==
  ASSUME ServiceInv, UNCHANGED runtimeVars,
         rpc' \in [Caller -> Call],
         caller' \in [Caller -> Session],
         ClosedHoldsNoConnection',
         \A d \in Caller :
           /\ rpc'[d].at # "none" => rpc'[d].node \in Node
           /\ caller'[d].at \in {"calling", "pausing"} => caller'[d].attempt <= MaxAttempts
           /\ HandlerInv(d)'
           /\ GivenUp(d) => GivenUp(d)'
           /\ \A n \in Node : /\ ~CtxDone(n, d) /\ Running(n) /\ rpc[d].result.kind = "none"
                                   => ~CtxDone(n, d)' \/ GivenUp(d)'
                              /\ ~CtxDone(n, d)' => ~CtxDone(n, d) /\ rpc'[d].result = rpc[d].result
  PROVE  ServiceInv'
<1>. USE DEF ServiceInv, runtimeVars
<1>1. StateInv'
  BY DEF StateInv
<1>2. ASSUME NEW n \in Node, NEW d \in Caller
      PROVE  RequestInv(n, d)'
  BY RequestKept DEF Running, Halted
<1>3. ASSUME NEW n \in Node, NEW o \in Operator
      PROVE  OperatorInv(n, o)'
  BY OperatorKept, Zenon DEF Running
<1>. QED  BY <1>1, <1>2, <1>3

\* The same for one caller, whose call does not change.
LEMMA CallerFrame ==
  ASSUME ServiceInv, UNCHANGED <<runtimeVars, rpc>>, ClosedHoldsNoConnection',
         NEW c \in Caller, NEW s \in Session,
         caller' = [caller EXCEPT ![c] = s],
         s.at \in {"calling", "pausing"} => s.attempt <= MaxAttempts,
         s.at = "finished" \/ ~GivenUp(c),
         s.at # "calling" => rpc[c].at = "none" \/ rpc[c].done
  PROVE  ServiceInv'
<1>1. /\ caller' \in [Caller -> Session]
      /\ rpc' = rpc
      /\ caller'[c] = s
      /\ \A d \in Caller \ {c} : caller'[d] = caller[d]
  BY DEF ServiceInv, StateInv
<1>2. ASSUME NEW d \in Caller
      PROVE  /\ rpc'[d].at # "none" => rpc'[d].node \in Node
             /\ caller'[d].at \in {"calling", "pausing"} => caller'[d].attempt <= MaxAttempts
  BY <1>1 DEF ServiceInv, StateInv
<1>3. ASSUME NEW d \in Caller
      PROVE  GivenUp(d) => GivenUp(d)'
  BY <1>1 DEF GivenUp
<1>4. ASSUME NEW d \in Caller
      PROVE  HandlerInv(d)'
  BY <1>1, <1>3 DEF ServiceInv, HandlerInv, Halted, runtimeVars
<1>5. ASSUME NEW n \in Node, NEW d \in Caller
      PROVE  CtxDone(n, d)' <=> CtxDone(n, d)
  BY <1>1, Zenon DEF CtxDone
<1>. QED  BY <1>1, <1>2, <1>3, <1>4, <1>5, ClientFrame DEF ServiceInv, StateInv

\* A command begins.
LEMMA StartPreserves ==
  ASSUME ServiceInv, NEW c \in Caller, Start(c), UNCHANGED runtimeVars
  PROVE  ServiceInv'
<1>. DEFINE s == [caller[c] EXCEPT !.at = "ready"]
<1>1. caller[c] \in Session /\ caller[c].at = "idle"
  BY DEF ServiceInv, StateInv, Start
<1>2. s \in Session /\ s.at = "ready" /\ caller' = [caller EXCEPT ![c] = s]
  BY <1>1 DEF Session, Start
<1>3. ~GivenUp(c)
  BY <1>1 DEF GivenUp
<1>4. rpc[c].at = "none" \/ rpc[c].done
  BY <1>1 DEF ServiceInv, HandlerInv
<1>5. ClosedHoldsNoConnection'
  BY DEF ServiceInv, ClosedHoldsNoConnection, Start
<1>. QED  BY <1>2, <1>3, <1>4, <1>5, CallerFrame, Zenon DEF Start

\* A caller returns.
LEMMA FinishPreserves ==
  ASSUME ServiceInv, UNCHANGED <<runtimeVars, rpc, connections, closed>>,
         NEW c \in Caller, NEW outcome \in {"closed", "exhausted", "final", "canceled"},
         Finish(c, outcome),
         rpc[c].at = "none" \/ rpc[c].done
  PROVE  ServiceInv'
<1>. DEFINE s == [caller[c] EXCEPT !.at = "finished", !.outcome = outcome]
<1>1. caller[c] \in Session
  BY DEF ServiceInv, StateInv
<1>2. s \in Session /\ s.at = "finished" /\ caller' = [caller EXCEPT ![c] = s]
  BY <1>1, Zenon DEF Session, Finish
<1>3. ClosedHoldsNoConnection'
  BY DEF ServiceInv, ClosedHoldsNoConnection
<1>. QED  BY <1>2, <1>3, CallerFrame, Zenon

\* A caller dials: it is done with its previous call, whose request may still be
\* in the queue of a Node that has stopped.
LEMMA DialPreserves ==
  ASSUME ServiceInv, UNCHANGED <<runtimeVars, closed>>, NEW c \in Caller,
         caller[c].at = "ready", caller[c].attempt <= MaxAttempts, Dial(c)
  PROVE  ServiceInv'
<1>1. /\ caller[c] \in Session
      /\ caller[c].address \in Node
      /\ caller \in [Caller -> Session] /\ rpc \in [Caller -> Call]
      /\ rpc[c].at = "none" \/ rpc[c].done
  BY DEF ServiceInv, StateInv, Session, HandlerInv
<1>2. CASE closed
  BY <1>1, <1>2, FinishPreserves DEF Dial
<1>3. CASE ~closed
  <2>. DEFINE s == [caller[c] EXCEPT !.at = "calling"]
              r == Calling(caller[c].address)
  <2>1. /\ s \in Session /\ s.at = "calling" /\ s.attempt <= MaxAttempts
        /\ caller' = [caller EXCEPT ![c] = s]
        /\ rpc' = [rpc EXCEPT ![c] = r]
        /\ ClosedHoldsNoConnection'
    BY <1>1, <1>3, Zenon DEF Session, Dial, ClosedHoldsNoConnection
  <2>2. /\ r \in Call /\ r.node \in Node /\ r.at = "arrived" /\ r.done = FALSE
        /\ r.result.kind = "none" /\ r.answer.kind = "none"
    BY <1>1, CallingIsCall, Zenon
  <2>. HIDE DEF s, r
  <2>3. /\ caller' \in [Caller -> Session] /\ rpc' \in [Caller -> Call]
        /\ caller'[c] = s /\ rpc'[c] = r
        /\ \A d \in Caller \ {c} : caller'[d] = caller[d] /\ rpc'[d] = rpc[d]
    BY <1>1, <2>1, <2>2
  <2>4. ASSUME NEW d \in Caller
        PROVE  /\ rpc'[d].at # "none" => rpc'[d].node \in Node
               /\ caller'[d].at \in {"calling", "pausing"} => caller'[d].attempt <= MaxAttempts
    BY <2>1, <2>2, <2>3 DEF ServiceInv, StateInv
  <2>5. ASSUME NEW d \in Caller
        PROVE  GivenUp(d) => GivenUp(d)'
    BY <2>3 DEF GivenUp
  <2>6. ASSUME NEW d \in Caller
        PROVE  HandlerInv(d)'
    <3>1. CASE d = c
      BY <2>1, <2>2, <2>3, <3>1, ServiceAssumption, Zenon DEF HandlerInv
    <3>2. CASE d # c
      BY <2>3, <2>5, <3>2 DEF ServiceInv, HandlerInv, Halted, runtimeVars
    <3>. QED  BY <3>1, <3>2
  <2>7. ASSUME NEW n \in Node, NEW d \in Caller
        PROVE  /\ CtxDone(n, d)' <=> CtxDone(n, d)
               /\ ~CtxDone(n, d) => rpc'[d].result = rpc[d].result
    BY <1>1, <2>2, <2>3, Zenon DEF CtxDone
  <2>. QED  BY <2>1, <2>3, <2>4, <2>5, <2>6, <2>7, ClientFrame
<1>. QED  BY <1>2, <1>3

\* One iteration of a caller up to the call.
LEMMA AttemptPreserves ==
  ASSUME ServiceInv, NEW c \in Caller, Attempt(c), UNCHANGED runtimeVars
  PROVE  ServiceInv'
<1>1. caller[c].at = "ready" /\ UNCHANGED closed
  BY Zenon DEF Attempt
<1>2. rpc[c].at = "none" \/ rpc[c].done
  BY <1>1, Zenon DEF ServiceInv, HandlerInv
<1>3. CASE caller[c].attempt <= MaxAttempts /\ Dial(c)
  BY <1>1, <1>3, DialPreserves, Zenon
<1>4. CASE Finish(c, "exhausted") /\ UNCHANGED <<connections, rpc>>
  BY <1>1, <1>2, <1>4, FinishPreserves
<1>. QED  BY <1>3, <1>4, Zenon DEF Attempt

\* A caller follows a hint, goes on to the next configured Node, or returns.
LEMMA TakeAnswerPreserves ==
  ASSUME ServiceInv, NEW c \in Caller, TakeAnswer(c), UNCHANGED runtimeVars
  PROVE  ServiceInv'
<1>1. /\ caller[c] \in Session /\ caller[c].at = "calling"
      /\ caller[c].attempt <= MaxAttempts
      /\ rpc[c] \in Call
      /\ UNCHANGED <<connections, closed, rpc>>
  BY DEF ServiceInv, StateInv, TakeAnswer
<1>2. rpc[c].answer.kind # "none" => rpc[c].at = "none" \/ rpc[c].done
  BY DEF ServiceInv, HandlerInv
<1>3. ClosedHoldsNoConnection'
  BY <1>1 DEF ServiceInv, ClosedHoldsNoConnection
<1>4. CASE FollowHint(c)
  <2>. DEFINE s == [caller[c] EXCEPT !.at = "ready", !.address = rpc[c].answer.leader,
                                     !.hints = @ + 1, !.attempt = @ + 1]
  <2>1. rpc[c].answer.kind = "hint" /\ rpc[c].answer.leader \in Node
    BY <1>1, <1>4 DEF FollowHint, Call, Told
  <2>2. caller[c].hints + 1 \in 0..MaxHints /\ caller[c].attempt + 1 \in 1..(MaxAttempts + 1)
    BY <1>1, <1>4, ServiceAssumption, SMTT(30) DEF FollowHint, Session
  <2>3. s \in Session /\ s.at = "ready" /\ caller' = [caller EXCEPT ![c] = s]
    BY <1>1, <1>4, <2>1, <2>2, Zenon DEF FollowHint, Session
  <2>4. ~GivenUp(c)
    BY <1>1, <2>1 DEF GivenUp
  <2>. HIDE DEF s
  <2>. QED  BY <1>1, <1>2, <1>3, <2>1, <2>3, <2>4, CallerFrame, Zenon
<1>5. CASE FallBack(c)
  <2>. DEFINE next == NextConfigured(caller[c].configured)
              s == [caller[c] EXCEPT !.at = "pausing", !.hints = 0,
                                     !.configured = next, !.address = Addresses[next]]
  <2>1. rpc[c].answer.kind \in {"hint", "unavailable"}
    BY <1>5 DEF FallBack
  <2>2. next \in 1..Len(Addresses)
    <3>1. Len(Addresses) \in Nat \ {0}
      BY ServiceAssumption, LongerThanZero
    <3>2. caller[c].configured \in Nat
      BY <1>1, <3>1 DEF Session
    <3>. QED  BY <3>1, <3>2 DEF NextConfigured
  <2>3. Addresses[next] \in Node
    BY <2>2, ServiceAssumption
  <2>4. s \in Session /\ s.at = "pausing" /\ s.attempt <= MaxAttempts
        /\ caller' = [caller EXCEPT ![c] = s]
    <3>. HIDE DEF next
    <3>1. 0 \in 0..MaxHints
      BY ServiceAssumption
    <3>2. s \in Session /\ s.at = "pausing" /\ s.attempt <= MaxAttempts
      BY <1>1, <2>2, <2>3, <3>1, Zenon DEF Session
    <3>. QED  BY <3>2, <1>5, Zenon DEF FallBack, next
  <2>5. ~GivenUp(c)
    BY <1>1, <2>1 DEF GivenUp
  <2>. HIDE DEF s
  <2>. QED  BY <1>1, <1>2, <1>3, <2>1, <2>4, <2>5, CallerFrame, Zenon
<1>6. CASE rpc[c].answer.kind \in {"final", "canceled"} /\ Finish(c, rpc[c].answer.kind)
  BY <1>1, <1>2, <1>6, FinishPreserves, Zenon
<1>. QED  BY <1>4, <1>5, <1>6 DEF TakeAnswer

\* A caller tries again after a pause.
LEMMA EndPausePreserves ==
  ASSUME ServiceInv, NEW c \in Caller, EndPause(c), UNCHANGED runtimeVars
  PROVE  ServiceInv'
<1>. DEFINE s == [caller[c] EXCEPT !.at = "ready", !.attempt = @ + 1]
<1>1. caller[c] \in Session /\ caller[c].at = "pausing" /\ caller[c].attempt <= MaxAttempts
  BY DEF ServiceInv, StateInv, EndPause
<1>2. caller[c].attempt + 1 \in 1..(MaxAttempts + 1)
  BY <1>1, ServiceAssumption DEF Session
<1>3. s \in Session /\ s.at = "ready" /\ caller' = [caller EXCEPT ![c] = s]
  BY <1>1, <1>2, Zenon DEF Session, EndPause
<1>4. ~GivenUp(c)
  BY <1>1 DEF GivenUp
<1>5. rpc[c].at = "none" \/ rpc[c].done
  BY <1>1 DEF ServiceInv, HandlerInv
<1>6. ClosedHoldsNoConnection'
  BY Zenon DEF ServiceInv, ClosedHoldsNoConnection, EndPause
<1>. QED  BY <1>3, <1>4, <1>5, <1>6, CallerFrame, Zenon DEF EndPause

\* Calls that are canceled, by the end of a context or of the Client: each has a
\* caller that will return.
LEMMA CancelPreserves ==
  ASSUME ServiceInv, UNCHANGED <<runtimeVars, caller>>, ClosedHoldsNoConnection',
         NEW C \in SUBSET Caller,
         rpc' = [c \in Caller |->
                   IF c \in C /\ InFlight(c) THEN Aborted(rpc[c], Bare("canceled")) ELSE rpc[c]]
  PROVE  ServiceInv'
<1>1. caller \in [Caller -> Session] /\ rpc \in [Caller -> Call] /\ Bare("canceled") \in Told
      /\ Bare("canceled").kind = "canceled"
  BY BareIsTold, Zenon DEF ServiceInv, StateInv
<1>2. ASSUME NEW d \in Caller, InFlight(d)
      PROVE  rpc[d].at # "none" /\ ~rpc[d].done /\ caller[d].at = "calling"
  BY <1>2, Zenon DEF InFlight, ServiceInv, HandlerInv
<1>3. ASSUME NEW d \in Caller, rpc'[d] # rpc[d]
      PROVE  /\ rpc'[d] \in Call
             /\ rpc'[d].node = rpc[d].node
             /\ rpc'[d].at = rpc[d].at
             /\ rpc'[d].result = rpc[d].result
             /\ rpc'[d].done
             /\ rpc'[d].answer.kind = "canceled"
             /\ rpc[d].answer.kind = "none"
             /\ GivenUp(d)'
  <2>1. InFlight(d) /\ rpc'[d] = Aborted(rpc[d], Bare("canceled"))
    BY <1>3
  <2>2. caller'[d].at = "calling" /\ rpc[d].done = FALSE
    BY <1>1, <1>2, <2>1, Zenon DEF Call
  <2>3. /\ rpc'[d] \in Call
        /\ rpc'[d].node = rpc[d].node
        /\ rpc'[d].at = rpc[d].at
        /\ rpc'[d].result = rpc[d].result
        /\ rpc'[d].done = TRUE
        /\ rpc'[d].answer = Bare("canceled")
    <3>. DEFINE a == Bare("canceled")
    <3>1. rpc[d] \in Call /\ a \in Told /\ rpc'[d] = Aborted(rpc[d], a)
      BY <1>1, <2>1
    <3>. HIDE DEF a
    <3>0. /\ Aborted(rpc[d], a) \in Call
          /\ Aborted(rpc[d], a).node = rpc[d].node
          /\ Aborted(rpc[d], a).at = rpc[d].at
          /\ Aborted(rpc[d], a).result = rpc[d].result
          /\ Aborted(rpc[d], a).done = TRUE
          /\ Aborted(rpc[d], a).answer = IF rpc[d].done THEN rpc[d].answer ELSE a
      BY <3>1, AbortedIsCall, ZenonT(40)
    <3>2. /\ rpc'[d] \in Call
          /\ rpc'[d].node = rpc[d].node
          /\ rpc'[d].at = rpc[d].at
          /\ rpc'[d].result = rpc[d].result
          /\ rpc'[d].done = TRUE
          /\ rpc'[d].answer = IF rpc[d].done THEN rpc[d].answer ELSE a
      BY <3>1, <3>0, Zenon
    <3>3. rpc'[d].answer = a
      BY <2>2, <3>2, Zenon
    <3>. QED  BY <3>2, <3>3 DEF a
  <2>. QED  BY <1>1, <2>1, <2>2, <2>3, Zenon DEF InFlight, GivenUp
<1>4. rpc' \in [Caller -> Call]
  <2>1. \A d \in Caller : rpc'[d] \in Call
    BY <1>1, <1>3
  <2>. QED  BY <2>1
<1>5. ASSUME NEW d \in Caller
      PROVE  GivenUp(d) => GivenUp(d)'
  BY <1>3, Zenon DEF GivenUp
<1>6. ASSUME NEW d \in Caller
      PROVE  HandlerInv(d)'
  BY <1>3, <1>5 DEF ServiceInv, HandlerInv, Halted, runtimeVars
<1>7. ASSUME NEW n \in Node, NEW d \in Caller
      PROVE  /\ ~CtxDone(n, d) => ~CtxDone(n, d)' \/ GivenUp(d)'
             /\ ~CtxDone(n, d)' => ~CtxDone(n, d) /\ rpc'[d].result = rpc[d].result
  BY <1>3, Zenon DEF CtxDone
<1>8. ASSUME NEW d \in Caller
      PROVE  /\ rpc'[d].at # "none" => rpc'[d].node \in Node
             /\ caller'[d].at \in {"calling", "pausing"} => caller'[d].attempt <= MaxAttempts
  BY <1>3 DEF ServiceInv, StateInv
<1>. QED  BY <1>1, <1>4, <1>5, <1>6, <1>7, <1>8, ClientFrame, Zenon

\* The context of a caller ends, in a call or in a pause.
LEMMA ExpirePreserves ==
  ASSUME ServiceInv, NEW c \in Caller, Expire(c), UNCHANGED runtimeVars
  PROVE  ServiceInv'
<1>1. UNCHANGED <<connections, closed>> /\ rpc \in [Caller -> Call] /\ ClosedHoldsNoConnection'
  BY DEF Expire, ServiceInv, StateInv, ClosedHoldsNoConnection
<1>2. CASE InFlight(c) /\ UNCHANGED caller
           /\ rpc' = [rpc EXCEPT ![c] = Aborted(rpc[c], Bare("canceled"))]
  <2>. DEFINE C == {c}
  <2>1. /\ C \in SUBSET Caller
        /\ rpc' = [d \in Caller |-> IF d \in C /\ InFlight(d)
                                      THEN Aborted(rpc[d], Bare("canceled")) ELSE rpc[d]]
    BY <1>1, <1>2, Zenon
  <2>. HIDE DEF C
  <2>. QED  BY <1>1, <1>2, <2>1, CancelPreserves, Zenon
<1>3. CASE caller[c].at = "pausing" /\ Finish(c, "canceled") /\ UNCHANGED rpc
  <2>1. rpc[c].at = "none" \/ rpc[c].done
    BY <1>3 DEF ServiceInv, HandlerInv
  <2>. QED  BY <1>1, <1>3, <2>1, FinishPreserves
<1>. QED  BY <1>2, <1>3, Zenon DEF Expire

\* The Client is closed under its callers.
LEMMA ClosePreserves ==
  ASSUME ServiceInv, Close, UNCHANGED runtimeVars
  PROVE  ServiceInv'
<1>1. ClosedHoldsNoConnection'
  BY DEF Close, ClosedHoldsNoConnection
<1>2. rpc' = [d \in Caller |-> IF d \in Caller /\ InFlight(d)
                                 THEN Aborted(rpc[d], Bare("canceled")) ELSE rpc[d]]
  BY DEF Close
<1>. QED  BY <1>1, <1>2, CancelPreserves DEF Close

\* Every step of the Client preserves the invariant.
LEMMA ClientPreserves ==
  ASSUME ServiceInv, ClientNext, UNCHANGED runtimeVars
  PROVE  ServiceInv'
  BY StartPreserves, AttemptPreserves, TakeAnswerPreserves, EndPausePreserves,
     ExpirePreserves, ClosePreserves, Zenon DEF ClientNext, ClientStep

-----------------------------------------------------------------------------
(* The client handlers *)

\* A handler moves on to the queue.
LEMMA HandlePreserves ==
  ASSUME ServiceInv, UNCHANGED <<clientVars, runtimeVars>>, NEW c \in Caller,
         rpc[c].at = "arrived", rpc[c].node \in Node, ~Halted(rpc[c].node), Handle(c, "enqueue")
  PROVE  ServiceInv'
<1>. DEFINE r == [rpc[c] EXCEPT !.at = "enqueue"]
<1>1. rpc \in [Caller -> Call] /\ caller \in [Caller -> Session] /\ rpc[c] \in Call
  BY DEF ServiceInv, StateInv
<1>2. /\ r \in Call /\ r.at = "enqueue" /\ r.node = rpc[c].node /\ r.done = rpc[c].done
      /\ r.result = rpc[c].result /\ r.answer = rpc[c].answer
      /\ rpc' = [rpc EXCEPT ![c] = r]
  BY <1>1 DEF Call, Handle
<1>. HIDE DEF r
<1>3. /\ rpc' \in [Caller -> Call] /\ rpc'[c] = r
      /\ \A d \in Caller \ {c} : rpc'[d] = rpc[d]
  BY <1>1, <1>2
<1>4. UNCHANGED <<caller, connections, closed, node>>
  BY DEF clientVars, runtimeVars
<1>5. ASSUME NEW d \in Caller
      PROVE  /\ rpc'[d].at # "none" => rpc'[d].node \in Node
             /\ caller'[d].at \in {"calling", "pausing"} => caller'[d].attempt <= MaxAttempts
  BY <1>2, <1>3, <1>4 DEF ServiceInv, StateInv
<1>6. ASSUME NEW d \in Caller
      PROVE  GivenUp(d)' <=> GivenUp(d)
  BY <1>2, <1>3, <1>4 DEF GivenUp
<1>7. ASSUME NEW d \in Caller
      PROVE  HandlerInv(d)'
  <2>1. CASE d = c
    BY <1>2, <1>3, <1>4, <1>6, <2>1, SMTT(30) DEF ServiceInv, HandlerInv, Halted
  <2>2. CASE d # c
    BY <1>3, <1>4, <1>6, <2>2 DEF ServiceInv, HandlerInv, Halted
  <2>. QED  BY <2>1, <2>2, Zenon
<1>8. ASSUME NEW n \in Node, NEW d \in Caller
      PROVE  /\ CtxDone(n, d)' <=> CtxDone(n, d)
             /\ rpc'[d].result = rpc[d].result
  BY <1>2, <1>3, Zenon DEF CtxDone
<1>9. ClosedHoldsNoConnection'
  BY <1>4, Zenon DEF ServiceInv, ClosedHoldsNoConnection
<1>. QED  BY <1>1, <1>3, <1>4, <1>5, <1>6, <1>7, <1>8, <1>9, ClientFrame

\* A handler returns: it does not leave a request behind with a running loop,
\* unless its caller has gone.
LEMMA ReturnPreserves ==
  ASSUME ServiceInv, UNCHANGED <<clientVars, runtimeVars>>, NEW c \in Caller,
         NEW a \in Told, a.kind # "none", rpc[c].at # "none", Return(c, a),
         \A n \in Node : ~CtxDone(n, c) /\ Running(n) => rpc[c].result.kind # "none"
  PROVE  ServiceInv'
<1>. DEFINE r == Answered(rpc[c], a)
<1>1. rpc \in [Caller -> Call] /\ caller \in [Caller -> Session] /\ rpc[c] \in Call
  BY Zenon DEF ServiceInv, StateInv
<1>2. /\ r \in Call /\ r.at = "none" /\ r.node = rpc[c].node /\ r.done = rpc[c].done
      /\ r.answer = IF rpc[c].done THEN rpc[c].answer ELSE a
  BY <1>1, AnsweredIsCall
<1>3. rpc' = [rpc EXCEPT ![c] = r]
  BY DEF Return
<1>. HIDE DEF r
<1>4. /\ rpc' \in [Caller -> Call] /\ rpc'[c] = r
      /\ \A d \in Caller \ {c} : rpc'[d] = rpc[d]
  BY <1>1, <1>2, <1>3
<1>5. UNCHANGED <<caller, connections, closed, node>>
  BY Zenon DEF clientVars, runtimeVars
<1>6. ASSUME NEW d \in Caller
      PROVE  /\ rpc'[d].at # "none" => rpc'[d].node \in Node
             /\ caller'[d].at \in {"calling", "pausing"} => caller'[d].attempt <= MaxAttempts
  BY <1>2, <1>4, <1>5, Zenon DEF ServiceInv, StateInv
<1>7. ~rpc[c].done => ~GivenUp(c)
  BY Zenon DEF GivenUp, ServiceInv, HandlerInv
<1>8. ASSUME NEW d \in Caller
      PROVE  GivenUp(d) => GivenUp(d)'
  BY <1>2, <1>4, <1>5, <1>7 DEF GivenUp
<1>9. ASSUME NEW d \in Caller
      PROVE  HandlerInv(d)'
  <2>1. CASE d = c
    BY <1>2, <1>4, <1>5, <1>8, <2>1, Zenon DEF ServiceInv, HandlerInv, Halted
  <2>2. CASE d # c
    BY <1>4, <1>5, <1>8, <2>2 DEF ServiceInv, HandlerInv, Halted
  <2>. QED  BY <2>1, <2>2, Zenon
<1>10. ASSUME NEW n \in Node, NEW d \in Caller
       PROVE  /\ ~CtxDone(n, d) /\ Running(n) /\ rpc[d].result.kind = "none" => ~CtxDone(n, d)'
              /\ ~CtxDone(n, d)' => ~CtxDone(n, d) /\ rpc'[d].result = rpc[d].result
  BY <1>2, <1>4, Zenon DEF CtxDone
<1>11. ClosedHoldsNoConnection'
  BY <1>5, Zenon DEF ServiceInv, ClosedHoldsNoConnection
<1>. QED  BY <1>1, <1>4, <1>5, <1>6, <1>8, <1>9, <1>10, <1>11, ClientFrame

\* A call is refused at the endpoint.
LEMMA RefusePreserves ==
  ASSUME ServiceInv, UNCHANGED clientVars, NEW c \in Caller, Refuse(c)
  PROVE  ServiceInv'
<1>. DEFINE a == Bare("unavailable")
<1>1. a \in Told /\ a.kind # "none"
  BY BareIsTold, Zenon
<1>2. rpc[c].at = "arrived" /\ UNCHANGED runtimeVars /\ Return(c, a)
  BY DEF Refuse
<1>. HIDE DEF a
<1>3. \A n \in Node : CtxDone(n, c)
  BY <1>2, Zenon DEF CtxDone
<1>. QED  BY <1>1, <1>2, <1>3, ReturnPreserves, Zenon

\* A handler refuses to serve as a Follower, or goes on.
LEMMA RejectPreserves ==
  ASSUME ServiceInv, UNCHANGED clientVars, NEW c \in Caller, RejectIfNotLeader(c)
  PROVE  ServiceInv'
<1>. DEFINE n == rpc[c].node
            a == NotLeader(node[n].leader)
<1>1. rpc[c].at = "arrived" /\ Accepting(n) /\ UNCHANGED runtimeVars
  BY DEF RejectIfNotLeader
<1>2. n \in Node /\ node[n] \in Process
  BY <1>1 DEF ServiceInv, StateInv
<1>3. a \in Told /\ a.kind # "none"
  <2>1. node[n].leader \in Node \cup {NoNode}
    BY <1>2 DEF Process
  <2>. HIDE DEF n
  <2>. QED  BY <2>1, NotLeaderIsTold
<1>4. ~Halted(n)
  BY <1>1, Zenon DEF Accepting, Halted
<1>5. CASE Handle(c, "enqueue")
  BY <1>1, <1>2, <1>4, <1>5, HandlePreserves
<1>6. CASE Return(c, a)
  <2>1. \A m \in Node : CtxDone(m, c)
    BY <1>1, Zenon DEF CtxDone
  <2>. HIDE DEF a
  <2>. QED  BY <1>1, <1>3, <1>6, <2>1, ReturnPreserves, Zenon
<1>. QED  BY <1>5, <1>6 DEF RejectIfNotLeader

\* A handler that waits returns with its result, or because the loop has gone.
LEMMA AwaitPreserves ==
  ASSUME ServiceInv, UNCHANGED clientVars, NEW c \in Caller, Await(c)
  PROVE  ServiceInv'
<1>1. rpc[c].at = "wait" /\ UNCHANGED runtimeVars /\ rpc[c] \in Call
  BY DEF Await, ServiceInv, StateInv
<1>2. CASE rpc[c].result.kind # "none" /\ Return(c, rpc[c].result)
  <2>1. rpc[c].result \in Told
    BY <1>1, Zenon DEF Call
  <2>. QED  BY <1>1, <1>2, <2>1, ReturnPreserves
<1>3. CASE (RuntimeDone(rpc[c].node) \/ rpc[c].done) /\ Return(c, Bare("unavailable"))
  <2>. DEFINE a == Bare("unavailable")
  <2>1. a \in Told /\ a.kind # "none"
    BY BareIsTold
  <2>2. \A n \in Node : ~(~CtxDone(n, c) /\ Running(n))
    BY <1>3 DEF CtxDone, Running, RuntimeDone
  <2>. HIDE DEF a
  <2>. QED  BY <1>1, <1>3, <2>1, <2>2, ReturnPreserves DEF a
<1>. QED  BY <1>2, <1>3, Zenon DEF Await

-----------------------------------------------------------------------------
(* Steps of a process *)

\* A step of process k leaves a call as it is, but for the result of one that waits.
SameCall(k, c) ==
  /\ rpc'[c].node = rpc[c].node
  /\ rpc'[c].at = rpc[c].at
  /\ rpc'[c].done = rpc[c].done
  /\ rpc'[c].answer = rpc[c].answer
  /\ rpc'[c].result = rpc[c].result \/ ~CtxDone(k, c)

\* And a CreateSnapshot, but for the result of one it was asked for.
SameRequest(k, o) ==
  /\ op'[o].at = op[o].at
  /\ op'[o].result # op[o].result => Home[o] = k /\ op[o].at \in {"wait", "finished"}

\* What a call of another process, or of a caller that does not wait, keeps.
LEMMA SameCallKeeps ==
  ASSUME NEW k \in Node, NEW c \in Caller, SameCall(k, c), UNCHANGED caller
  PROVE  /\ GivenUp(c)' <=> GivenUp(c)
         /\ \A n \in Node : CtxDone(n, c)' <=> CtxDone(n, c)
         /\ \A n \in Node \ {k} : ~CtxDone(n, c) => rpc'[c].result = rpc[c].result
         /\ CtxDone(k, c) => rpc'[c].result = rpc[c].result
  BY SMTT(30) DEF SameCall, GivenUp, CtxDone

\* A step of process k that does not end its handlers preserves what it does not
\* touch: what is left to show concerns its own requests.
LEMMA ProcessFrame ==
  ASSUME ServiceInv, UNCHANGED clientVars, NEW k \in Node, NEW p \in Process,
         node' = [node EXCEPT ![k] = p],
         Len(p.queue) <= QueueCap,
         p.errors <= ServeErrorsCap,
         leader' \in Node \cup {NoNode},
         rpc' \in [Caller -> Call],
         op' \in [Operator -> OperatorCall],
         p.goroutine["raft"] = "running" => Running(k),
         p.run \in {"waiting", "returned"} <=> Halted(k),
         \A c \in Caller : SameCall(k, c) /\ RequestInv(k, c)',
         \A o \in Operator : SameRequest(k, o) /\ OperatorInv(k, o)'
  PROVE  ServiceInv'
<1>1. /\ node \in [Node -> Process]
      /\ node' \in [Node -> Process]
      /\ node'[k] = p
      /\ \A n \in Node \ {k} : node'[n] = node[n]
  BY DEF ServiceInv, StateInv
<1>2. UNCHANGED <<caller, connections, closed>>
  BY ZenonT(40) DEF clientVars
<1>3. StateInv'
  <2>1. \A n \in Node : Len(node'[n].queue) <= QueueCap /\ node'[n].errors <= ServeErrorsCap
    BY <1>1, SMTT(30) DEF ServiceInv, StateInv
  <2>2. \A c \in Caller : rpc'[c].at # "none" => rpc'[c].node \in Node
    BY DEF ServiceInv, StateInv, SameCall
  <2>. QED  BY <1>1, <1>2, <2>1, <2>2, SMTT(30) DEF ServiceInv, StateInv
<1>4. ClosedHoldsNoConnection'
  BY <1>2 DEF ServiceInv, ClosedHoldsNoConnection
<1>5. \A n \in Node : Halted(n)' <=> Halted(n)
  BY <1>1, ZenonT(40) DEF Halted
<1>6. ASSUME NEW c \in Caller
      PROVE  HandlerInv(c)'
  <2>1. GivenUp(c)' <=> GivenUp(c)
    BY <1>2, SameCallKeeps, Zenon
  <2>2. rpc[c].at \in {"arrived", "enqueue"} => rpc'[c].result = rpc[c].result
    BY ZenonT(40) DEF SameCall, CtxDone
  <2>. QED  BY <1>2, <1>5, <2>1, <2>2 DEF ServiceInv, HandlerInv, SameCall
<1>7. ASSUME NEW n \in Node, n # k, NEW c \in Caller
      PROVE  RequestInv(n, c)'
  <2>1. /\ GivenUp(c)' <=> GivenUp(c)
        /\ CtxDone(n, c)' <=> CtxDone(n, c)
        /\ ~CtxDone(n, c) => rpc'[c].result = rpc[c].result
    BY <1>2, <1>7, SameCallKeeps
  <2>2. node'[n] = node[n] /\ RequestInv(n, c)
    BY <1>1, <1>7, Zenon DEF ServiceInv
  <2>. QED  BY <2>1, <2>2, <1>5, RequestKept, SMTT(30) DEF Running
<1>8. ASSUME NEW n \in Node, n # k, NEW o \in Operator
      PROVE  OperatorInv(n, o)'
  <2>1. node'[n] = node[n] /\ OperatorInv(n, o)
    BY <1>1, <1>8, Zenon DEF ServiceInv
  <2>2. /\ op'[o].at = op[o].at
        /\ op'[o].result # op[o].result => Home[o] = k /\ op[o].at \in {"wait", "finished"}
    BY DEF SameRequest
  <2>. QED  BY <1>8, <2>1, <2>2, Zenon DEF OperatorInv, Running
<1>. QED  BY <1>3, <1>4, <1>6, <1>7, <1>8, SMTT(30) DEF ServiceInv

\* A step that leaves the requests, the waiters and the calls alone.
LEMMA QuietStep ==
  ASSUME ServiceInv, UNCHANGED <<clientVars, rpc, op>>, NEW k \in Node, NEW p \in Process,
         node' = [node EXCEPT ![k] = p],
         p.queue = node[k].queue,
         p.pending = node[k].pending,
         p.waiters = node[k].waiters,
         p.errors <= ServeErrorsCap,
         leader' \in Node \cup {NoNode},
         p.goroutine["raft"] = "running" => Running(k),
         p.run \in {"waiting", "returned"} <=> Halted(k)
  PROVE  ServiceInv'
<1>1. /\ node \in [Node -> Process] /\ node'[k] = p
      /\ rpc \in [Caller -> Call] /\ op \in [Operator -> OperatorCall]
      /\ Len(p.queue) <= QueueCap
      /\ UNCHANGED <<caller, rpc, op>>
  BY SMTT(30) DEF ServiceInv, StateInv, clientVars
<1>2. ASSUME NEW c \in Caller
      PROVE  SameCall(k, c)
  BY <1>1, SMTT(30) DEF SameCall
<1>3. ASSUME NEW o \in Operator
      PROVE  SameRequest(k, o)
  BY <1>1, SMTT(30) DEF SameRequest
<1>4. (Running(k)' => Running(k)) /\ (Halted(k)' <=> Halted(k))
  BY <1>1, Zenon DEF Running, Halted
<1>5. ASSUME NEW c \in Caller
      PROVE  RequestInv(k, c)'
  <2>1. /\ GivenUp(c)' <=> GivenUp(c)
        /\ CtxDone(k, c)' <=> CtxDone(k, c)
    BY <1>1, <1>2, SameCallKeeps, ZenonT(40)
  <2>. QED  BY <1>1, <1>4, <2>1, RequestKept, Zenon DEF ServiceInv
<1>6. ASSUME NEW o \in Operator
      PROVE  OperatorInv(k, o)'
  BY <1>1, <1>4, OperatorKept DEF ServiceInv
<1>. QED  BY <1>1, <1>2, <1>3, <1>5, <1>6, ProcessFrame, ZenonT(40)

\* Cancel, ServeFails, Report, LeaveServing, DrainClients, RunReturns and
\* SaveSnapshot.
LEMMA RunPreserves ==
  ASSUME ServiceInv, UNCHANGED clientVars, NEW k \in Node,
         \/ Cancel(k)
         \/ \E s \in Server : ServeFails(k, s)
         \/ \E g \in Goroutine : Report(k, g)
         \/ LeaveServing(k)
         \/ DrainClients(k)
         \/ RunReturns(k)
         \/ SaveSnapshot(k)
  PROVE  ServiceInv'
<1>1. /\ node \in [Node -> Process] /\ node[k] \in Process
      /\ leader \in Node \cup {NoNode}
      /\ node[k].errors \in Nat /\ node[k].errors <= ServeErrorsCap
      /\ node[k].goroutine \in [Goroutine -> {"running", "failed", "gone"}]
      /\ "raft" \in Goroutine
  BY Zenon DEF ServiceInv, StateInv, Process, Goroutine
<1>2. CASE Cancel(k)
  <2>. DEFINE p == [node[k] EXCEPT !.cancelled = TRUE]
  <2>1. /\ p \in Process /\ p.queue = node[k].queue /\ p.pending = node[k].pending
        /\ p.waiters = node[k].waiters /\ p.errors = node[k].errors
        /\ p.goroutine = node[k].goroutine /\ p.run = node[k].run
    BY <1>1, Zenon DEF Process
  <2>2. node' = [node EXCEPT ![k] = p] /\ UNCHANGED <<op, leader, rpc>>
    BY <1>2 DEF Cancel
  <2>. HIDE DEF p
  <2>. QED  BY <1>1, <2>1, <2>2, QuietStep, Zenon DEF Running, Halted
<1>3. ASSUME NEW s \in Server, ServeFails(k, s)
      PROVE  ServiceInv'
  <2>. DEFINE g == [node[k].goroutine EXCEPT ![s] = "failed"]
              p == [node[k] EXCEPT !.goroutine = g]
  <2>1. g \in [Goroutine -> {"running", "failed", "gone"}]
        /\ (g["raft"] = "running" => Running(k))
    BY <1>1 DEF Running, Goroutine
  <2>2. node' = [node EXCEPT ![k] = p] /\ UNCHANGED <<op, leader, rpc>>
    BY <1>3 DEF ServeFails
  <2>. HIDE DEF g
  <2>3. /\ p \in Process /\ p.queue = node[k].queue /\ p.pending = node[k].pending
        /\ p.waiters = node[k].waiters /\ p.errors = node[k].errors
        /\ p.goroutine = g /\ p.run = node[k].run
    BY <1>1, <2>1, Zenon DEF Process
  <2>. HIDE DEF p
  <2>. QED  BY <1>1, <2>1, <2>2, <2>3, QuietStep, Zenon DEF Halted
<1>4. ASSUME NEW h \in Goroutine, Report(k, h)
      PROVE  ServiceInv'
  <2>. DEFINE g == [node[k].goroutine EXCEPT ![h] = "gone"]
              e == node[k].errors + 1
              p == [node[k] EXCEPT !.errors = e, !.goroutine = g]
  <2>1. g \in [Goroutine -> {"running", "failed", "gone"}]
        /\ (g["raft"] = "running" => Running(k))
    BY <1>1 DEF Running, Goroutine
  <2>2. node' = [node EXCEPT ![k] = p] /\ UNCHANGED <<op, leader, rpc>>
    BY <1>4, Zenon DEF Report
  <2>3. e \in Nat /\ e <= ServeErrorsCap
    <3>1. node[k].errors < ServeErrorsCap
      BY <1>4 DEF Report
    <3>. QED  BY <1>1, <3>1 DEF ServeErrorsCap
  <2>. HIDE DEF g, e
  <2>4. /\ p \in Process /\ p.queue = node[k].queue /\ p.pending = node[k].pending
        /\ p.waiters = node[k].waiters /\ p.errors = e
        /\ p.goroutine = g /\ p.run = node[k].run
    BY <1>1, <2>1, <2>3, Zenon DEF Process
  <2>. HIDE DEF p
  <2>. QED  BY <1>1, <2>1, <2>2, <2>3, <2>4, QuietStep, Zenon DEF Halted
<1>5. CASE LeaveServing(k)
  <2>. DEFINE p(e) == [node[k] EXCEPT !.run = "stopping", !.errors = e]
  <2>1. PICK e \in Nat : e <= ServeErrorsCap /\ node' = [node EXCEPT ![k] = p(e)]
    <3>1. CASE node' = [node EXCEPT ![k].run = "stopping"]
      <4>1. node' = [node EXCEPT ![k] = p(node[k].errors)]
        BY <1>1, <3>1, Zenon DEF Process
      <4>. QED  BY <1>1, <4>1, Zenon
    <3>2. CASE node[k].errors > 0
               /\ node' = [node EXCEPT ![k].run = "stopping", ![k].errors = @ - 1]
      <4>1. node' = [node EXCEPT ![k] = p(node[k].errors - 1)]
        BY <1>1, <3>2 DEF Process
      <4>2. node[k].errors - 1 \in Nat /\ node[k].errors - 1 <= ServeErrorsCap
        BY <1>1, <3>2 DEF ServeErrorsCap
      <4>. QED  BY <4>1, <4>2, Zenon
    <3>. QED  BY <1>5, <3>1, <3>2, Zenon DEF LeaveServing
  <2>2. /\ p(e) \in Process /\ p(e).queue = node[k].queue /\ p(e).pending = node[k].pending
        /\ p(e).waiters = node[k].waiters /\ p(e).errors = e
        /\ p(e).goroutine = node[k].goroutine /\ p(e).run = "stopping"
    BY <1>1, <2>1, Zenon DEF Process
  <2>3. node[k].run = "serving" /\ UNCHANGED <<op, leader, rpc>>
    BY <1>5 DEF LeaveServing
  <2>. HIDE DEF p
  <2>. QED  BY <1>1, <2>1, <2>2, <2>3, QuietStep, Zenon DEF Running, Halted
<1>6. ASSUME NEW r \in {"draining", "returned"},
             node' = [node EXCEPT ![k].run = r],
             r = "returned" <=> Halted(k),
             UNCHANGED <<op, leader, rpc>>
      PROVE  ServiceInv'
  <2>. DEFINE p == [node[k] EXCEPT !.run = r]
  <2>1. /\ p \in Process /\ p.queue = node[k].queue /\ p.pending = node[k].pending
        /\ p.waiters = node[k].waiters /\ p.errors = node[k].errors
        /\ p.goroutine = node[k].goroutine /\ p.run = r
    BY <1>1, Zenon DEF Process
  <2>2. node' = [node EXCEPT ![k] = p]
    BY <1>6
  <2>. HIDE DEF p
  <2>. QED  BY <1>1, <1>6, <2>1, <2>2, QuietStep, Zenon DEF Running
<1>7. ASSUME NEW v \in {"ok", "error"},
             node' = [node EXCEPT ![k].saved = v],
             UNCHANGED <<op, leader, rpc>>
      PROVE  ServiceInv'
  <2>. DEFINE p == [node[k] EXCEPT !.saved = v]
  <2>1. /\ p \in Process /\ p.queue = node[k].queue /\ p.pending = node[k].pending
        /\ p.waiters = node[k].waiters /\ p.errors = node[k].errors
        /\ p.goroutine = node[k].goroutine /\ p.run = node[k].run
    BY <1>1, Zenon DEF Process
  <2>2. node' = [node EXCEPT ![k] = p]
    BY <1>7
  <2>. HIDE DEF p
  <2>. QED  BY <1>1, <1>7, <2>1, <2>2, QuietStep, Zenon DEF Running, Halted
<1>8. CASE DrainClients(k) \/ RunReturns(k)
  BY <1>6, <1>8 DEF DrainClients, RunReturns, Halted
<1>9. CASE SaveSnapshot(k)
  BY <1>7, <1>9 DEF SaveSnapshot
<1>. QED  BY <1>2, <1>3, <1>4, <1>5, <1>8, <1>9, Zenon

\* A call to k is not in a handler any more, or it has been aborted.
Halting(k, c) ==
  /\ rpc[c].node = k => rpc'[c].at \in {"none", "arrived"} \/ rpc'[c].done
  /\ \/ rpc'[c] = rpc[c]
     \/ /\ rpc[c].node = k /\ InFlight(c)
        /\ rpc'[c] = Aborted(rpc[c], Bare("unavailable"))

\* The client endpoint of k has stopped: no handler waits there any more, or its
\* call was aborted.
LEMMA HaltPreserves ==
  ASSUME ServiceInv, UNCHANGED <<clientVars, op, leader>>, NEW k \in Node, Stopped(k),
         rpc' \in [Caller -> Call],
         \A c \in Caller : Halting(k, c)
  PROVE  ServiceInv'
<1>. DEFINE g == [h \in Goroutine |-> IF h \in Server /\ node[k].goroutine[h] = "running"
                                        THEN "gone" ELSE node[k].goroutine[h]]
            p == [node[k] EXCEPT !.run = "waiting", !.goroutine = g]
            a == Bare("unavailable")
<1>1. /\ node \in [Node -> Process] /\ node[k] \in Process /\ rpc \in [Caller -> Call]
      /\ node[k].goroutine \in [Goroutine -> {"running", "failed", "gone"}]
      /\ "raft" \in Goroutine
      /\ a \in Told /\ a.kind = "unavailable"
      /\ UNCHANGED <<caller, connections, closed, op>>
  BY BareIsTold, Zenon DEF ServiceInv, StateInv, Process, Goroutine, clientVars
<1>2. /\ g \in [Goroutine -> {"running", "failed", "gone"}]
      /\ g["raft"] = "running" => Running(k)
  BY <1>1 DEF Running
<1>3. node' = [node EXCEPT ![k] = p]
  BY <1>1, ZenonT(40) DEF Stopped, Process
<1>. HIDE DEF g
<1>4. /\ p \in Process /\ p.queue = node[k].queue /\ p.pending = node[k].pending
      /\ p.waiters = node[k].waiters /\ p.errors = node[k].errors
      /\ p.goroutine = g /\ p.run = "waiting"
  BY <1>1, <1>2, Zenon DEF Process
<1>. HIDE DEF p
<1>5. /\ node' \in [Node -> Process]
      /\ node'[k] = p
      /\ \A n \in Node \ {k} : node'[n] = node[n]
  BY <1>1, <1>3, <1>4
<1>6. ASSUME NEW c \in Caller, rpc'[c] # rpc[c]
      PROVE  /\ rpc[c].node = k /\ rpc[c].at # "none" /\ ~rpc[c].done
             /\ caller[c].at = "calling" /\ rpc[c].answer.kind = "none"
             /\ rpc'[c].node = rpc[c].node /\ rpc'[c].at = rpc[c].at /\ rpc'[c].done
             /\ rpc'[c].result = rpc[c].result
             /\ rpc'[c].answer.kind = "unavailable"
  <2>. HIDE DEF a
  <2>1. rpc[c].node = k /\ InFlight(c) /\ rpc'[c] = Aborted(rpc[c], a)
    BY <1>6, Zenon DEF a, Halting
  <2>2. /\ rpc[c].answer.kind = "none"
        /\ rpc[c].at # "none" /\ ~rpc[c].done /\ caller[c].at = "calling"
    BY <2>1 DEF InFlight, ServiceInv, HandlerInv
  <2>3. /\ Aborted(rpc[c], a).node = rpc[c].node
        /\ Aborted(rpc[c], a).at = rpc[c].at
        /\ Aborted(rpc[c], a).done = TRUE
        /\ Aborted(rpc[c], a).result = rpc[c].result
        /\ Aborted(rpc[c], a).answer = IF rpc[c].done THEN rpc[c].answer ELSE a
    BY <1>1 DEF Aborted, Call
  <2>. QED  BY <1>1, <2>1, <2>2, <2>3, ZenonT(40)
<1>7. \A n \in Node : (Running(n)' => Running(n)) /\ (Halted(n) => Halted(n)')
  BY <1>2, <1>4, <1>5, Zenon DEF Running, Halted
<1>8. Halted(k)' /\ \A n \in Node \ {k} : Halted(n)' <=> Halted(n)
  BY <1>4, <1>5, Zenon DEF Halted
<1>9. StateInv'
  <2>1. \A n \in Node : Len(node'[n].queue) <= QueueCap /\ node'[n].errors <= ServeErrorsCap
    <3>1. \A n \in Node : node'[n].queue = node[n].queue /\ node'[n].errors = node[n].errors
      BY <1>4, <1>5
    <3>. QED  BY <3>1, SMTT(30) DEF ServiceInv, StateInv
  <2>2. \A c \in Caller : rpc'[c].at # "none" => rpc'[c].node \in Node
    <3>1. \A c \in Caller : rpc'[c].at = rpc[c].at /\ rpc'[c].node = rpc[c].node
      BY <1>6, SMTT(30)
    <3>. QED  BY <3>1, SMTT(30) DEF ServiceInv, StateInv
  <2>. QED  BY <1>1, <1>5, <2>1, <2>2, ZenonT(40) DEF ServiceInv, StateInv
<1>10. ClosedHoldsNoConnection'
  BY <1>1, SMTT(30) DEF ServiceInv, ClosedHoldsNoConnection
<1>11. ASSUME NEW c \in Caller
       PROVE  GivenUp(c) => GivenUp(c)'
  BY <1>1, <1>6 DEF GivenUp
<1>12. ASSUME NEW c \in Caller
       PROVE  HandlerInv(c)'
  <2>1. CASE rpc'[c] = rpc[c]
    BY <1>1, <1>7, <1>8, <1>11, <2>1, ZenonT(40) DEF ServiceInv, HandlerInv, Halting
  <2>2. CASE rpc'[c] # rpc[c]
    <3>1. /\ rpc'[c].node = k /\ rpc'[c].at # "none" /\ rpc'[c].done
          /\ caller'[c].at = "calling" /\ rpc'[c].answer.kind # "none"
          /\ rpc'[c].result = rpc[c].result /\ rpc'[c].at = rpc[c].at
      BY <1>1, <1>6, <2>2, ZenonT(40)
    <3>. QED  BY <1>8, <3>1, Zenon DEF ServiceInv, HandlerInv
  <2>. QED  BY <2>1, <2>2, Zenon
<1>13. ASSUME NEW n \in Node, NEW c \in Caller
       PROVE  RequestInv(n, c)'
  <2>1. /\ ~CtxDone(n, c) => ~CtxDone(n, c)' \/ Halted(n)'
        /\ ~CtxDone(n, c)' => ~CtxDone(n, c) /\ rpc'[c].result = rpc[c].result
    BY <1>6, <1>8 DEF CtxDone
  <2>2. node'[n].queue = node[n].queue /\ node'[n].pending = node[n].pending
    BY <1>4, <1>5, SMTT(30)
  <2>. QED  BY <1>7, <1>11, <2>1, <2>2, RequestKept, SMTT(30) DEF ServiceInv
<1>14. ASSUME NEW n \in Node, NEW o \in Operator
       PROVE  OperatorInv(n, o)'
  <2>1. node'[n].queue = node[n].queue /\ node'[n].waiters = node[n].waiters /\ op'[o] = op[o]
    BY <1>1, <1>4, <1>5
  <2>. QED  BY <1>7, <2>1, OperatorKept, SMTT(30) DEF ServiceInv
<1>. QED  BY <1>9, <1>10, <1>12, <1>13, <1>14 DEF ServiceInv

\* The endpoint stops once its handlers have returned, or aborts them.
LEMMA StopPreserves ==
  ASSUME ServiceInv, UNCHANGED clientVars, NEW k \in Node, GracefulStop(k) \/ Stop(k)
  PROVE  ServiceInv'
<1>1. rpc \in [Caller -> Call]
  BY Zenon DEF ServiceInv, StateInv
<1>2. CASE GracefulStop(k)
  <2>1. ASSUME NEW c \in Caller, rpc[c].node = k
        PROVE  rpc[c].at \in {"none", "arrived"}
    BY <1>1, <1>2, <2>1, Zenon DEF GracefulStop, Call
  <2>2. \A c \in Caller : Halting(k, c)
    BY <1>2, <2>1, SMTT(30) DEF GracefulStop, Halting
  <2>. QED  BY <1>1, <1>2, <2>2, HaltPreserves DEF GracefulStop
<1>3. CASE Stop(k)
  <2>. DEFINE a == Bare("unavailable")
  <2>1. a \in Told
    BY BareIsTold, SMTT(30)
  <2>2. rpc' = [c \in Caller |-> IF rpc[c].node = k /\ InFlight(c)
                                   THEN Aborted(rpc[c], a) ELSE rpc[c]]
    BY <1>3 DEF Stop
  <2>. HIDE DEF a
  <2>3. ASSUME NEW c \in Caller
        PROVE  Aborted(rpc[c], a) \in Call /\ Aborted(rpc[c], a).done
    <3>1. rpc[c] \in Call
      BY <1>1
    <3>. QED  BY <2>1, <3>1, AbortedIsCall, Zenon
  <2>4. rpc' \in [Caller -> Call]
    BY <1>1, <2>2, <2>3, SMTT(30)
  <2>5. ASSUME NEW c \in Caller
        PROVE  /\ rpc[c].node = k => rpc'[c].at \in {"none", "arrived"} \/ rpc'[c].done
               /\ \/ rpc'[c] = rpc[c]
                  \/ rpc[c].node = k /\ InFlight(c) /\ rpc'[c] = Aborted(rpc[c], a)
    <3>1. CASE rpc[c].node = k /\ InFlight(c)
      BY <2>2, <2>3, <3>1, SMTT(30)
    <3>2. CASE rpc[c].node = k /\ ~InFlight(c)
      <4>1. rpc'[c] = rpc[c]
        BY <2>2, <3>2
      <4>2. rpc[c].answer.kind # "none"
        BY <3>2, ServiceAssumption, SMTT(30) DEF InFlight
      <4>3. rpc[c].at = "none" \/ rpc[c].done
        BY <4>2, SMTT(30) DEF ServiceInv, HandlerInv
      <4>. QED  BY <4>1, <4>3
    <3>3. CASE rpc[c].node # k
      BY <2>2, <3>3, SMTT(30)
    <3>. QED  BY <3>1, <3>2, <3>3, SMTT(30)
  <2>6. \A c \in Caller : Halting(k, c)
    BY <2>5 DEF Halting, a
  <2>. QED  BY <1>3, <2>4, <2>6, HaltPreserves DEF Stop
<1>. QED  BY <1>2, <1>3

-----------------------------------------------------------------------------
(* The queue of a process *)

\* A handler or a CreateSnapshot that joins the queue of k.
LEMMA JoinsQueue ==
  ASSUME ServiceInv, NEW k \in Node, NEW x \in Caller \cup Operator, Free(k),
         node' = [node EXCEPT ![k].queue = Append(@, x)]
  PROVE  \E p \in Process :
           /\ node' = [node EXCEPT ![k] = p]
           /\ node'[k] = p
           /\ Len(p.queue) <= QueueCap
           /\ p.queue = Append(node[k].queue, x)
           /\ p.errors = node[k].errors
           /\ p.run = node[k].run
           /\ p.goroutine = node[k].goroutine
           /\ p.pending = node[k].pending
           /\ p.waiters = node[k].waiters
<1>. DEFINE q == Append(node[k].queue, x)
            p == [node[k] EXCEPT !.queue = q]
<1>1. /\ node \in [Node -> Process] /\ node[k] \in Process
      /\ node[k].queue \in Seq(Caller \cup Operator)
  BY DEF ServiceInv, StateInv, Process
<1>2. q \in Seq(Caller \cup Operator) /\ Len(q) <= QueueCap
  BY <1>1, QueueAppend, ServiceAssumption DEF Free
<1>3. node' = [node EXCEPT ![k] = p]
  BY <1>1
<1>. HIDE DEF q
<1>4. /\ p \in Process /\ p.queue = q /\ p.pending = node[k].pending
      /\ p.waiters = node[k].waiters /\ p.errors = node[k].errors
      /\ p.goroutine = node[k].goroutine /\ p.run = node[k].run
  BY <1>1, <1>2, Zenon DEF Process
<1>. HIDE DEF p
<1>. QED  BY <1>1, <1>2, <1>3, <1>4, Zenon DEF q

\* A handler joins the queue or gives up.
LEMMA EnqueuePreserves ==
  ASSUME ServiceInv, UNCHANGED clientVars, NEW c \in Caller, Enqueue(c)
  PROVE  ServiceInv'
<1>. DEFINE k == rpc[c].node
<1>1. /\ rpc[c].at = "enqueue" /\ UNCHANGED <<op, leader, caller, connections, closed>>
      /\ k \in Node /\ rpc \in [Caller -> Call] /\ rpc[c] \in Call
      /\ op \in [Operator -> OperatorCall] /\ leader \in Node \cup {NoNode}
  BY SMTT(30) DEF ServiceInv, StateInv, Enqueue, clientVars
<1>2. CASE Return(c, Bare("unavailable")) /\ UNCHANGED node
  <2>. DEFINE a == Bare("unavailable")
  <2>1. a \in Told /\ a.kind # "none"
    BY BareIsTold
  <2>2. \A n \in Node : CtxDone(n, c)
    BY <1>1 DEF CtxDone
  <2>3. UNCHANGED runtimeVars
    BY <1>1, <1>2 DEF runtimeVars
  <2>. HIDE DEF a
  <2>. QED  BY <1>1, <1>2, <2>1, <2>2, <2>3, ReturnPreserves, Zenon DEF a
<1>3. CASE Free(k) /\ node' = [node EXCEPT ![k].queue = Append(@, c)] /\ Handle(c, "wait")
  <2>. DEFINE r == [rpc[c] EXCEPT !.at = "wait"]
  <2>1. /\ r \in Call /\ r.at = "wait" /\ r.node = k /\ r.done = rpc[c].done
        /\ r.result = rpc[c].result /\ r.answer = rpc[c].answer
        /\ rpc' = [rpc EXCEPT ![c] = r]
    BY <1>1, <1>3, SMTT(30) DEF Call, Handle
  <2>. HIDE DEF r
  <2>2. /\ rpc' \in [Caller -> Call] /\ rpc'[c] = r
        /\ \A d \in Caller \ {c} : rpc'[d] = rpc[d]
    BY <1>1, <2>1
  <2>. HIDE DEF k
  <2>3. PICK p \in Process :
          /\ node' = [node EXCEPT ![k] = p]
          /\ node'[k] = p
          /\ Len(p.queue) <= QueueCap
          /\ p.queue = Append(node[k].queue, c)
          /\ p.errors = node[k].errors
          /\ p.run = node[k].run
          /\ p.goroutine = node[k].goroutine
          /\ p.pending = node[k].pending
          /\ p.waiters = node[k].waiters
    <3>1. c \in Caller \cup Operator
      OBVIOUS
    <3>. QED  BY <1>1, <1>3, <3>1, JoinsQueue, Zenon
  <2>4. /\ node \in [Node -> Process] /\ node' \in [Node -> Process]
        /\ \A n \in Node \ {k} : node'[n] = node[n]
        /\ node[k].queue \in Seq(Caller \cup Operator)
    BY <1>1, <2>3, ZenonT(40) DEF ServiceInv, StateInv, Process
  <2>5. \A n \in Node : (Running(n)' <=> Running(n)) /\ (Halted(n)' <=> Halted(n))
    BY <2>3, <2>4, SMTT(30) DEF Running, Halted
  <2>6. StateInv'
    <3>1. \A n \in Node : Len(node'[n].queue) <= QueueCap /\ node'[n].errors <= ServeErrorsCap
      BY <2>3, <2>4, SMTT(30) DEF ServiceInv, StateInv
    <3>2. \A d \in Caller : rpc'[d].at # "none" => rpc'[d].node \in Node
      BY <1>1, <2>1, <2>2, SMTT(30) DEF ServiceInv, StateInv
    <3>. QED  BY <1>1, <2>2, <2>4, <3>1, <3>2, SMTT(30) DEF ServiceInv, StateInv
  <2>7. ClosedHoldsNoConnection'
    BY <1>1 DEF ServiceInv, ClosedHoldsNoConnection
  <2>8. \A d \in Caller : GivenUp(d)' <=> GivenUp(d)
    BY <1>1, <2>1, <2>2, ZenonT(40) DEF GivenUp
  <2>9. ~rpc[c].done => ~Halted(k) /\ ~GivenUp(c)
    BY <1>1 DEF ServiceInv, HandlerInv, GivenUp, k
  <2>10. ASSUME NEW d \in Caller
         PROVE  HandlerInv(d)'
    <3>1. CASE d = c
      BY <1>1, <2>1, <2>2, <2>5, <2>8, <2>9, <3>1, ZenonT(40) DEF ServiceInv, HandlerInv, k
    <3>2. CASE d # c
      BY <1>1, <2>2, <2>5, <2>8, <3>2, ZenonT(40) DEF ServiceInv, HandlerInv
    <3>. QED  BY <3>1, <3>2, ZenonT(40)
  <2>11. /\ Range(p.queue) = Range(node[k].queue) \cup {c}
         /\ \A y : y # c /\ Once(node[k].queue, y) => Once(p.queue, y)
         /\ c \notin Range(node[k].queue) => Once(p.queue, c)
    BY <2>3, <2>4, QueueAppend
  <2>12. ASSUME NEW n \in Node, NEW d \in Caller
         PROVE  RequestInv(n, d)'
    <3>1. CASE d # c
      <4>1. /\ rpc'[d] = rpc[d]
            /\ CtxDone(n, d)' <=> CtxDone(n, d)
        BY <2>2, <3>1, Zenon DEF CtxDone
      <4>2. CASE n # k
        <5>1. node'[n] = node[n]
          BY <2>4, <4>2, Zenon
        <5>. QED  BY <2>5, <2>8, <4>1, <5>1, RequestKept, Zenon DEF ServiceInv
      <4>3. CASE n = k
        <5>. DEFINE q == node[k].queue
        <5>0. node'[n].queue = p.queue /\ node[n].queue = q
          BY <2>3, <4>3
        <5>. HIDE DEF q
        <5>1. d \in Range(node'[n].queue) <=> d \in Range(node[n].queue)
          BY <2>11, <3>1, <5>0, Zenon DEF q
        <5>2. Once(node[n].queue, d) => Once(node'[n].queue, d)
          BY <2>11, <3>1, <5>0 DEF q
        <5>3. node'[n].pending = node[n].pending
          BY <2>3, <4>3, Zenon
        <5>4. RequestInv(n, d) /\ rpc'[d].result = rpc[d].result
          BY <4>1, ZenonT(40) DEF ServiceInv
        <5>. QED  BY <2>5, <2>8, <4>1, <5>1, <5>2, <5>3, <5>4, RequestPassed, Zenon
      <4>. QED  BY <4>2, <4>3, Zenon
    <3>2. CASE d = c /\ n # k
      <4>1. CtxDone(n, d)' /\ CtxDone(n, d) /\ node'[n] = node[n]
        BY <2>1, <2>2, <2>4, <3>2, Zenon DEF CtxDone, k
      <4>. QED  BY <2>5, <2>8, <4>1, RequestKept, Zenon DEF ServiceInv
    <3>3. CASE d = c /\ n = k
      <4>1. CtxDone(n, d) /\ (CtxDone(n, d)' <=> rpc[c].done)
        BY <1>1, <2>1, <2>2, <3>3 DEF CtxDone
      <4>2. rpc[c].done => GivenUp(c) \/ Halted(k)
        BY <1>1, Zenon DEF ServiceInv, HandlerInv, k
      <4>3. Running(k) /\ ~rpc[c].done => c \notin Range(node[k].queue) /\ c \notin node[k].pending
        BY <1>1, <2>9, <3>3, <4>1, Zenon DEF ServiceInv, RequestInv
      <4>4. rpc'[c].result.kind = "none"
        BY <1>1, <2>1, <2>2, ZenonT(40) DEF ServiceInv, HandlerInv
      <4>5. Running(k) /\ ~rpc[c].done =>
              ExactlyOne(c \in Range(p.queue), c \in p.pending, rpc'[c].result.kind # "none")
        BY <2>3, <2>11, <4>3, <4>4, Zenon DEF ExactlyOne
      <4>. QED  BY <2>3, <2>5, <2>8, <2>11, <3>3, <4>1, <4>2, <4>3, <4>5, Zenon DEF RequestInv
    <3>. QED  BY <3>1, <3>2, <3>3, Zenon
  <2>13. ASSUME NEW n \in Node, NEW o \in Operator
         PROVE  OperatorInv(n, o)'
    <3>1. o # c /\ op'[o] = op[o] /\ OperatorInv(n, o)
      BY <1>1, ServiceAssumption, Zenon DEF ServiceInv
    <3>2. /\ o \in Range(node'[n].queue) <=> o \in Range(node[n].queue)
          /\ Once(node[n].queue, o) => Once(node'[n].queue, o)
          /\ node'[n].waiters = node[n].waiters
      BY <2>3, <2>4, <2>11, <3>1, Zenon
    <3>. QED  BY <2>5, <3>1, <3>2, OperatorPassed, Zenon
  <2>. QED  BY <2>6, <2>7, <2>10, <2>12, <2>13, SMTT(30) DEF ServiceInv
<1>. QED  BY <1>2, <1>3 DEF Enqueue

-----------------------------------------------------------------------------
(* CreateSnapshot *)

\* A CreateSnapshot begins or returns.
LEMMA OperatorMoves ==
  ASSUME ServiceInv, UNCHANGED <<clientVars, node, leader, rpc>>, NEW o \in Operator,
         NEW x \in {"enqueue", "finished"},
         op' = [op EXCEPT ![o].at = x],
         x = "enqueue" => op[o].at = "idle"
  PROVE  ServiceInv'
<1>. DEFINE r == [op[o] EXCEPT !.at = x]
<1>1. /\ op \in [Operator -> OperatorCall] /\ op[o] \in OperatorCall
      /\ UNCHANGED <<caller, connections, closed>>
  BY DEF ServiceInv, StateInv, clientVars
<1>2. r \in OperatorCall /\ r.at = x /\ r.result = op[o].result /\ op' = [op EXCEPT ![o] = r]
  BY <1>1 DEF OperatorCall
<1>. HIDE DEF r
<1>3. /\ op' \in [Operator -> OperatorCall] /\ op'[o] = r
      /\ \A u \in Operator \ {o} : op'[u] = op[u]
  BY <1>1, <1>2
<1>4. StateInv' /\ ClosedHoldsNoConnection'
  BY <1>1, <1>3, SMTT(30) DEF ServiceInv, StateInv, ClosedHoldsNoConnection
<1>5. \A c \in Caller : HandlerInv(c)'
  BY <1>1 DEF ServiceInv, HandlerInv, GivenUp, Halted
<1>6. \A n \in Node, c \in Caller : RequestInv(n, c)'
  BY <1>1 DEF ServiceInv, RequestInv, GivenUp, Halted, Running, CtxDone
<1>7. ASSUME NEW n \in Node, NEW u \in Operator
      PROVE  OperatorInv(n, u)'
  <2>1. CASE u = o
    BY <1>2, <1>3, <2>1, Zenon DEF ServiceInv, OperatorInv
  <2>2. CASE u # o
    BY <1>3, <2>2, OperatorKept DEF ServiceInv, Running
  <2>. QED  BY <2>1, <2>2, Zenon
<1>. QED  BY <1>4, <1>5, <1>6, <1>7 DEF ServiceInv

\* A CreateSnapshot joins the queue of its Node.
LEMMA OperatorEnqueues ==
  ASSUME ServiceInv, UNCHANGED <<clientVars, leader, rpc>>, NEW o \in Operator,
         op[o].at = "enqueue", Free(Home[o]),
         node' = [node EXCEPT ![Home[o]].queue = Append(@, o)],
         op' = [op EXCEPT ![o].at = "wait"]
  PROVE  ServiceInv'
<1>. DEFINE k == Home[o]
            r == [op[o] EXCEPT !.at = "wait"]
<1>1. /\ k \in Node
      /\ op \in [Operator -> OperatorCall] /\ op[o] \in OperatorCall
      /\ rpc \in [Caller -> Call] /\ leader \in Node \cup {NoNode}
      /\ UNCHANGED <<caller, connections, closed, rpc, leader>>
  BY ServiceAssumption, Zenon DEF ServiceInv, StateInv, clientVars
<1>2. r \in OperatorCall /\ r.at = "wait" /\ r.result = op[o].result /\ op' = [op EXCEPT ![o] = r]
  BY <1>1 DEF OperatorCall
<1>. HIDE DEF r
<1>3. /\ op' \in [Operator -> OperatorCall] /\ op'[o] = r
      /\ \A u \in Operator \ {o} : op'[u] = op[u]
  BY <1>1, <1>2
<1>4. Free(k) /\ node' = [node EXCEPT ![k].queue = Append(@, o)] /\ o \in Caller \cup Operator
  OBVIOUS
<1>. HIDE DEF k
<1>5. PICK p \in Process :
        /\ node' = [node EXCEPT ![k] = p]
        /\ node'[k] = p
        /\ Len(p.queue) <= QueueCap
        /\ p.queue = Append(node[k].queue, o)
        /\ p.errors = node[k].errors
        /\ p.run = node[k].run
        /\ p.goroutine = node[k].goroutine
        /\ p.pending = node[k].pending
        /\ p.waiters = node[k].waiters
  BY <1>1, <1>4, JoinsQueue, Zenon
<1>6. /\ node \in [Node -> Process] /\ node' \in [Node -> Process]
      /\ \A n \in Node \ {k} : node'[n] = node[n]
      /\ node[k].queue \in Seq(Caller \cup Operator)
  <2>1. node \in [Node -> Process]
    BY Zenon DEF ServiceInv, StateInv
  <2>2. node[k] \in Process
    BY <1>1, <2>1, Zenon
  <2>3. node[k].queue \in Seq(Caller \cup Operator)
    BY <2>2, Zenon DEF Process
  <2>4. node' = [node EXCEPT ![k] = p]
    BY <1>5, Zenon
  <2>5. node' \in [Node -> Process]
    BY <1>1, <2>1, <2>4, Zenon
  <2>6. \A n \in Node \ {k} : node'[n] = node[n]
    BY <2>1, <2>4, Zenon
  <2>. QED  BY <2>1, <2>3, <2>5, <2>6, Zenon
<1>7. \A n \in Node : (Running(n)' <=> Running(n)) /\ (Halted(n)' <=> Halted(n))
  BY <1>5, <1>6, SMTT(30) DEF Running, Halted
<1>8. StateInv'
  <2>1. \A n \in Node : Len(node'[n].queue) <= QueueCap /\ node'[n].errors <= ServeErrorsCap
    BY <1>5, <1>6 DEF ServiceInv, StateInv
  <2>. QED  BY <1>1, <1>3, <1>6, <2>1, SMTT(30) DEF ServiceInv, StateInv
<1>9. ClosedHoldsNoConnection'
  BY <1>1 DEF ServiceInv, ClosedHoldsNoConnection
<1>10. \A c \in Caller : GivenUp(c)' <=> GivenUp(c)
  BY <1>1 DEF GivenUp
<1>11. \A n \in Node, c \in Caller : CtxDone(n, c)' <=> CtxDone(n, c)
  BY <1>1 DEF CtxDone
<1>12. \A c \in Caller : HandlerInv(c)'
  BY <1>1, <1>7, <1>10, Zenon DEF ServiceInv, HandlerInv
<1>13. /\ Range(p.queue) = Range(node[k].queue) \cup {o}
       /\ \A y : y # o /\ Once(node[k].queue, y) => Once(p.queue, y)
       /\ o \notin Range(node[k].queue) => Once(p.queue, o)
  BY <1>4, <1>5, <1>6, QueueAppend, SMTT(30)
<1>14. ASSUME NEW n \in Node, NEW x, x # o
       PROVE  /\ x \in Range(node'[n].queue) <=> x \in Range(node[n].queue)
              /\ Once(node[n].queue, x) => Once(node'[n].queue, x)
  <2>1. CASE n = k
    BY <1>5, <1>13, <1>14, <2>1, Zenon
  <2>2. CASE n # k
    BY <1>6, <2>2, Zenon
  <2>. QED  BY <2>1, <2>2, Zenon
<1>15. \A n \in Node : node'[n].pending = node[n].pending /\ node'[n].waiters = node[n].waiters
  BY <1>5, <1>6
<1>16. ASSUME NEW n \in Node, NEW c \in Caller
       PROVE  RequestInv(n, c)'
  <2>1. c # o
    BY ServiceAssumption, Zenon
  <2>2. /\ c \in Range(node'[n].queue) <=> c \in Range(node[n].queue)
        /\ Once(node[n].queue, c) => Once(node'[n].queue, c)
    BY <2>1, <1>14, Zenon
  <2>3. RequestInv(n, c) /\ rpc' = rpc
    BY <1>1, Zenon DEF ServiceInv
  <2>. QED  BY <1>7, <1>10, <1>11, <1>15, <2>2, <2>3, RequestPassed, Zenon
<1>17. ASSUME NEW n \in Node, NEW u \in Operator
       PROVE  OperatorInv(n, u)'
  <2>1. CASE u # o
    <3>1. /\ u \in Range(node'[n].queue) <=> u \in Range(node[n].queue)
          /\ Once(node[n].queue, u) => Once(node'[n].queue, u)
      BY <1>14, <2>1, Zenon
    <3>2. OperatorInv(n, u) /\ op'[u] = op[u]
      BY <1>3, <2>1, Zenon DEF ServiceInv
    <3>. QED  BY <1>7, <1>15, <3>1, <3>2, OperatorPassed, Zenon
  <2>2. CASE u = o
    <3>1. o \notin Range(node[n].queue) /\ o \notin node[n].waiters /\ op[o].result = "none"
      BY Zenon DEF ServiceInv, OperatorInv
    <3>2. CASE n = k
      <4>1. /\ ExactlyOne(o \in Range(node'[k].queue), o \in node'[k].waiters, op'[o].result # "none")
            /\ Once(node'[k].queue, o)
        BY <1>1, <1>2, <1>3, <1>5, <1>13, <3>1, <3>2 DEF ExactlyOne
      <4>. QED  BY <1>2, <1>3, <2>2, <3>2, <4>1, Zenon DEF OperatorInv, k
    <3>3. CASE n # k
      <4>1. o \notin Range(node'[n].queue) /\ o \notin node'[n].waiters
        BY <1>6, <3>1, <3>3, Zenon
      <4>. QED  BY <1>2, <1>3, <2>2, <3>3, <4>1 DEF OperatorInv, k
    <3>. QED  BY <3>2, <3>3, Zenon
  <2>. QED  BY <2>1, <2>2, Zenon
<1>. QED  BY <1>8, <1>9, <1>12, <1>16, <1>17 DEF ServiceInv

\* The steps of CreateSnapshot.
LEMMA OperatorPreserves ==
  ASSUME ServiceInv, UNCHANGED clientVars, NEW o \in Operator,
         CreateSnapshot(o) \/ OperatorStep(o) \/ OperatorExpires(o)
  PROVE  ServiceInv'
<1>1. CASE CreateSnapshot(o)
  BY <1>1, OperatorMoves, Zenon DEF CreateSnapshot
<1>2. CASE OperatorExpires(o)
  BY <1>2, OperatorMoves, Zenon DEF OperatorExpires
<1>3. CASE OperatorStep(o)
  <2>1. UNCHANGED <<leader, rpc>>
    BY <1>3, Zenon DEF OperatorStep
  <2>2. CASE /\ op[o].at = "enqueue" /\ Free(Home[o])
             /\ node' = [node EXCEPT ![Home[o]].queue = Append(@, o)]
             /\ op' = [op EXCEPT ![o].at = "wait"]
    BY <2>1, <2>2, OperatorEnqueues, Zenon
  <2>3. CASE op' = [op EXCEPT ![o].at = "finished"] /\ UNCHANGED node
    BY <2>1, <2>3, OperatorMoves, Zenon
  <2>. QED  BY <1>3, <2>2, <2>3 DEF OperatorStep
<1>. QED  BY <1>1, <1>2, <1>3

-----------------------------------------------------------------------------
(* The loop *)

Live(k) == {c \in node[k].pending : ~CtxDone(k, c)}

\* What the calls look like after results went to T.
LEMMA Delivered ==
  ASSUME ServiceInv, NEW k \in Node, NEW T, NEW a \in Told, Deliver(k, T, a)
  PROVE  /\ rpc' \in [Caller -> Call]
         /\ \A c \in Caller :
              /\ SameCall(k, c)
              /\ rpc'[c].result = IF c \in T /\ ~CtxDone(k, c) THEN a ELSE rpc[c].result
<1>1. rpc \in [Caller -> Call]
  BY Zenon DEF ServiceInv, StateInv
<1>2. ASSUME NEW c \in Caller
      PROVE  /\ rpc'[c] \in Call
             /\ SameCall(k, c)
             /\ rpc'[c].result = IF c \in T /\ ~CtxDone(k, c) THEN a ELSE rpc[c].result
  <2>1. CASE c \in T /\ ~CtxDone(k, c)
    <3>1. rpc'[c] = [rpc[c] EXCEPT !.result = a]
      BY <2>1, Zenon DEF Deliver
    <3>. QED  BY <1>1, <2>1, <3>1, Zenon DEF Call, SameCall
  <2>2. CASE ~(c \in T /\ ~CtxDone(k, c))
    <3>1. rpc'[c] = rpc[c]
      BY <2>2 DEF Deliver
    <3>. QED  BY <1>1, <2>2, <3>1, Zenon DEF SameCall
  <2>. QED  BY <2>1, <2>2, Zenon
<1>3. rpc' \in [Caller -> Call]
  <2>1. rpc' = [c \in Caller |-> rpc'[c]]
    BY Zenon DEF Deliver
  <2>. QED  BY <1>2, <2>1
<1>. QED  BY <1>2, <1>3

\* An iteration that takes nothing from the queue and tells the callers T, of those
\* it knows of, a result.
LEMMA LoopTells ==
  ASSUME ServiceInv, UNCHANGED <<clientVars, op>>, NEW k \in Node, NEW p \in Process, Running(k),
         node' = [node EXCEPT ![k] = p],
         p.run = node[k].run,
         p.goroutine = node[k].goroutine,
         p.errors = node[k].errors,
         p.queue = node[k].queue,
         p.waiters = node[k].waiters,
         leader' \in Node \cup {NoNode},
         NEW T \in SUBSET node[k].pending, NEW a \in Told, a.kind # "none",
         Deliver(k, T, a),
         p.pending = Live(k) \ T
  PROVE  ServiceInv'
<1>1. /\ rpc' \in [Caller -> Call]
      /\ \A c \in Caller : SameCall(k, c)
      /\ \A c \in Caller : rpc'[c].result = IF c \in T /\ ~CtxDone(k, c) THEN a ELSE rpc[c].result
  BY Delivered
<1>2. /\ node \in [Node -> Process] /\ node'[k] = p
      /\ op \in [Operator -> OperatorCall]
      /\ Len(p.queue) <= QueueCap /\ p.errors <= ServeErrorsCap
      /\ UNCHANGED <<caller, op>>
  BY Zenon DEF ServiceInv, StateInv, clientVars
<1>3. (Running(k)' <=> Running(k)) /\ (Halted(k)' <=> Halted(k))
  BY <1>2, Zenon DEF Running, Halted
<1>4. ASSUME NEW c \in Caller
      PROVE  RequestInv(k, c)'
  <2>1. /\ GivenUp(c)' <=> GivenUp(c)
        /\ CtxDone(k, c)' <=> CtxDone(k, c)
    BY <1>1, <1>2, SameCallKeeps, Zenon
  <2>2. node'[k].queue = node[k].queue /\ node'[k].pending = Live(k) \ T
    BY <1>2, Zenon
  <2>3. ~CtxDone(k, c) => (c \in Live(k) <=> c \in node[k].pending)
    BY Zenon DEF Live
  <2>4. c \in Live(k) => c \in node[k].pending
    BY Zenon DEF Live
  <2>5. ASSUME ~CtxDone(k, c),
               ExactlyOne(c \in Range(node[k].queue), c \in node[k].pending,
                          rpc[c].result.kind # "none")
        PROVE  ExactlyOne(c \in Range(node'[k].queue), c \in node'[k].pending,
                          rpc'[c].result.kind # "none")
    <3>1. CASE c \in T
      <4>1. rpc'[c].result = a
        BY <1>1, <2>5, <3>1, Zenon
      <4>2. c \in node[k].pending
        BY <3>1, Zenon
      <4>. QED  BY <2>2, <2>5, <3>1, <4>1, <4>2 DEF ExactlyOne
    <3>2. CASE c \notin T
      <4>1. rpc'[c].result = rpc[c].result
        BY <1>1, <3>2, Zenon
      <4>. QED  BY <2>2, <2>3, <2>5, <3>2, <4>1, Zenon DEF ExactlyOne
    <3>. QED  BY <3>1, <3>2, ZenonT(40)
  <2>6. /\ RequestInv(k, c)
        /\ c \in Range(node'[k].queue) => c \in Range(node[k].queue)
        /\ c \in node'[k].pending => c \in node[k].pending
        /\ Once(node[k].queue, c) => Once(node'[k].queue, c)
    BY <2>2, <2>4, Zenon DEF ServiceInv
  <2>7. c \in Range(node'[k].queue) \/ c \in node'[k].pending
          => ~CtxDone(k, c)' \/ GivenUp(c)' \/ Halted(k)'
    BY <1>3, <2>1, <2>6, Zenon DEF RequestInv
  <2>8. ~CtxDone(k, c)' => /\ ExactlyOne(c \in Range(node'[k].queue), c \in node'[k].pending,
                                         rpc'[c].result.kind # "none")
                           /\ Once(node'[k].queue, c)
    BY <1>3, <2>1, <2>5, <2>6, Zenon DEF RequestInv
  <2>. QED  BY <2>7, <2>8, Zenon DEF RequestInv
<1>5. ASSUME NEW o \in Operator
      PROVE  SameRequest(k, o) /\ OperatorInv(k, o)'
  BY <1>2, <1>3, OperatorKept, Zenon DEF ServiceInv, SameRequest
<1>. QED  BY <1>1, <1>2, <1>4, <1>5, ProcessFrame, ZenonT(40) DEF Running, Halted

\* An iteration that takes the request of a caller and answers it, or keeps it
\* among the pending ones.
LEMMA LoopTakes ==
  ASSUME ServiceInv, UNCHANGED <<clientVars, op>>, NEW k \in Node, NEW p \in Process, Running(k),
         node[k].queue # <<>>, Head(node[k].queue) \in Caller,
         node' = [node EXCEPT ![k] = p],
         p.run = node[k].run,
         p.goroutine = node[k].goroutine,
         p.errors = node[k].errors,
         p.queue = Tail(node[k].queue),
         p.waiters = node[k].waiters,
         leader' \in Node \cup {NoNode},
         NEW T, NEW a \in Told, a.kind # "none",
         Deliver(k, T, a),
         \/ T = {Head(node[k].queue)} /\ p.pending = Live(k)
         \/ /\ T = {}
            /\ p.pending = Live(k) \cup {c \in {Head(node[k].queue)} : ~CtxDone(k, c)}
  PROVE  ServiceInv'
<1>. DEFINE h == Head(node[k].queue)
<1>1. /\ rpc' \in [Caller -> Call]
      /\ \A c \in Caller : SameCall(k, c)
      /\ \A c \in Caller : rpc'[c].result = IF c \in T /\ ~CtxDone(k, c) THEN a ELSE rpc[c].result
  BY Delivered
<1>2. /\ node \in [Node -> Process] /\ node'[k] = p
      /\ node[k].queue \in Seq(Caller \cup Operator)
      /\ Len(node[k].queue) <= QueueCap
      /\ op \in [Operator -> OperatorCall]
      /\ p.errors <= ServeErrorsCap
      /\ UNCHANGED <<caller, op>>
  BY ZenonT(40) DEF ServiceInv, StateInv, Process, clientVars
<1>3. /\ Len(p.queue) <= Len(node[k].queue)
      /\ h \in Range(node[k].queue)
      /\ Range(p.queue) \subseteq Range(node[k].queue)
      /\ \A y \in Range(node[k].queue) : y # h => y \in Range(p.queue)
      /\ \A y : Once(node[k].queue, y) => Once(p.queue, y)
      /\ Once(node[k].queue, h) => h \notin Range(p.queue)
  <2>. DEFINE q == node[k].queue
              t == Tail(node[k].queue)
  <2>1. q \in Seq(Caller \cup Operator) /\ q # <<>>
    BY <1>2, Zenon
  <2>2. /\ Len(t) <= Len(q)
        /\ h \in Range(q)
        /\ Range(t) \subseteq Range(q)
        /\ \A y \in Range(q) : y # h => y \in Range(t)
        /\ \A y : Once(q, y) => Once(t, y)
        /\ Once(q, h) => h \notin Range(t)
    BY <2>1, QueueTail, Zenon
  <2>3. p.queue = t
    BY Zenon
  <2>. HIDE DEF t, h
  <2>. QED  BY <2>2, <2>3, Zenon
<1>4. Len(p.queue) <= QueueCap
  BY <1>2, <1>3, ServiceAssumption DEF Process
<1>5. (Running(k)' <=> Running(k)) /\ (Halted(k)' <=> Halted(k))
  BY <1>2, Zenon DEF Running, Halted
<1>6. ASSUME NEW c \in Caller
      PROVE  RequestInv(k, c)'
  <2>1. /\ GivenUp(c)' <=> GivenUp(c)
        /\ CtxDone(k, c)' <=> CtxDone(k, c)
    BY <1>1, <1>2, SameCallKeeps, Zenon
  <2>2. c \in Range(node'[k].queue) => c \in Range(node[k].queue)
    BY <1>2, <1>3, Zenon
  <2>3. c \in node'[k].pending => c \in Range(node[k].queue) \/ c \in node[k].pending
    BY <1>2, <1>3, Zenon DEF Live
  <2>4. ASSUME ~CtxDone(k, c),
               ExactlyOne(c \in Range(node[k].queue), c \in node[k].pending,
                          rpc[c].result.kind # "none"),
               Once(node[k].queue, c)
        PROVE  ExactlyOne(c \in Range(node'[k].queue), c \in node'[k].pending,
                          rpc'[c].result.kind # "none")
    <3>1. c \in Live(k) <=> c \in node[k].pending
      BY <2>4, Zenon DEF Live
    <3>2. CASE c # h
      <4>1. rpc'[c].result = rpc[c].result
        BY <1>1, <3>2, Zenon
      <4>2. c \in Range(p.queue) <=> c \in Range(node[k].queue)
        BY <1>3, <3>2, Zenon
      <4>3. c \in p.pending <=> c \in node[k].pending
        BY <3>1, <3>2, Zenon
      <4>4. /\ c \in Range(node'[k].queue) <=> c \in Range(node[k].queue)
            /\ c \in node'[k].pending <=> c \in node[k].pending
            /\ rpc'[c].result.kind # "none" <=> rpc[c].result.kind # "none"
        BY <1>2, <4>1, <4>2, <4>3, Zenon
      <4>. QED  BY <2>4, <4>4, Zenon DEF ExactlyOne
    <3>3. CASE c = h
      <4>1. c \in Range(node[k].queue) /\ c \notin Range(p.queue)
        BY <1>3, <2>4, <3>3, Zenon
      <4>2. c \notin node[k].pending /\ rpc[c].result.kind = "none"
        BY <2>4, <4>1, ZenonT(40) DEF ExactlyOne
      <4>3. CASE T = {h} /\ p.pending = Live(k)
        <5>1. rpc'[c].result = a
          BY <1>1, <2>4, <3>3, <4>3, Zenon
        <5>. QED  BY <1>2, <3>1, <4>1, <4>2, <4>3, <5>1, Zenon DEF ExactlyOne
      <4>4. CASE T = {} /\ p.pending = Live(k) \cup {d \in {h} : ~CtxDone(k, d)}
        <5>1. rpc'[c].result = rpc[c].result
          BY <1>1, <4>4, Zenon
        <5>2. c \in p.pending
          BY <2>4, <3>3, <4>4, Zenon
        <5>. QED  BY <1>2, <4>1, <4>2, <5>1, <5>2, Zenon DEF ExactlyOne
      <4>. QED  BY <4>3, <4>4, Zenon
    <3>. QED  BY <3>2, <3>3, Zenon
  <2>5. Once(node[k].queue, c) => Once(node'[k].queue, c)
    BY <1>2, <1>3, Zenon
  <2>6. RequestInv(k, c)
    BY Zenon DEF ServiceInv
  <2>7. c \in Range(node'[k].queue) \/ c \in node'[k].pending
          => ~CtxDone(k, c)' \/ GivenUp(c)' \/ Halted(k)'
    BY <1>5, <2>1, <2>2, <2>3, <2>6, Zenon DEF RequestInv
  <2>8. ~CtxDone(k, c)' => /\ ExactlyOne(c \in Range(node'[k].queue), c \in node'[k].pending,
                                         rpc'[c].result.kind # "none")
                           /\ Once(node'[k].queue, c)
    BY <1>5, <2>1, <2>4, <2>5, <2>6, Zenon DEF RequestInv
  <2>. QED  BY <2>7, <2>8, Zenon DEF RequestInv
<1>7. ASSUME NEW o \in Operator
      PROVE  SameRequest(k, o) /\ OperatorInv(k, o)'
  <2>1. o # h
    BY ServiceAssumption, ZenonT(40)
  <2>2. /\ o \in Range(node'[k].queue) <=> o \in Range(node[k].queue)
        /\ Once(node[k].queue, o) => Once(node'[k].queue, o)
        /\ node'[k].waiters = node[k].waiters
    BY <1>2, <1>3, <2>1
  <2>3. OperatorInv(k, o) /\ op'[o] = op[o]
    BY Zenon DEF ServiceInv
  <2>4. SameRequest(k, o)
    BY <2>3, Zenon DEF SameRequest
  <2>. QED  BY <1>5, <2>2, <2>3, <2>4, OperatorPassed, ZenonT(40)
<1>. QED  BY <1>1, <1>2, <1>4, <1>6, <1>7, ProcessFrame, ZenonT(40) DEF Running, Halted

\* What Conclude leaves alone.
SameLoop(p, q) ==
  /\ p.run = q.run
  /\ p.goroutine = q.goroutine
  /\ p.errors = q.errors
  /\ p.queue = q.queue
  /\ p.pending = q.pending
  /\ p.waiters = q.waiters

\* An automatic Snapshot begins at the end of an iteration, or does not.
LEMMA Concluded ==
  ASSUME NEW n \in Node, NEW p \in Process, NEW left, Conclude(n, p, left)
  PROVE  \E q \in Process : node' = [node EXCEPT ![n] = q] /\ SameLoop(q, p)
<1>1. CASE node' = [node EXCEPT ![n] = p]
  BY <1>1, Zenon DEF SameLoop
<1>2. CASE node' = [node EXCEPT ![n] = [p EXCEPT !.snapshot = "automatic"]]
  <2>. DEFINE q == [p EXCEPT !.snapshot = "automatic"]
  <2>1. q \in Process /\ SameLoop(q, p)
    BY DEF Process, SameLoop
  <2>. QED  BY <1>2, <2>1, Zenon
<1>. QED  BY <1>1, <1>2, Zenon DEF Conclude

\* The requests nobody waits for are gone, and nothing else.
LEMMA PurgedIsProcess ==
  ASSUME ServiceInv, NEW k \in Node
  PROVE  /\ Purged(k) \in Process
         /\ SameLoop(Purged(k), [node[k] EXCEPT !.pending = Live(k)])
         /\ Live(k) \in SUBSET Caller
         /\ node[k] \in Process
<1>1. node[k] \in Process /\ node[k].pending \in SUBSET Caller
  BY Zenon DEF ServiceInv, StateInv, Process
<1>2. Live(k) \in SUBSET Caller
  BY <1>1 DEF Live
<1>3. Purged(k) = [node[k] EXCEPT !.pending = Live(k)]
  BY DEF Purged, Live
<1>4. Purged(k) \in Process
  <2>. DEFINE l == Live(k)
  <2>. HIDE DEF l
  <2>1. Purged(k) = [node[k] EXCEPT !.pending = l] /\ l \in SUBSET Caller
    BY <1>2, <1>3 DEF l
  <2>. QED  BY <1>1, <2>1 DEF Process
<1>. QED  BY <1>1, <1>2, <1>3, <1>4, Zenon DEF SameLoop

\* Results for nobody.
LEMMA DeliverNothing ==
  ASSUME ServiceInv, UNCHANGED rpc, NEW k \in Node, NEW a
  PROVE  Deliver(k, {}, a)
  BY Zenon DEF ServiceInv, StateInv, Deliver

\* An iteration that serves no request: BecomeReady, BecomeLeader, Follow and
\* SuspectLeader.
LEMMA LoopIdles ==
  ASSUME ServiceInv, UNCHANGED <<clientVars, op, rpc>>, NEW k \in Node, NEW p \in Process,
         Running(k),
         NEW left, Conclude(k, p, left),
         SameLoop(p, Purged(k)),
         leader' \in Node \cup {NoNode}
  PROVE  ServiceInv'
<1>1. PICK q \in Process : node' = [node EXCEPT ![k] = q] /\ SameLoop(q, p)
  BY Concluded
<1>2. /\ q.run = node[k].run
      /\ q.goroutine = node[k].goroutine
      /\ q.errors = node[k].errors
      /\ q.queue = node[k].queue
      /\ q.waiters = node[k].waiters
      /\ q.pending = Live(k)
  BY <1>1, PurgedIsProcess DEF SameLoop, Process
<1>. DEFINE T == {}
            a == Bare("final")
<1>3. /\ T \in SUBSET node[k].pending /\ a \in Told /\ a.kind # "none"
      /\ Deliver(k, T, a) /\ q.pending = Live(k) \ T
  BY <1>2, BareIsTold, DeliverNothing, Zenon
<1>. HIDE DEF T, a
<1>. QED  BY <1>1, <1>2, <1>3, LoopTells, Zenon

\* The Node's view of the Leader changes.
LEMMA ViewPreserves ==
  ASSUME ServiceInv, UNCHANGED clientVars, NEW k \in Node, Running(k),
         BecomeReady(k) \/ BecomeLeader(k) \/ Follow(k) \/ SuspectLeader(k)
  PROVE  ServiceInv'
<1>1. /\ Purged(k) \in Process /\ leader \in Node \cup {NoNode}
      /\ Purged(k).pending \in SUBSET Caller
  BY PurgedIsProcess, Zenon DEF ServiceInv, StateInv, Process
<1>. DEFINE u == Purged(k)
<1>. HIDE DEF u
<1>2. u \in Process /\ u = Purged(k)
  BY <1>1, SMTT(30) DEF u
<1>3. CASE BecomeReady(k)
  <2>. DEFINE p == [u EXCEPT !.ready = TRUE]
  <2>1. p \in Process /\ SameLoop(p, u)
    BY <1>2, Zenon DEF Process, SameLoop
  <2>2. Conclude(k, p, budget) /\ UNCHANGED <<op, leader, rpc>>
    BY <1>2, <1>3 DEF BecomeReady
  <2>. HIDE DEF p
  <2>. QED  BY <1>1, <1>2, <2>1, <2>2, LoopIdles
<1>4. CASE BecomeLeader(k)
  <2>. DEFINE p == [u EXCEPT !.leads = TRUE, !.ready = FALSE, !.leader = k]
              left == [budget EXCEPT !.changes = @ - 1]
  <2>1. p \in Process /\ SameLoop(p, u)
    BY <1>2, Zenon DEF Process, SameLoop
  <2>2. Conclude(k, p, left) /\ UNCHANGED <<op, rpc>> /\ leader' \in Node \cup {NoNode}
    BY <1>2, <1>4 DEF BecomeLeader
  <2>. HIDE DEF p, left
  <2>. QED  BY <1>2, <2>1, <2>2, LoopIdles
<1>5. ASSUME NEW m \in Node \cup {NoNode}, Conclude(k, [u EXCEPT !.leader = m], budget),
             UNCHANGED <<op, leader, rpc>>
      PROVE  ServiceInv'
  <2>. DEFINE p == [u EXCEPT !.leader = m]
  <2>1. p \in Process /\ SameLoop(p, u)
    BY <1>2 DEF Process, SameLoop
  <2>2. Conclude(k, p, budget) /\ UNCHANGED <<op, leader, rpc>>
    BY <1>5
  <2>. HIDE DEF p
  <2>. QED  BY <1>1, <1>2, <2>1, <2>2, LoopIdles
<1>6. CASE Follow(k) \/ SuspectLeader(k)
  BY <1>1, <1>2, <1>5, <1>6, Zenon DEF Follow, SuspectLeader
<1>. QED  BY <1>3, <1>4, <1>6, Zenon

\* An entry is applied, or a read confirmed.
LEMMA ApplyPreserves ==
  ASSUME ServiceInv, UNCHANGED clientVars, NEW k \in Node, Running(k), NEW c \in Caller, Apply(k, c)
  PROVE  ServiceInv'
<1>. DEFINE u == Purged(k)
            l == u.pending \ {c}
            p == [u EXCEPT !.pending = l, !.ready = TRUE]
            T == {c}
            a == Bare("final")
<1>1. /\ u \in Process /\ leader \in Node \cup {NoNode}
      /\ u.pending = Live(k) /\ Live(k) \in SUBSET Caller
      /\ u.run = node[k].run /\ u.goroutine = node[k].goroutine /\ u.errors = node[k].errors
      /\ u.queue = node[k].queue /\ u.waiters = node[k].waiters
  BY PurgedIsProcess DEF ServiceInv, StateInv, Process, SameLoop
<1>2. /\ Deliver(k, T, a) /\ Conclude(k, p, budget) /\ UNCHANGED <<op, leader>>
      /\ T \in SUBSET node[k].pending
  BY DEF Apply
<1>3. a \in Told /\ a.kind # "none"
  BY BareIsTold, Zenon
<1>4. l \in SUBSET Caller /\ l = Live(k) \ T
  BY <1>1
<1>. HIDE DEF u, l, T, a
<1>5. /\ p \in Process /\ p.pending = l
      /\ p.run = u.run /\ p.goroutine = u.goroutine /\ p.errors = u.errors
      /\ p.queue = u.queue /\ p.waiters = u.waiters
  BY <1>1, <1>4, ZenonT(40) DEF Process
<1>. HIDE DEF p
<1>6. PICK q \in Process : node' = [node EXCEPT ![k] = q] /\ SameLoop(q, p)
  BY <1>2, <1>5, Concluded
<1>7. /\ q.run = node[k].run /\ q.goroutine = node[k].goroutine /\ q.errors = node[k].errors
      /\ q.queue = node[k].queue /\ q.waiters = node[k].waiters
      /\ q.pending = Live(k) \ T /\ leader' \in Node \cup {NoNode}
  BY <1>1, <1>2, <1>4, <1>5, <1>6, Zenon DEF SameLoop
<1>. QED  BY <1>2, <1>3, <1>6, <1>7, LoopTells, Zenon

\* A Leader steps down and tells everyone who waits.
LEMMA LoseLeadershipPreserves ==
  ASSUME ServiceInv, UNCHANGED <<clientVars, op>>, NEW k \in Node, Running(k),
         NEW m \in Node \cup {NoNode}, NEW left, LoseLeadership(k, m, left),
         leader' \in Node \cup {NoNode}
  PROVE  ServiceInv'
<1>. DEFINE u == Purged(k)
            p == [u EXCEPT !.leads = FALSE, !.leader = m, !.pending = {}]
            T == node[k].pending
            a == NotLeader(m)
<1>1. /\ u \in Process
      /\ u.run = node[k].run /\ u.goroutine = node[k].goroutine /\ u.errors = node[k].errors
      /\ u.queue = node[k].queue /\ u.waiters = node[k].waiters
  BY PurgedIsProcess DEF Process, SameLoop
<1>2. Deliver(k, T, a) /\ Conclude(k, p, left)
  BY DEF LoseLeadership
<1>3. a \in Told /\ a.kind # "none"
  BY NotLeaderIsTold, Zenon
<1>4. T \in SUBSET node[k].pending /\ {} = Live(k) \ T
  BY DEF Live
<1>. HIDE DEF u, T, a
<1>5. /\ p \in Process /\ p.pending = {}
      /\ p.run = u.run /\ p.goroutine = u.goroutine /\ p.errors = u.errors
      /\ p.queue = u.queue /\ p.waiters = u.waiters
  BY <1>1, Zenon DEF Process
<1>. HIDE DEF p
<1>6. PICK q \in Process : node' = [node EXCEPT ![k] = q] /\ SameLoop(q, p)
  BY <1>2, <1>5, Concluded, Zenon
<1>7. /\ q.run = node[k].run /\ q.goroutine = node[k].goroutine /\ q.errors = node[k].errors
      /\ q.queue = node[k].queue /\ q.waiters = node[k].waiters
      /\ q.pending = Live(k) \ T
  BY <1>1, <1>4, <1>5, <1>6 DEF SameLoop
<1>. QED  BY <1>2, <1>3, <1>4, <1>6, <1>7, LoopTells, Zenon

\* By a higher term, or because a quorum does not answer.
LEMMA StepDownPreserves ==
  ASSUME ServiceInv, UNCHANGED clientVars, NEW k \in Node, Running(k), StepDown(k)
  PROVE  ServiceInv'
<1>1. leader \in Node \cup {NoNode} /\ UNCHANGED op
  BY Zenon DEF ServiceInv, StateInv, StepDown
<1>2. CASE (\E m \in {leader, NoNode} : LoseLeadership(k, m, budget)) /\ UNCHANGED leader
  <2>1. PICK m \in {leader, NoNode} : LoseLeadership(k, m, budget)
    BY <1>2, Zenon
  <2>2. m \in Node \cup {NoNode} /\ leader' \in Node \cup {NoNode}
    BY <1>1, <1>2, Zenon
  <2>. QED  BY <1>1, <2>1, <2>2, LoseLeadershipPreserves, Zenon
<1>3. CASE /\ leader' = NoNode
           /\ LoseLeadership(k, NoNode, [budget EXCEPT !.changes = @ - 1])
  <2>. DEFINE left == [budget EXCEPT !.changes = @ - 1]
  <2>1. LoseLeadership(k, NoNode, left) /\ leader' \in Node \cup {NoNode}
    BY <1>3, Zenon
  <2>. HIDE DEF left
  <2>. QED  BY <1>1, <2>1, LoseLeadershipPreserves, Zenon
<1>. QED  BY <1>2, <1>3, Zenon DEF StepDown

\* The loop takes the request of a caller.
LEMMA TakeRequestPreserves ==
  ASSUME ServiceInv, UNCHANGED clientVars, NEW k \in Node, Running(k), TakeRequest(k)
  PROVE  ServiceInv'
<1>. DEFINE h == Head(node[k].queue)
            u == Purged(k)
            t == Tail(node[k].queue)
            p == [u EXCEPT !.queue = Tail(@)]
<1>1. /\ u \in Process /\ leader \in Node \cup {NoNode}
      /\ node[k].queue \in Seq(Caller \cup Operator)
      /\ node[k].leader \in Node \cup {NoNode}
      /\ u.pending = Live(k) /\ Live(k) \in SUBSET Caller
      /\ u.run = node[k].run /\ u.goroutine = node[k].goroutine /\ u.errors = node[k].errors
      /\ u.queue = node[k].queue /\ u.waiters = node[k].waiters
  BY PurgedIsProcess, Zenon DEF ServiceInv, StateInv, Process, SameLoop
<1>2. /\ node[k].queue # <<>> /\ h \in Caller /\ UNCHANGED <<op, leader>>
      /\ Accepted(k, h) \/ Rejected(k, h) \/ Evaluated(k, h)
  BY Zenon DEF TakeRequest
<1>3. t \in Seq(Caller \cup Operator)
  BY <1>1, <1>2, QueueTail, Zenon
<1>. HIDE DEF u, h, t
<1>4. /\ p \in Process /\ p.queue = t
      /\ p.run = u.run /\ p.goroutine = u.goroutine /\ p.errors = u.errors
      /\ p.pending = u.pending /\ p.waiters = u.waiters
  BY <1>1, <1>3, Zenon DEF Process, t
<1>5. CASE Accepted(k, h)
  <2>. DEFINE l == IF CtxDone(k, h) THEN u.pending ELSE u.pending \cup {h}
              r == [u EXCEPT !.queue = Tail(@),
                             !.pending = IF CtxDone(k, h) THEN @ ELSE @ \cup {h}]
              T == {}
              a == Bare("final")
  <2>1. l \in SUBSET Caller /\ l = Live(k) \cup {c \in {h} : ~CtxDone(k, c)}
    BY <1>1, <1>2, Zenon
  <2>2. Conclude(k, r, budget) /\ UNCHANGED rpc
    BY <1>5 DEF Accepted, u
  <2>3. /\ r \in Process /\ r.queue = t
        /\ r.run = u.run /\ r.goroutine = u.goroutine /\ r.errors = u.errors
        /\ r.pending = l /\ r.waiters = u.waiters
    BY <1>1, <1>3, <2>1, ZenonT(40) DEF Process, t
  <2>. HIDE DEF r, l
  <2>4. PICK q \in Process : node' = [node EXCEPT ![k] = q] /\ SameLoop(q, r)
    BY <2>2, <2>3, Concluded
  <2>5. /\ q.run = node[k].run /\ q.goroutine = node[k].goroutine /\ q.errors = node[k].errors
        /\ q.queue = Tail(node[k].queue) /\ q.waiters = node[k].waiters
        /\ q.pending = l /\ leader' \in Node \cup {NoNode}
    BY <1>1, <1>2, <2>3, <2>4, Zenon DEF SameLoop, t
  <2>6. a \in Told /\ a.kind # "none" /\ Deliver(k, T, a)
    BY <2>2, BareIsTold, DeliverNothing, Zenon
  <2>7. T = {} /\ q.pending = Live(k) \cup {c \in {Head(node[k].queue)} : ~CtxDone(k, c)}
    BY <2>1, <2>5, Zenon DEF h
  <2>. HIDE DEF T, a
  <2>. QED  BY <1>2, <2>4, <2>5, <2>6, <2>7, LoopTakes, Zenon DEF h
<1>6. ASSUME NEW a \in Told, a.kind # "none", Deliver(k, {h}, a),
             NEW q \in Process, node' = [node EXCEPT ![k] = q], SameLoop(q, p)
      PROVE  ServiceInv'
  <2>. DEFINE T == {h}
  <2>1. /\ q.run = node[k].run /\ q.goroutine = node[k].goroutine /\ q.errors = node[k].errors
        /\ q.queue = Tail(node[k].queue) /\ q.waiters = node[k].waiters
        /\ leader' \in Node \cup {NoNode}
    BY <1>1, <1>2, <1>4, <1>6 DEF SameLoop, t
  <2>2. Deliver(k, T, a) /\ T = {Head(node[k].queue)} /\ q.pending = Live(k)
    BY <1>1, <1>4, <1>6, Zenon DEF SameLoop, h
  <2>. HIDE DEF T
  <2>. QED  BY <1>2, <1>6, <2>1, <2>2, LoopTakes, Zenon DEF h
<1>7. CASE Rejected(k, h)
  <2>1. PICK a \in Told : a.kind # "none" /\ Deliver(k, {h}, a)
    <3>1. CASE Deliver(k, {h}, NotLeader(node[k].leader))
      BY <1>1, <3>1, NotLeaderIsTold
    <3>2. CASE Deliver(k, {h}, Bare("unavailable"))
      BY <3>2, BareIsTold, Zenon
    <3>. QED  BY <1>7, <3>1, <3>2, Zenon DEF Rejected
  <2>2. Conclude(k, p, budget)
    BY <1>7, Zenon DEF Rejected, u
  <2>. HIDE DEF p
  <2>3. PICK q \in Process : node' = [node EXCEPT ![k] = q] /\ SameLoop(q, p)
    BY <1>4, <2>2, Concluded, Zenon
  <2>. QED  BY <1>6, <2>1, <2>3, Zenon
<1>8. CASE Evaluated(k, h)
  <2>. DEFINE a == Bare("final")
  <2>1. a \in Told /\ a.kind # "none"
    BY BareIsTold
  <2>2. Deliver(k, {h}, a) /\ node' = [node EXCEPT ![k] = p]
    BY <1>8 DEF Evaluated, u
  <2>3. SameLoop(p, p)
    BY Zenon DEF SameLoop
  <2>. HIDE DEF a, p
  <2>. QED  BY <1>4, <1>6, <2>1, <2>2, <2>3, Zenon
<1>. QED  BY <1>2, <1>5, <1>7, <1>8

\* The loop takes a request for a Snapshot.
LEMMA TakeSnapshotRequestPreserves ==
  ASSUME ServiceInv, UNCHANGED clientVars, NEW k \in Node, Running(k), TakeSnapshotRequest(k)
  PROVE  ServiceInv'
<1>. DEFINE h == Head(node[k].queue)
            u == Purged(k)
            t == Tail(node[k].queue)
            w == u.waiters \cup {h}
            v == IF u.snapshot = "none" THEN "manual" ELSE u.snapshot
            p == [u EXCEPT !.queue = Tail(@), !.waiters = @ \cup {Head(node[k].queue)},
                           !.snapshot = IF @ = "none" THEN "manual" ELSE @]
<1>1. /\ u \in Process /\ leader \in Node \cup {NoNode} /\ op \in [Operator -> OperatorCall]
      /\ rpc \in [Caller -> Call]
      /\ node \in [Node -> Process]
      /\ node[k].queue \in Seq(Caller \cup Operator)
      /\ Len(node[k].queue) <= QueueCap /\ node[k].errors <= ServeErrorsCap
      /\ u.pending = Live(k) /\ Live(k) \in SUBSET Caller
      /\ u.run = node[k].run /\ u.goroutine = node[k].goroutine /\ u.errors = node[k].errors
      /\ u.queue = node[k].queue /\ u.waiters = node[k].waiters
  BY PurgedIsProcess DEF ServiceInv, StateInv, Process, SameLoop
<1>2. /\ node[k].queue # <<>> /\ h \in Operator /\ node' = [node EXCEPT ![k] = p]
      /\ UNCHANGED <<op, leader, rpc, caller>>
  BY Zenon DEF TakeSnapshotRequest, clientVars
<1>3. /\ t \in Seq(Caller \cup Operator)
      /\ Len(t) <= Len(node[k].queue)
      /\ h \in Range(node[k].queue)
      /\ Range(t) \subseteq Range(node[k].queue)
      /\ \A y \in Range(node[k].queue) : y # h => y \in Range(t)
      /\ \A y : Once(node[k].queue, y) => Once(t, y)
      /\ Once(node[k].queue, h) => h \notin Range(t)
  BY <1>1, <1>2, QueueTail, Zenon
<1>4. w \in SUBSET Operator /\ v \in {"none", "manual", "automatic"} /\ w = node[k].waiters \cup {h}
  BY <1>1, <1>2, ZenonT(40) DEF Process
<1>5. Len(t) <= QueueCap
  BY <1>1, <1>3, ServiceAssumption
<1>. HIDE DEF u
<1>6. /\ p \in Process /\ p.queue = t
      /\ p.run = node[k].run /\ p.goroutine = node[k].goroutine /\ p.errors = node[k].errors
      /\ p.pending = Live(k) /\ p.waiters = w
  BY <1>1, <1>3, <1>4, Zenon DEF Process
<1>. HIDE DEF p, h, t, w, v
<1>7. node'[k] = p
  BY <1>1, <1>2, Zenon
<1>8. (Running(k)' <=> Running(k)) /\ (Halted(k)' <=> Halted(k))
  BY <1>6, <1>7, Zenon DEF Running, Halted
<1>9. ASSUME NEW c \in Caller
      PROVE  SameCall(k, c) /\ RequestInv(k, c)'
  <2>1. SameCall(k, c)
    BY <1>2, Zenon DEF SameCall
  <2>2. /\ GivenUp(c)' <=> GivenUp(c)
        /\ CtxDone(k, c)' <=> CtxDone(k, c)
    BY <1>2, <2>1, SameCallKeeps, Zenon
  <2>3. c # h
    BY <1>2, ServiceAssumption, Zenon
  <2>4. /\ c \in Range(node'[k].queue) <=> c \in Range(node[k].queue)
        /\ Once(node[k].queue, c) => Once(node'[k].queue, c)
    BY <1>3, <1>6, <1>7, <2>3, Zenon
  <2>5. /\ c \in node'[k].pending => c \in node[k].pending
        /\ ~CtxDone(k, c) /\ c \in node[k].pending => c \in node'[k].pending
    BY <1>6, <1>7, Zenon DEF Live
  <2>6. RequestInv(k, c) /\ rpc' = rpc
    BY <1>2, Zenon DEF ServiceInv
  <2>. QED  BY <1>8, <2>1, <2>2, <2>4, <2>5, <2>6, RequestPassed, Zenon
<1>10. ASSUME NEW o \in Operator
       PROVE  SameRequest(k, o) /\ OperatorInv(k, o)'
  <2>1. SameRequest(k, o) /\ op'[o] = op[o] /\ OperatorInv(k, o)
    BY <1>2, Zenon DEF SameRequest, ServiceInv
  <2>2. CASE o # h
    <3>1. /\ o \in Range(node'[k].queue) <=> o \in Range(node[k].queue)
          /\ Once(node[k].queue, o) => Once(node'[k].queue, o)
          /\ o \in node'[k].waiters <=> o \in node[k].waiters
      BY <1>3, <1>4, <1>6, <1>7, <2>2
    <3>. QED  BY <1>8, <2>1, <3>1, OperatorPassed, ZenonT(40)
  <2>3. CASE o = h
    <3>1. o \in Range(node[k].queue) /\ o \in node'[k].waiters /\ node'[k].queue = t
      BY <1>3, <1>4, <1>6, <1>7, <2>3, Zenon
    <3>2. Once(node[k].queue, o) => o \notin Range(t) /\ Once(t, o)
      BY <1>3, <2>3, Zenon
    <3>3. Home[o] = k /\ op[o].at \in {"wait", "finished"}
      BY <2>1, <3>1, Zenon DEF OperatorInv
    <3>4. op[o].at = "wait" => op[o].result = "none" /\ Once(node[k].queue, o)
      BY <2>1, <3>1, <3>3, Zenon DEF OperatorInv, ExactlyOne
    <3>. QED  BY <2>1, <3>1, <3>2, <3>3, <3>4, Zenon DEF OperatorInv, ExactlyOne
  <2>. QED  BY <2>2, <2>3, Zenon
<1>. QED  BY <1>1, <1>2, <1>5, <1>6, <1>9, <1>10, ProcessFrame, Zenon DEF Running, Halted

\* A Snapshot ends and its waiters are told; if the loop ends too, of whatever
\* there is to tell.
LEMMA SnapshotEnds ==
  ASSUME ServiceInv, UNCHANGED <<clientVars, rpc>>, NEW k \in Node, NEW p \in Process, Running(k),
         node' = [node EXCEPT ![k] = p],
         p.run = node[k].run,
         p.errors = node[k].errors,
         p.queue = node[k].queue,
         p.pending = Live(k),
         p.waiters = {},
         p.goroutine["raft"] = "running" => node[k].saved # "none",
         leader' \in Node \cup {NoNode},
         TellWaiters(k)
  PROVE  ServiceInv'
<1>1. /\ node \in [Node -> Process] /\ node'[k] = p
      /\ node[k].saved \in {"none", "ok", "error"}
      /\ Len(node[k].queue) <= QueueCap /\ node[k].errors <= ServeErrorsCap
      /\ op \in [Operator -> OperatorCall] /\ rpc \in [Caller -> Call]
      /\ UNCHANGED <<rpc, caller>>
  BY Zenon DEF ServiceInv, StateInv, Process, clientVars
<1>2. /\ op' \in [Operator -> OperatorCall]
      /\ \A o \in Operator :
           /\ op'[o].at = op[o].at
           /\ op'[o].result = IF o \in node[k].waiters THEN node[k].saved ELSE op[o].result
  BY <1>1, Zenon DEF TellWaiters, OperatorCall
<1>3. /\ Halted(k)' <=> Halted(k)
      /\ Running(k)' => node[k].saved # "none"
  BY <1>1, Zenon DEF Running, Halted
<1>4. ASSUME NEW c \in Caller
      PROVE  SameCall(k, c) /\ RequestInv(k, c)'
  <2>1. SameCall(k, c)
    BY <1>1, Zenon DEF SameCall
  <2>2. /\ GivenUp(c)' <=> GivenUp(c)
        /\ CtxDone(k, c)' <=> CtxDone(k, c)
    BY <1>1, <2>1, SameCallKeeps, Zenon
  <2>3. /\ c \in node'[k].pending => c \in node[k].pending
        /\ ~CtxDone(k, c) /\ c \in node[k].pending => c \in node'[k].pending
    BY <1>1, Zenon DEF Live
  <2>4. node'[k].queue = node[k].queue /\ rpc' = rpc
    BY <1>1, Zenon
  <2>5. RequestInv(k, c)
    BY Zenon DEF ServiceInv
  <2>6. ASSUME Running(k)'
        PROVE  /\ c \in Range(node[k].queue) \/ c \in node'[k].pending
                    => ~CtxDone(k, c) \/ GivenUp(c) \/ Halted(k)
               /\ ~CtxDone(k, c) =>
                    /\ ExactlyOne(c \in Range(node[k].queue), c \in node'[k].pending,
                                  rpc[c].result.kind # "none")
                    /\ Once(node[k].queue, c)
    BY <2>3, <2>5, Zenon DEF RequestInv, ExactlyOne
  <2>. QED  BY <1>3, <2>1, <2>2, <2>4, <2>6, Zenon DEF RequestInv
<1>5. ASSUME NEW o \in Operator
      PROVE  SameRequest(k, o) /\ OperatorInv(k, o)'
  <2>1. OperatorInv(k, o)
    BY Zenon DEF ServiceInv
  <2>2. SameRequest(k, o)
    BY <1>2, <2>1, Zenon DEF SameRequest, OperatorInv
  <2>3. node'[k].queue = node[k].queue /\ node'[k].waiters = {}
    BY <1>1, Zenon
  <2>4. \/ o \in node[k].waiters /\ op'[o].result = node[k].saved
        \/ o \notin node[k].waiters /\ op'[o].result = op[o].result
    BY <1>2, Zenon
  <2>5. op'[o].at = op[o].at
    BY <1>2, Zenon
  <2>6. op[o].at \in {"idle", "enqueue"} => op'[o].result = "none"
    BY <2>1, <2>4, Zenon DEF OperatorInv
  <2>7. ASSUME Running(k)', Home[o] = k, op[o].at = "wait"
        PROVE  /\ ExactlyOne(o \in Range(node[k].queue), o \in {}, op'[o].result # "none")
               /\ Once(node[k].queue, o)
    <3>1. /\ ExactlyOne(o \in Range(node[k].queue), o \in node[k].waiters, op[o].result # "none")
          /\ Once(node[k].queue, o)
      BY <2>1, <2>7, Zenon DEF OperatorInv
    <3>2. node[k].saved # "none"
      BY <1>3, <2>7, Zenon
    <3>. QED  BY <2>4, <3>1, <3>2, Zenon DEF ExactlyOne
  <2>. QED  BY <2>1, <2>2, <2>3, <2>5, <2>6, <2>7, Zenon DEF OperatorInv
<1>. QED  BY <1>1, <1>2, <1>4, <1>5, ProcessFrame, Zenon DEF Halted

\* The loop completes a Snapshot, or returns.
LEMMA CompletePreserves ==
  ASSUME ServiceInv, UNCHANGED clientVars, NEW k \in Node, Running(k),
         CompleteSnapshot(k) \/ EndLoop(k)
  PROVE  ServiceInv'
<1>. DEFINE u == Purged(k)
            f == Finished(u)
<1>1. /\ u \in Process /\ leader \in Node \cup {NoNode}
      /\ u.pending = Live(k)
      /\ u.run = node[k].run /\ u.goroutine = node[k].goroutine /\ u.errors = node[k].errors
      /\ u.queue = node[k].queue
  BY PurgedIsProcess, Zenon DEF ServiceInv, StateInv, Process, SameLoop
<1>2. UNCHANGED rpc /\ TellWaiters(k) /\ leader' \in Node \cup {NoNode}
  BY <1>1, Zenon DEF CompleteSnapshot, EndLoop, LeaderLost
<1>. HIDE DEF u
<1>3. /\ f \in Process
      /\ f.run = node[k].run /\ f.goroutine = node[k].goroutine /\ f.errors = node[k].errors
      /\ f.queue = node[k].queue /\ f.pending = Live(k) /\ f.waiters = {}
      /\ f.goroutine \in [Goroutine -> {"running", "failed", "gone"}]
  BY <1>1, Zenon DEF Finished, Process
<1>4. CASE node[k].saved # "none" /\ node' = [node EXCEPT ![k] = f]
  <2>. HIDE DEF f
  <2>. QED  BY <1>2, <1>3, <1>4, SnapshotEnds, Zenon
<1>5. ASSUME NEW e \in {"failed", "gone"}, node' = [node EXCEPT ![k] = [f EXCEPT !.goroutine["raft"] = e]]
      PROVE  ServiceInv'
  <2>. DEFINE p == [f EXCEPT !.goroutine["raft"] = e]
  <2>. HIDE DEF f
  <2>1. /\ p \in Process
        /\ p.run = f.run /\ p.errors = f.errors
        /\ p.queue = f.queue /\ p.pending = f.pending /\ p.waiters = f.waiters
        /\ p.goroutine["raft"] = e
    BY <1>3, Zenon DEF Process, Goroutine
  <2>2. node' = [node EXCEPT ![k] = p]
    BY <1>5
  <2>. HIDE DEF p
  <2>. QED  BY <1>2, <1>3, <2>1, <2>2, SnapshotEnds, Zenon
<1>6. \/ node[k].saved # "none" /\ node' = [node EXCEPT ![k] = f]
      \/ \E e \in {"failed", "gone"} : node' = [node EXCEPT ![k] = [f EXCEPT !.goroutine["raft"] = e]]
  <2>. HIDE DEF f
  <2>1. CASE CompleteSnapshot(k)
    BY <2>1, Zenon DEF CompleteSnapshot, f, u
  <2>2. CASE EndLoop(k)
    BY <2>2, Zenon DEF EndLoop, f, u
  <2>. QED  BY <2>1, <2>2
<1>. QED  BY <1>4, <1>5, <1>6, Zenon

-----------------------------------------------------------------------------
(* The theorems *)

\* Every step of a process preserves the invariant.
LEMMA RuntimePreserves ==
  ASSUME ServiceInv, RuntimeNext, UNCHANGED clientVars
  PROVE  ServiceInv'
<1>1. ASSUME NEW c \in Caller, HandlerStep(c)
      PROVE  ServiceInv'
  BY <1>1, RefusePreserves, RejectPreserves, EnqueuePreserves, AwaitPreserves, Zenon DEF HandlerStep
<1>2. ASSUME NEW o \in Operator, CreateSnapshot(o) \/ OperatorStep(o) \/ OperatorExpires(o)
      PROVE  ServiceInv'
  BY <1>2, OperatorPreserves, ZenonT(40)
<1>3. ASSUME NEW k \in Node, LoopStep(k) \/ EndLoop(k)
      PROVE  ServiceInv'
  <2>1. Running(k)
    BY <1>3, Zenon DEF LoopStep, EndLoop, Running
  <2>2. CASE TakeRequest(k)
    BY <2>1, <2>2, TakeRequestPreserves, Zenon
  <2>3. CASE TakeSnapshotRequest(k)
    BY <2>1, <2>3, TakeSnapshotRequestPreserves, Zenon
  <2>4. CASE \E c \in Caller : Apply(k, c)
    BY <2>1, <2>4, ApplyPreserves, Zenon
  <2>5. CASE BecomeReady(k) \/ BecomeLeader(k) \/ Follow(k) \/ SuspectLeader(k)
    BY <2>1, <2>5, ViewPreserves
  <2>6. CASE StepDown(k)
    BY <2>1, <2>6, StepDownPreserves
  <2>7. CASE CompleteSnapshot(k) \/ EndLoop(k)
    BY <2>1, <2>7, CompletePreserves, Zenon
  <2>. QED  BY <1>3, <2>2, <2>3, <2>4, <2>5, <2>6, <2>7, Zenon DEF LoopStep
<1>4. ASSUME NEW k \in Node,
             SaveSnapshot(k) \/ Cancel(k) \/ (\E s \in Server : ServeFails(k, s)) \/ StopStep(k) \/ Stop(k)
      PROVE  ServiceInv'
  <2>1. CASE GracefulStop(k) \/ Stop(k)
    BY <2>1, StopPreserves
  <2>2. CASE SaveSnapshot(k) \/ Cancel(k) \/ (\E s \in Server : ServeFails(k, s))
    BY <2>2, RunPreserves, Zenon
  <2>3. CASE (\E g \in Goroutine : Report(k, g)) \/ LeaveServing(k) \/ DrainClients(k) \/ RunReturns(k)
    BY <2>3, RunPreserves, Zenon
  <2>. QED  BY <1>4, <2>1, <2>2, <2>3 DEF StopStep
<1>. QED  BY <1>1, <1>2, <1>3, <1>4, Zenon DEF RuntimeNext

\* So does a step of anyone else.
LEMMA StutterPreserves ==
  ASSUME ServiceInv, UNCHANGED serviceVars
  PROVE  ServiceInv'
<1>1. UNCHANGED <<caller, connections, closed, node, op, leader, rpc>>
  BY Zenon DEF serviceVars, clientVars, runtimeVars
<1>2. StateInv' /\ ClosedHoldsNoConnection'
  BY <1>1, Zenon DEF ServiceInv, StateInv, ClosedHoldsNoConnection
<1>3. \A c \in Caller : HandlerInv(c)'
  BY <1>1, Zenon DEF ServiceInv, HandlerInv, GivenUp, Halted
<1>4. \A n \in Node, c \in Caller : RequestInv(n, c)'
  BY <1>1, ZenonT(40) DEF ServiceInv, RequestInv, Running, Halted, GivenUp, CtxDone
<1>5. \A n \in Node, o \in Operator : OperatorInv(n, o)'
  BY <1>1, Zenon DEF ServiceInv, OperatorInv, Running
<1>. QED  BY <1>2, <1>3, <1>4, <1>5, Zenon DEF ServiceInv

\* The invariant holds before the first call.
LEMMA InitInv == ServiceInit => ServiceInv
<1>. SUFFICES ASSUME ServiceInit PROVE ServiceInv
  OBVIOUS
<1>1. /\ leader \in Node
      /\ caller = [c \in Caller |-> [at |-> "idle", configured |-> 1, address |-> Addresses[1],
                                     attempt |-> 1, hints |-> 0, outcome |-> "none"]]
      /\ connections = {}
      /\ op = [o \in Operator |-> [at |-> "idle", result |-> "none"]]
      /\ rpc = [c \in Caller |-> Idle]
  BY Zenon DEF ServiceInit, ClientInit, RuntimeInit
<1>. DEFINE start(n) ==
       [run |-> "serving", goroutine |-> [g \in Goroutine |-> "running"],
        errors |-> 0, cancelled |-> FALSE,
        leads |-> n = leader, ready |-> FALSE, leader |-> leader,
        queue |-> <<>>, pending |-> {}, snapshot |-> "none", saved |-> "none",
        waiters |-> {}]
<1>2. node = [n \in Node |-> start(n)]
  BY Zenon DEF ServiceInit, RuntimeInit
<1>3. ASSUME NEW n \in Node
      PROVE  /\ start(n) \in Process
             /\ start(n).queue = <<>> /\ start(n).pending = {} /\ start(n).waiters = {}
             /\ start(n).errors = 0 /\ start(n).run = "serving"
  <2>1. <<>> \in Seq(Caller \cup Operator)
    OBVIOUS
  <2>2. (n = leader) \in BOOLEAN
    OBVIOUS
  <2>3. [g \in Goroutine |-> "running"] \in [Goroutine -> {"running", "failed", "gone"}]
    OBVIOUS
  <2>. QED  BY <1>1, <1>3, <2>1, <2>2, <2>3, Zenon DEF Process
<1>. HIDE DEF start
<1>4. /\ node \in [Node -> Process]
      /\ \A n \in Node : /\ node[n].queue = <<>> /\ node[n].pending = {} /\ node[n].waiters = {}
                         /\ node[n].errors = 0 /\ ~Halted(n)
  BY <1>2, <1>3 DEF Halted
<1>5. Len(<<>>) = 0 /\ Range(<<>>) = {}
  BY DEF Range
<1>6. /\ Idle \in Call /\ Idle.node = NoNode /\ Idle.at = "none" /\ Idle.done = FALSE
      /\ Idle.result.kind = "none" /\ Idle.answer.kind = "none"
  BY BareIsTold, Zenon DEF Idle, Call
<1>7. \A c \in Caller : rpc[c] = Idle
  BY <1>1, Zenon
<1>8. caller \in [Caller -> Session] /\ \A c \in Caller : caller[c].at = "idle"
  <2>1. Len(Addresses) \in Nat \ {0} /\ Addresses[1] \in Node
    BY ServiceAssumption, LongerThanZero
  <2>2. 1 \in 1..Len(Addresses) /\ 1 \in 1..(MaxAttempts + 1) /\ 0 \in 0..MaxHints
    BY <2>1, ServiceAssumption
  <2>. QED  BY <1>1, <2>1, <2>2, Zenon DEF Session
<1>9. op \in [Operator -> OperatorCall]
      /\ \A o \in Operator : op[o].at = "idle" /\ op[o].result = "none"
  BY <1>1, Zenon DEF OperatorCall
<1>10. StateInv
  <2>1. \A n \in Node : Len(node[n].queue) <= QueueCap /\ node[n].errors <= ServeErrorsCap
    <3>1. 0 <= QueueCap /\ 0 <= ServeErrorsCap
      BY ServiceAssumption DEF ServeErrorsCap
    <3>. QED  BY <1>4, <1>5, <3>1, Zenon
  <2>2. rpc \in [Caller -> Call]
    BY <1>1, <1>6, Zenon
  <2>. QED  BY <1>1, <1>4, <1>6, <1>7, <1>8, <1>9, <2>1, <2>2, Zenon DEF StateInv
<1>11. ClosedHoldsNoConnection
  BY <1>1, Zenon DEF ClosedHoldsNoConnection
<1>12. \A c \in Caller : HandlerInv(c)
  BY <1>4, <1>6, <1>7, <1>8, Zenon DEF HandlerInv
<1>13. \A n \in Node, c \in Caller : RequestInv(n, c)
  BY <1>4, <1>5, <1>6, <1>7, Zenon DEF RequestInv, CtxDone
<1>14. \A n \in Node, o \in Operator : OperatorInv(n, o)
  BY <1>4, <1>5, <1>9 DEF OperatorInv
<1>. QED  BY <1>10, <1>11, <1>12, <1>13, <1>14 DEF ServiceInv

\* The invariant holds in every reachable state, whatever the budgets.
THEOREM ServiceInvariant == ServiceSpec => []ServiceInv
<1>1. ServiceInit => ServiceInv
  BY InitInv, Zenon
<1>2. ServiceInv /\ [ServiceNext]_serviceVars => ServiceInv'
  BY ClientPreserves, RuntimePreserves, StutterPreserves, Zenon DEF ServiceNext
<1>. QED  BY <1>1, <1>2, PTL DEF ServiceSpec

\* The input queue and the error channel of a Node keep to their capacities, and a
\* caller to its attempts and hints.
THEOREM ServiceTypeCorrect == ServiceSpec => []ServiceTypeOK
<1>1. ServiceInv => ServiceTypeOK
  <2>. SUFFICES ASSUME ServiceInv PROVE ServiceTypeOK
    OBVIOUS
  <2>1. ASSUME NEW c \in Caller
        PROVE  rpc[c].result \in Answer /\ rpc[c].answer \in Answer
    BY Zenon DEF ServiceInv, StateInv, Call, Told
  <2>2. ASSUME NEW c \in Caller
        PROVE  caller[c].attempt <= MaxAttempts + 1 /\ caller[c].hints <= MaxHints
    BY ServiceAssumption DEF ServiceInv, StateInv, Session
  <2>. QED  BY <2>1, <2>2, Zenon DEF ServiceInv, StateInv, ServiceTypeOK
<1>. QED  BY <1>1, ServiceInvariant, PTL

\* A handler that waits is known to the loop in exactly one place, for any number
\* of Nodes and callers and any capacity of the queue: no result is lost, and none
\* is written to a channel that already holds one.
THEOREM WaitersAreServed == ServiceSpec => []EveryWaiterIsServed
<1>1. ServiceInv => EveryWaiterIsServed
  BY Zenon DEF ServiceInv, RequestInv, OperatorInv, Running, EveryWaiterIsServed
<1>. QED  BY <1>1, ServiceInvariant, PTL

\* No caller of a Client leaves a connection behind after Close.
THEOREM ClosedClientsHoldNothing == ServiceSpec => []ClosedHoldsNoConnection
<1>1. ServiceInv => ClosedHoldsNoConnection
  BY DEF ServiceInv
<1>. QED  BY <1>1, ServiceInvariant, PTL

=============================================================================
