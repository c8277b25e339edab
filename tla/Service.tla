------------------------------ MODULE Service ------------------------------
(***************************************************************************)
(* A Client and the Nodes it calls, joined by the RPCs between them: what a  *)
(* caller is told while Leaders change, handlers wait, queues fill and       *)
(* processes stop.                                                          *)
(***************************************************************************)
EXTENDS Client, NodeRuntime

ASSUME ServiceAssumption ==
  /\ NoNode \notin Node
  /\ Caller \cap Operator = {}
  /\ Home \in [Operator -> Node]
  /\ Addresses \in Seq(Node) /\ Addresses # <<>>
  /\ {MaxAttempts, MaxHints} \subseteq Nat
  /\ QueueCap \in Nat

serviceVars == <<clientVars, runtimeVars, rpc, budget>>

ServiceInit ==
  /\ ClientInit
  /\ RuntimeInit
  /\ rpc = [c \in Caller |-> Idle]
  /\ budget \in Budgets

ServiceNext ==
  \/ ClientNext /\ UNCHANGED runtimeVars
  \/ RuntimeNext /\ UNCHANGED clientVars

(***************************************************************************)
(* Every goroutine that can go on does so: the callers, the handlers, the    *)
(* loops (whose select takes any ready case sooner or later), and Run.  No   *)
(* fairness for elections, failures, contexts that end, or the grace period. *)
(***************************************************************************)
Loops(n) ==
  /\ WF_serviceVars(node[n].goroutine["raft"] = "running"
                    /\ (TakeRequest(n) \/ TakeSnapshotRequest(n)) /\ UNCHANGED clientVars)
  /\ \A c \in Caller :
       WF_serviceVars(node[n].goroutine["raft"] = "running" /\ Apply(n, c) /\ UNCHANGED clientVars)
  /\ WF_serviceVars(node[n].goroutine["raft"] = "running"
                    /\ leader # n /\ StepDown(n) /\ UNCHANGED clientVars)
  /\ WF_serviceVars(node[n].goroutine["raft"] = "running"
                    /\ CompleteSnapshot(n) /\ UNCHANGED clientVars)
  /\ WF_serviceVars(SaveSnapshot(n) /\ UNCHANGED clientVars)
  /\ WF_serviceVars(node[n].run # "serving" /\ EndLoop(n) /\ UNCHANGED clientVars)

ServiceFairness ==
  /\ \A c \in Caller : /\ WF_serviceVars(ClientStep(c) /\ UNCHANGED runtimeVars)
                       /\ WF_serviceVars(HandlerStep(c) /\ UNCHANGED clientVars)
  /\ \A o \in Operator : WF_serviceVars(OperatorStep(o) /\ UNCHANGED clientVars)
  /\ \A n \in Node : Loops(n) /\ WF_serviceVars(StopStep(n) /\ UNCHANGED clientVars)

ServiceSpec == ServiceInit /\ [][ServiceNext]_serviceVars /\ ServiceFairness

-----------------------------------------------------------------------------
\* The type of the state: the input queue and the error channel of a Node keep to
\* their capacities, and a caller to its attempts and hints.
ServiceTypeOK ==
  /\ node \in [Node -> Process]
  /\ \A n \in Node : Len(node[n].queue) <= QueueCap /\ node[n].errors <= ServeErrorsCap
  /\ \A c \in Caller : /\ rpc[c].result \in Answer /\ rpc[c].answer \in Answer
                       /\ caller[c].attempt <= MaxAttempts + 1
                       /\ caller[c].hints <= MaxHints

ExactlyOne(A, B, C) ==
  \/ A /\ ~B /\ ~C
  \/ ~A /\ B /\ ~C
  \/ ~A /\ ~B /\ C

\* While the loop runs, a handler that waits is known to it in exactly one place:
\* in the queue, among the pending requests, or by a result in its channel, which
\* has room for one and is never written twice; so is a waiting CreateSnapshot.
EveryWaiterIsServed ==
  \A n \in Node : node[n].goroutine["raft"] = "running" =>
    /\ \A c \in Caller : ~CtxDone(n, c) =>
         ExactlyOne(c \in Range(node[n].queue), c \in node[n].pending,
                    rpc[c].result.kind # "none")
    /\ \A o \in Operator : Home[o] = n /\ op[o].at = "wait" =>
         ExactlyOne(o \in Range(node[n].queue), o \in node[n].waiters,
                    op[o].result # "none")

\* A Client that was closed keeps no connection, whatever its callers were doing:
\* none of them dials after Close.
ClosedHoldsNoConnection == closed => connections = {}

\* Every command and every CreateSnapshot returns, whatever stops or fails in the
\* Nodes meanwhile: no handler waits for a loop that is gone.
CallsReturn ==
  /\ \A c \in Caller : caller[c].at = "ready" ~> caller[c].at = "finished"
  /\ \A o \in Operator : op[o].at = "enqueue" ~> op[o].at = "finished"

\* Run returns once its context is done or one of its goroutines fails: none of
\* them is left behind with an error nobody reads.
RunStops ==
  \A n \in Node : (node[n].cancelled \/ \E g \in Goroutine : node[n].goroutine[g] = "failed")
                    ~> node[n].run = "returned"

\* One Node leads, and every loop that runs agrees.
Settled ==
  /\ leader # NoNode
  /\ node[leader].run = "serving" /\ node[leader].ready
  /\ node[leader].goroutine["client"] = "running"
  /\ \A n \in Node : node[n].goroutine["raft"] = "running" =>
       node[n].leader = leader /\ (node[n].leads <=> n = leader)

\* A command that begins when the Leader is settled reaches it, from whatever
\* configured Node it starts at, unless the caller gives up or closes the Client.
SettledCallsSucceed ==
  \A c \in Caller :
    [](caller[c].at = "ready" /\ caller[c].attempt = 1 /\ []Settled
         => <>(caller[c].outcome \in {"final", "canceled", "closed"}))

=============================================================================
