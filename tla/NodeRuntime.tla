----------------------------- MODULE NodeRuntime -----------------------------
(***************************************************************************)
(* One process of the Cluster around its Raft core (internal/node): Run and  *)
(* the goroutines it starts, the client handlers, the loop of runRaft with   *)
(* its bounded input queue, and manual and automatic Snapshots.  The core is *)
(* reduced to what a client can tell: who leads, and whom a Node believes to *)
(* lead.  Every disjunct of LoopStep is a whole iteration of the loop, so    *)
(* the state published to the handlers is the core's.                       *)
(***************************************************************************)
EXTENDS RPC, Integers, Sequences, Functions

CONSTANTS Reader,      \* the callers that GET; the others mutate
          Operator,    \* goroutines in CreateSnapshot
          Home,        \* the process of each of them
          Server,      \* the endpoints served: peer, client and perhaps metrics
          QueueCap     \* capacity of Node.events

VARIABLES
  node,     \* the state of every process
  op,       \* the calls of CreateSnapshot
  leader    \* the Node a Quorum follows, if any

runtimeVars == <<node, op, leader>>

Goroutine == Server \cup {"raft"}

Process == [run : {"serving", "stopping", "draining", "waiting", "returned"},
            goroutine : [Goroutine -> {"running", "failed", "gone"}],
            errors : Nat, cancelled : BOOLEAN,
            leads : BOOLEAN, ready : BOOLEAN, leader : Node \cup {NoNode},
            queue : Seq(Caller \cup Operator), pending : SUBSET Caller,
            snapshot : {"none", "manual", "automatic"},
            saved : {"none", "ok", "error"}, waiters : SUBSET Operator]

\* A Node leads, as every Node knows.
RuntimeInit ==
  /\ leader \in Node
  /\ node = [n \in Node |->
       [run |-> "serving", goroutine |-> [g \in Goroutine |-> "running"],
        errors |-> 0, cancelled |-> FALSE,
        leads |-> n = leader, ready |-> FALSE, leader |-> leader,
        queue |-> <<>>, pending |-> {}, snapshot |-> "none", saved |-> "none",
        waiters |-> {}]]
  /\ op = [o \in Operator |-> [at |-> "idle", result |-> "none"]]

(***************************************************************************)
(* The client handlers.                                                     *)
(***************************************************************************)
RuntimeDone(n) == node[n].goroutine["raft"] = "gone"

\* proposalError on a rejection that names m.
NotLeader(m) == IF m = NoNode THEN Bare("unavailable") ELSE [kind |-> "hint", leader |-> m]

Handle(c, at) == rpc' = [rpc EXCEPT ![c].at = at]

Return(c, answer) == rpc' = [rpc EXCEPT ![c] = Answered(@, answer)]

Accepting(n) == node[n].run \in {"serving", "stopping"} /\ node[n].goroutine["client"] = "running"

\* External: the endpoint is gone, or stops, before the call reaches a handler.
Refuse(c) ==
  /\ rpc[c].at = "arrived"
  /\ ~Accepting(rpc[c].node)
  /\ Return(c, Bare("unavailable"))
  /\ UNCHANGED <<runtimeVars, budget>>

RejectIfNotLeader(c) ==
  LET n == rpc[c].node
  IN /\ rpc[c].at = "arrived"
     /\ Accepting(n)
     /\ \/ node[n].leads /\ Handle(c, "enqueue")
        \/ ~node[n].leads /\ Return(c, NotLeader(node[n].leader))
     /\ UNCHANGED <<runtimeVars, budget>>

\* Mutant: the queue takes one input too many.
FreeBeyondCapacity(n) == Len(node[n].queue) <= QueueCap

Free(n) == Len(node[n].queue) < QueueCap

\* The first select of propose and of Get.
Enqueue(c) ==
  LET n == rpc[c].node
  IN /\ rpc[c].at = "enqueue"
     /\ \/ /\ Free(n)
           /\ node' = [node EXCEPT ![n].queue = Append(@, c)]
           /\ Handle(c, "wait")
        \/ /\ RuntimeDone(n) \/ rpc[c].done
           /\ Return(c, Bare("unavailable"))
           /\ UNCHANGED node
     /\ UNCHANGED <<op, leader, budget>>

\* Mutant: the handler waits for its result and for its context, whatever
\* becomes of the loop.
AwaitResultOnly(c) ==
  /\ rpc[c].at = "wait"
  /\ \/ rpc[c].result.kind # "none" /\ Return(c, rpc[c].result)
     \/ rpc[c].done /\ Return(c, Bare("unavailable"))
  /\ UNCHANGED <<runtimeVars, budget>>

\* The second select.
Await(c) ==
  /\ rpc[c].at = "wait"
  /\ \/ rpc[c].result.kind # "none" /\ Return(c, rpc[c].result)
     \/ /\ RuntimeDone(rpc[c].node) \/ rpc[c].done
        /\ Return(c, Bare("unavailable"))
  /\ UNCHANGED <<runtimeVars, budget>>

HandlerStep(c) == Refuse(c) \/ RejectIfNotLeader(c) \/ Enqueue(c) \/ Await(c)

(***************************************************************************)
(* CreateSnapshot.                                                          *)
(***************************************************************************)
CreateSnapshot(o) ==
  /\ op[o].at = "idle"
  /\ Spend("requests")
  /\ op' = [op EXCEPT ![o].at = "enqueue"]
  /\ UNCHANGED <<node, leader, rpc>>

\* Its two selects.
OperatorStep(o) ==
  LET n == Home[o]
  IN /\ \/ /\ op[o].at = "enqueue" /\ Free(n)
           /\ node' = [node EXCEPT ![n].queue = Append(@, o)]
           /\ op' = [op EXCEPT ![o].at = "wait"]
        \/ /\ \/ op[o].at = "wait" /\ op[o].result # "none"
              \/ op[o].at \in {"enqueue", "wait"} /\ RuntimeDone(n)
           /\ op' = [op EXCEPT ![o].at = "finished"]
           /\ UNCHANGED node
     /\ UNCHANGED <<leader, budget, rpc>>

\* Its context ends; the request stays behind.
OperatorExpires(o) ==
  /\ op[o].at \in {"enqueue", "wait"}
  /\ Spend("contexts")
  /\ op' = [op EXCEPT ![o].at = "finished"]
  /\ UNCHANGED <<node, leader, rpc>>

(***************************************************************************)
(* The loop of runRaft.                                                     *)
(***************************************************************************)
\* The context of the request c made to n: gRPC ends it with the handler.
CtxDone(n, c) == rpc[c].node # n \/ rpc[c].done \/ rpc[c].at # "wait"

\* Every iteration first forgets the requests nobody waits for.
Purged(n) == [node[n] EXCEPT !.pending = {c \in @ : ~CtxDone(n, c)}]

\* The end of an iteration, which starts an automatic Snapshot when the retained
\* log has grown past the threshold.
Conclude(n, p, left) ==
  \/ node' = [node EXCEPT ![n] = p] /\ budget' = left
  \/ /\ left.growth > 0 /\ p.snapshot = "none"
     /\ node' = [node EXCEPT ![n] = [p EXCEPT !.snapshot = "automatic"]]
     /\ budget' = [left EXCEPT !.growth = @ - 1]

\* Results for those of callers whose request to n is alive.
Deliver(n, callers, answer) ==
  rpc' = [c \in Caller |->
            IF c \in callers /\ ~CtxDone(n, c) THEN [rpc[c] EXCEPT !.result = answer]
                                              ELSE rpc[c]]

Accepted(n, c) ==
  /\ node[n].leads
  /\ c \in Reader => node[n].ready
  /\ Conclude(n, [Purged(n) EXCEPT !.queue = Tail(@),
                                   !.pending = IF CtxDone(n, c) THEN @ ELSE @ \cup {c}], budget)
  /\ UNCHANGED rpc

Rejected(n, c) ==
  /\ \/ /\ ~node[n].leads
        /\ Deliver(n, {c}, NotLeader(node[n].leader))
     \/ /\ node[n].leads /\ ~node[n].ready /\ c \in Reader
        /\ Deliver(n, {c}, Bare("unavailable"))
  /\ Conclude(n, [Purged(n) EXCEPT !.queue = Tail(@)], budget)

\* A mutation the session state answers is not proposed.
Evaluated(n, c) ==
  /\ c \notin Reader
  /\ Deliver(n, {c}, Bare("final"))
  /\ node' = [node EXCEPT ![n] = [Purged(n) EXCEPT !.queue = Tail(@)]]
  /\ UNCHANGED budget

TakeRequest(n) ==
  /\ node[n].queue # <<>>
  /\ Head(node[n].queue) \in Caller
  /\ LET c == Head(node[n].queue)
     IN Accepted(n, c) \/ Rejected(n, c) \/ Evaluated(n, c)
  /\ UNCHANGED <<op, leader>>

\* A Snapshot already under way serves the new waiter too.
TakeSnapshotRequest(n) ==
  /\ node[n].queue # <<>>
  /\ Head(node[n].queue) \in Operator
  /\ node' = [node EXCEPT ![n] =
       [Purged(n) EXCEPT !.queue = Tail(@),
                         !.waiters = @ \cup {Head(node[n].queue)},
                         !.snapshot = IF @ = "none" THEN "manual" ELSE @]]
  /\ UNCHANGED <<op, leader, budget, rpc>>

\* The entry of c is applied, or its read confirmed.
Apply(n, c) ==
  /\ leader = n /\ node[n].leads
  /\ c \in node[n].pending /\ ~CtxDone(n, c)
  /\ Deliver(n, {c}, Bare("final"))
  /\ Conclude(n, [Purged(n) EXCEPT !.pending = @ \ {c}, !.ready = TRUE], budget)
  /\ UNCHANGED <<op, leader>>

BecomeReady(n) ==
  /\ leader = n /\ node[n].leads /\ ~node[n].ready
  /\ Conclude(n, [Purged(n) EXCEPT !.ready = TRUE], budget)
  /\ UNCHANGED <<op, leader, rpc>>

BecomeLeader(n) ==
  /\ ~node[n].leads
  /\ budget.changes > 0
  /\ leader' = n
  /\ Conclude(n, [Purged(n) EXCEPT !.leads = TRUE, !.ready = FALSE, !.leader = n],
              [budget EXCEPT !.changes = @ - 1])
  /\ UNCHANGED <<op, rpc>>

\* Mutant: a Leader that steps down forgets those who wait.
LoseLeadershipSilently(n, m, left) ==
  /\ Conclude(n, [Purged(n) EXCEPT !.leads = FALSE, !.leader = m, !.pending = {}], left)
  /\ UNCHANGED rpc

LoseLeadership(n, m, left) ==
  /\ Deliver(n, node[n].pending, NotLeader(m))
  /\ Conclude(n, [Purged(n) EXCEPT !.leads = FALSE, !.leader = m, !.pending = {}], left)

\* A higher term names another Leader or none; or check-quorum fails.
StepDown(n) ==
  /\ node[n].leads
  /\ \/ /\ leader # n
        /\ \E m \in {leader, NoNode} : LoseLeadership(n, m, budget)
        /\ UNCHANGED leader
     \/ /\ leader = n /\ budget.changes > 0
        /\ leader' = NoNode
        /\ LoseLeadership(n, NoNode, [budget EXCEPT !.changes = @ - 1])
  /\ UNCHANGED op

\* A Follower hears from the Leader.
Follow(n) ==
  /\ ~node[n].leads
  /\ leader \notin {NoNode, n, node[n].leader}
  /\ Conclude(n, [Purged(n) EXCEPT !.leader = leader], budget)
  /\ UNCHANGED <<op, leader, rpc>>

\* Its election timer fires.
SuspectLeader(n) ==
  /\ ~node[n].leads
  /\ node[n].leader \notin {NoNode, leader}
  /\ Conclude(n, [Purged(n) EXCEPT !.leader = NoNode], budget)
  /\ UNCHANGED <<op, leader, rpc>>

\* finishSnapshot, for the process state p.
Finished(p) == [p EXCEPT !.waiters = {}, !.snapshot = "none", !.saved = "none"]

TellWaiters(n) ==
  op' = [o \in Operator |-> IF o \in node[n].waiters
                              THEN [op[o] EXCEPT !.result = node[n].saved] ELSE op[o]]

LeaderLost(n) == leader' = IF leader = n THEN NoNode ELSE leader

\* The failure of an automatic Snapshot ends the loop.
CompleteSnapshot(n) ==
  /\ node[n].saved # "none"
  /\ TellWaiters(n)
  /\ \/ /\ node[n].saved = "error" /\ node[n].snapshot = "automatic"
        /\ node' = [node EXCEPT ![n] = [Finished(Purged(n)) EXCEPT !.goroutine["raft"] = "failed"]]
        /\ LeaderLost(n)
     \/ /\ ~(node[n].saved = "error" /\ node[n].snapshot = "automatic")
        /\ node' = [node EXCEPT ![n] = Finished(Purged(n))]
        /\ UNCHANGED leader
  /\ UNCHANGED <<budget, rpc>>

LoopStep(n) ==
  /\ node[n].goroutine["raft"] = "running"
  /\ \/ TakeRequest(n) \/ TakeSnapshotRequest(n)
     \/ (\E c \in Caller : Apply(n, c))
     \/ BecomeReady(n) \/ BecomeLeader(n) \/ StepDown(n) \/ Follow(n) \/ SuspectLeader(n)
     \/ CompleteSnapshot(n)

\* The goroutine that saves the captured state and compacts the WAL.
SaveSnapshot(n) ==
  /\ node[n].snapshot # "none" /\ node[n].saved = "none"
  /\ \/ node' = [node EXCEPT ![n].saved = "ok"] /\ UNCHANGED budget
     \/ /\ Spend("faults")
        /\ node' = [node EXCEPT ![n].saved = "error"]
  /\ UNCHANGED <<op, leader, rpc>>

\* The loop returns, once a Snapshot under way is done: at the end of its
\* context, or on an error it has to report first.
EndLoop(n) ==
  /\ node[n].goroutine["raft"] = "running"
  /\ node[n].snapshot = "none" \/ node[n].saved # "none"
  /\ \/ /\ node[n].cancelled \/ node[n].run # "serving"
        /\ node' = [node EXCEPT ![n] = [Finished(Purged(n)) EXCEPT !.goroutine["raft"] = "gone"]]
        /\ UNCHANGED budget
     \/ /\ Spend("faults")
        /\ node' = [node EXCEPT ![n] = [Finished(Purged(n)) EXCEPT !.goroutine["raft"] = "failed"]]
  /\ TellWaiters(n)
  /\ LeaderLost(n)
  /\ UNCHANGED rpc

(***************************************************************************)
(* Run.                                                                     *)
(***************************************************************************)
\* Mutant: room for a single error.
ServeErrorsSingle == 1

ServeErrorsCap == 3

Cancel(n) ==
  /\ ~node[n].cancelled
  /\ Spend("faults")
  /\ node' = [node EXCEPT ![n].cancelled = TRUE]
  /\ UNCHANGED <<op, leader, rpc>>

\* Serve returns an error on its own.
ServeFails(n, s) ==
  /\ node[n].goroutine[s] = "running"
  /\ Spend("faults")
  /\ node' = [node EXCEPT ![n].goroutine[s] = "failed"]
  /\ UNCHANGED <<op, leader, rpc>>

\* The deferred close of runtimeDone comes after the report.
Report(n, g) ==
  /\ node[n].goroutine[g] = "failed"
  /\ node[n].errors < ServeErrorsCap
  /\ node' = [node EXCEPT ![n].errors = @ + 1, ![n].goroutine[g] = "gone"]
  /\ UNCHANGED <<op, leader, budget, rpc>>

\* The select of Run, and cancel().
LeaveServing(n) ==
  /\ node[n].run = "serving"
  /\ \/ /\ node[n].cancelled
        /\ node' = [node EXCEPT ![n].run = "stopping"]
     \/ /\ node[n].errors > 0
        /\ node' = [node EXCEPT ![n].run = "stopping", ![n].errors = @ - 1]
  /\ UNCHANGED <<op, leader, budget, rpc>>

\* The peer endpoint has stopped; the client endpoint takes no more calls.
DrainClients(n) ==
  /\ node[n].run = "stopping"
  /\ node' = [node EXCEPT ![n].run = "draining"]
  /\ UNCHANGED <<op, leader, budget, rpc>>

\* Serve returns without an error wherever it was still running.
Stopped(n) ==
  node' = [node EXCEPT ![n].run = "waiting",
             ![n].goroutine = [g \in Goroutine |-> IF g \in Server /\ @[g] = "running"
                                                     THEN "gone" ELSE @[g]]]

GracefulStop(n) ==
  /\ node[n].run = "draining"
  /\ \A c \in Caller : rpc[c].node = n => rpc[c].at \notin {"enqueue", "wait"}
  /\ Stopped(n)
  /\ UNCHANGED <<op, leader, budget, rpc>>

\* The grace period is over: every call is aborted.
Stop(n) ==
  /\ node[n].run \in {"stopping", "draining"}
  /\ Stopped(n)
  /\ rpc' = [c \in Caller |-> IF rpc[c].node = n /\ InFlight(c)
                                THEN Aborted(rpc[c], Bare("unavailable")) ELSE rpc[c]]
  /\ UNCHANGED <<op, leader, budget>>

RunReturns(n) ==
  /\ node[n].run = "waiting"
  /\ \A g \in Goroutine : node[n].goroutine[g] = "gone"
  /\ node' = [node EXCEPT ![n].run = "returned"]
  /\ UNCHANGED <<op, leader, budget, rpc>>

StopStep(n) ==
  \/ (\E g \in Goroutine : Report(n, g))
  \/ LeaveServing(n) \/ DrainClients(n) \/ GracefulStop(n) \/ RunReturns(n)

RuntimeNext ==
  \/ \E c \in Caller : HandlerStep(c)
  \/ \E o \in Operator : CreateSnapshot(o) \/ OperatorStep(o) \/ OperatorExpires(o)
  \/ \E n \in Node : \/ LoopStep(n) \/ SaveSnapshot(n) \/ EndLoop(n)
                     \/ Cancel(n) \/ (\E s \in Server : ServeFails(n, s))
                     \/ StopStep(n) \/ Stop(n)

=============================================================================
