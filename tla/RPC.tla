-------------------------------- MODULE RPC --------------------------------
(***************************************************************************)
(* The client RPCs under way, which a Client and the Nodes share: for every  *)
(* caller the Node it called, where the handler there is, whether the        *)
(* handler's context is done, the handler's result channel, and what the     *)
(* caller has been answered.  gRPC itself is external.                      *)
(* The budget bounds what the world around them still does.                 *)
(***************************************************************************)
EXTENDS Integers

CONSTANTS Node, NoNode,
          Caller,  \* goroutines with one command each
          Budgets  \* what the environment may do, in each scenario

VARIABLES
  rpc,
  budget  \* calls and Snapshot requests still made, contexts that end, changes
          \* of Leader, failures, and times the retained log grows large

Spend(what) == budget[what] > 0 /\ budget' = [budget EXCEPT ![what] = @ - 1]

\* Whatever the state machine answers is "final", its failures included.
Answer == [kind : {"none", "final", "hint", "unavailable", "canceled"},
           leader : Node \cup {NoNode}]

Bare(kind) == [kind |-> kind, leader |-> NoNode]

Idle == [node |-> NoNode, at |-> "none", done |-> FALSE,
         result |-> Bare("none"), answer |-> Bare("none")]

\* The record of a new call to n.
Calling(n) == [Idle EXCEPT !.node = n, !.at = "arrived"]

\* The handler returns; a caller that has stopped waiting does not hear of it.
Answered(r, answer) ==
  [r EXCEPT !.at = "none", !.answer = IF r.done THEN @ ELSE answer]

\* The call ends under the handler, whose context is done from now on.
Aborted(r, answer) ==
  [r EXCEPT !.done = TRUE, !.answer = IF r.done THEN @ ELSE answer]

InFlight(c) == rpc[c].node # NoNode /\ rpc[c].answer.kind = "none"

=============================================================================
