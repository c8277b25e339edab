----------------------------- MODULE MCSessions -----------------------------
(***************************************************************************)
(* Sessions for model checking.  Two Nodes are enough for an old and a new *)
(* Leader; with Limit = 1 a second session meets the limit.                *)
(*                                                                         *)
(* OpenedInit starts where one session has been opened: Node Old leads and *)
(* has applied the opening, and the other Nodes have applied any part of   *)
(* the committed log.  Spec reaches each of these states.                  *)
(***************************************************************************)
EXTENDS Sessions, TLC

CONSTANTS Old, Opened

OpenCommand == [type |-> "Open", session |-> Opened]

Start == << [term |-> 1, command |-> NoOp], [term |-> 1, command |-> OpenCommand] >>

OpenedInit ==
  /\ term = 1
  /\ current = Old
  /\ leads = [i \in Node |-> i = Old]
  /\ chosen = Start
  /\ applied \in {f \in [Node -> 0..2] : f[Old] = 2}
  /\ log = [i \in Node |-> SubSeq(Start, 1, applied[i])]
  /\ machine = [i \in Node |-> ApplyAll(NewMachine, Commands(Start, 1, applied[i]))]
  /\ saved = [i \in Node |-> NoSnapshot]
  /\ inbox = [i \in Node |-> {}]
  /\ pending = [i \in Node |-> {}]
  /\ inFlightMutations = [i \in Node |-> {}]
  /\ requests = {OpenCommand}
  /\ replies = {Reply(OpenCommand, Result("Succeeded"))}
  /\ submitted = 0
  /\ losses = 0
  /\ snapshots = 0

OpenedSpec == OpenedInit /\ [][Next]_vars

=============================================================================
