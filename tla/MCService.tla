----------------------------- MODULE MCService -----------------------------
(***************************************************************************)
(* Two Nodes, a caller that reads and a caller that writes through one       *)
(* Client, and one CreateSnapshot.                                         *)
(***************************************************************************)
EXTENDS Service

CONSTANTS n1, n2, get, set, operator

MCAddresses == <<n1, n2>>

MCHome == [o \in {operator} |-> n1]

Scenario(calls, requests, contexts, changes, faults, growth) ==
  [calls |-> calls, requests |-> requests, contexts |-> contexts,
   changes |-> changes, faults |-> faults, growth |-> growth]

MCBudgets == {
  Scenario(1, 0, 1, 2, 0, 0), Scenario(2, 0, 0, 1, 0, 0), Scenario(1, 0, 0, 0, 1, 0),
  Scenario(0, 0, 0, 0, 3, 0), Scenario(0, 1, 0, 0, 1, 1), Scenario(1, 1, 1, 0, 0, 1)}

=============================================================================
