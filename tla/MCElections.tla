---------------------------- MODULE MCElections ----------------------------
(***************************************************************************)
(* n1 leads, n2 holds its log and n3 lags behind by an entry.                *)
(***************************************************************************)
EXTENDS Elections

CONSTANTS n1, n2, n3

MCFirstLog ==
  [i \in Node |-> [term |-> 1, index |-> IF i = n3 THEN 1 ELSE 2]]

=============================================================================
