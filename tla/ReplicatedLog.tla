--------------------------- MODULE ReplicatedLog ---------------------------
(***************************************************************************)
(* What the consensus core promises to the state machines above it: one    *)
(* log that only grows at its end, of which every Node knows a prefix that *)
(* only grows.                                                             *)
(***************************************************************************)
EXTENDS SequencesExt

CONSTANT Node

VARIABLES
  chosen,  \* the committed entries
  known    \* the prefix of them that each Node has committed

Init == \A i \in Node : IsPrefix(known[i], chosen)

\* A Node that knows all of the log extends it.
Choose(i) ==
  /\ IsPrefix(chosen, chosen')
  /\ chosen' # chosen
  /\ known' = [known EXCEPT ![i] = chosen']

Learn(i) ==
  /\ IsPrefix(known[i], known'[i])
  /\ IsPrefix(known'[i], chosen)
  /\ known' = [known EXCEPT ![i] = known'[i]]
  /\ UNCHANGED chosen

Next == \E i \in Node : Choose(i) \/ Learn(i)

Spec == Init /\ [][Next]_<<chosen, known>>

=============================================================================
