------------------------------- MODULE Client -------------------------------
(***************************************************************************)
(* The official Client of client/client.go: callers that share one Client,   *)
(* each in withLeader, its connections and its Close.  The length of a pause *)
(* is not modelled.                                                        *)
(***************************************************************************)
EXTENDS RPC, Integers, Sequences

CONSTANTS Addresses,    \* the configured Nodes, in order
          MaxAttempts,  \* maxAttempts
          MaxHints      \* maxLeaderHints

VARIABLES
  caller,       \* for each caller, the variables of its withLeader
  connections,  \* Nodes the Client keeps a connection to
  closed

clientVars == <<caller, connections, closed>>

ClientInit ==
  /\ caller = [c \in Caller |-> [at |-> "idle", configured |-> 1, address |-> Addresses[1],
                                 attempt |-> 1, hints |-> 0, outcome |-> "none"]]
  /\ connections = {}
  /\ closed = FALSE

Finish(c, outcome) ==
  caller' = [caller EXCEPT ![c].at = "finished", ![c].outcome = outcome]

Start(c) ==
  /\ Spend("calls")
  /\ caller[c].at = "idle"
  /\ caller' = [caller EXCEPT ![c].at = "ready"]
  /\ UNCHANGED <<connections, closed, rpc>>

\* Mutant: a closed Client dials all the same.
DialWhenClosed(c) ==
  /\ caller' = [caller EXCEPT ![c].at = "calling"]
  /\ connections' = connections \cup {caller[c].address}
  /\ rpc' = [rpc EXCEPT ![c] = Calling(caller[c].address)]

Dial(c) ==
  \/ /\ closed
     /\ Finish(c, "closed")
     /\ UNCHANGED <<connections, rpc>>
  \/ /\ ~closed
     /\ caller' = [caller EXCEPT ![c].at = "calling"]
     /\ connections' = connections \cup {caller[c].address}
     /\ rpc' = [rpc EXCEPT ![c] = Calling(caller[c].address)]

\* One iteration of the loop up to the call, or its end.
Attempt(c) ==
  /\ caller[c].at = "ready"
  /\ \/ caller[c].attempt <= MaxAttempts /\ Dial(c)
     \/ /\ caller[c].attempt > MaxAttempts
        /\ Finish(c, "exhausted")
        /\ UNCHANGED <<connections, rpc>>
  /\ UNCHANGED <<closed, budget>>

\* Mutant: every pause returns to the first configured Node.
SameConfigured(i) == 1

NextConfigured(i) == (i % Len(Addresses)) + 1

\* A hint is followed at once, MaxHints times in a row.
FollowHint(c) ==
  /\ rpc[c].answer.kind = "hint"
  /\ caller[c].hints < MaxHints
  /\ caller' = [caller EXCEPT ![c].at = "ready", ![c].address = rpc[c].answer.leader,
                              ![c].hints = @ + 1, ![c].attempt = @ + 1]

\* Hints in a circle, or nobody to ask: the next configured Node, after a pause.
FallBack(c) ==
  LET next == NextConfigured(caller[c].configured)
  IN /\ \/ rpc[c].answer.kind = "hint" /\ caller[c].hints = MaxHints
        \/ rpc[c].answer.kind = "unavailable"
     /\ caller' = [caller EXCEPT ![c].at = "pausing", ![c].hints = 0,
                                 ![c].configured = next, ![c].address = Addresses[next]]

TakeAnswer(c) ==
  /\ caller[c].at = "calling"
  /\ \/ FollowHint(c)
     \/ FallBack(c)
     \/ /\ rpc[c].answer.kind \in {"final", "canceled"}
        /\ Finish(c, rpc[c].answer.kind)
  /\ UNCHANGED <<connections, closed, rpc, budget>>

EndPause(c) ==
  /\ caller[c].at = "pausing"
  /\ caller' = [caller EXCEPT ![c].at = "ready", ![c].attempt = @ + 1]
  /\ UNCHANGED <<connections, closed, rpc, budget>>

\* The caller's context is done, in a call or in a pause.
Expire(c) ==
  /\ Spend("contexts")
  /\ \/ /\ caller[c].at = "calling" /\ InFlight(c)
        /\ rpc' = [rpc EXCEPT ![c] = Aborted(rpc[c], Bare("canceled"))]
        /\ UNCHANGED caller
     \/ /\ caller[c].at = "pausing"
        /\ Finish(c, "canceled")
        /\ UNCHANGED rpc
  /\ UNCHANGED <<connections, closed>>

\* Closing a connection cancels the calls on it.
Close ==
  /\ Spend("contexts")
  /\ ~closed
  /\ closed' = TRUE
  /\ connections' = {}
  /\ rpc' = [c \in Caller |->
               IF InFlight(c) THEN Aborted(rpc[c], Bare("canceled")) ELSE rpc[c]]
  /\ UNCHANGED caller

ClientStep(c) == Attempt(c) \/ TakeAnswer(c) \/ EndPause(c)

ClientNext ==
  \/ \E c \in Caller : Start(c) \/ ClientStep(c) \/ Expire(c)
  \/ Close

=============================================================================
