--------------------------- MODULE SessionMachine ---------------------------
(***************************************************************************)
(* The replicated state machine (internal/node sessionMachine): Key values *)
(* and the Client Session records that deduplicate mutations, as functions *)
(* of a state and a committed command.                                     *)
(***************************************************************************)
EXTENDS Integers, Sequences, FiniteSets

CONSTANTS
  Session, Key, Value, NoValue,
  Limit  \* ActiveSessionLimit

ASSUME SessionAssumption == NoValue \notin Value /\ Limit \in Nat

Command ==
  [type : {"NoOp"}]
  \cup [type : {"Open", "Close"}, session : Session]
  \cup [type : {"Set"}, session : Session, sequence : Nat, key : Key, value : Value]
  \cup [type : {"Delete"}, session : Session, sequence : Nat, key : Key]

IsMutation(command) == command.type \in {"Set", "Delete"}

NoOp == [type |-> "NoOp"]

\* A sessionRecord, or the absence of one.
NoRecord == [state |-> "Unknown", last |-> 0, result |-> "Succeeded", existed |-> FALSE]

\* newSessionMachine
NewMachine ==
  [active   |-> 0,
   sessions |-> [s \in Session |-> NoRecord],
   values   |-> [k \in Key |-> NoValue]]

Result(failure) == [failure |-> failure, existed |-> FALSE]

\* Mutant: the latest sequence counts as the next one.
EvaluateRepeated(machine, command) ==
  LET record == machine.sessions[command.session]
  IN [apply |-> record.state = "Active" /\ command.sequence \in {record.last, record.last + 1},
      result |-> Result(IF record.state = "Active" THEN "Succeeded" ELSE record.state)]

\* evaluateMutation: whether the command is the next one of its session, and
\* the answer when it is not.
EvaluateMutation(machine, command) ==
  LET record == machine.sessions[command.session]
      Reject(result) == [apply |-> FALSE, result |-> result]
  IN CASE record.state \in {"Unknown", "Closed"} -> Reject(Result(record.state))
       [] record.state = "Active" /\ command.sequence = record.last /\ command.sequence # 0 ->
            Reject([failure |-> record.result, existed |-> record.existed])
       [] record.state = "Active" /\ command.sequence < record.last ->
            Reject(Result("StaleSequence"))
       [] record.state = "Active" /\ command.sequence > record.last + 1 ->
            Reject(Result("OutOfOrderSequence"))
       [] OTHER -> [apply |-> TRUE, result |-> Result("Succeeded")]

ApplyOpen(machine, s) ==
  IF machine.sessions[s].state # "Unknown"
    THEN [machine |-> machine, result |-> Result("AlreadyExists")]
  ELSE IF machine.active >= Limit
    THEN [machine |-> machine, result |-> Result("LimitReached")]
  ELSE [machine |-> [machine EXCEPT !.sessions[s].state = "Active", !.active = @ + 1],
        result  |-> Result("Succeeded")]

\* Mutant: closing a closed session frees another slot.
ApplyCloseAgain(machine, s) ==
  IF machine.sessions[s].state = "Unknown"
    THEN [machine |-> machine, result |-> Result("Unknown")]
    ELSE [machine |-> [machine EXCEPT !.sessions[s].state = "Closed", !.active = @ - 1],
          result  |-> Result("Succeeded")]

ApplyClose(machine, s) ==
  IF machine.sessions[s].state # "Active"
    THEN [machine |-> machine, result |-> Result(machine.sessions[s].state)]
    ELSE [machine |-> [machine EXCEPT !.sessions[s].state = "Closed", !.active = @ - 1],
          result  |-> Result("Succeeded")]

\* Mutant: the result of a Delete is not kept for its retries.
ApplyMutationUncached(machine, command) ==
  LET evaluated == EvaluateMutation(machine, command)
      existed   == command.type = "Delete" /\ machine.values[command.key] # NoValue
  IN IF ~evaluated.apply THEN [machine |-> machine, result |-> evaluated.result]
     ELSE [machine |->
             [machine EXCEPT
                !.values[command.key] = IF command.type = "Set" THEN command.value ELSE NoValue,
                !.sessions[command.session].last = command.sequence],
           result  |-> [evaluated.result EXCEPT !.existed = existed]]

ApplyMutation(machine, command) ==
  LET evaluated == EvaluateMutation(machine, command)
      existed   == command.type = "Delete" /\ machine.values[command.key] # NoValue
  IN IF ~evaluated.apply THEN [machine |-> machine, result |-> evaluated.result]
     ELSE [machine |->
             [machine EXCEPT
                !.values[command.key] = IF command.type = "Set" THEN command.value ELSE NoValue,
                !.sessions[command.session] = [state |-> "Active", last |-> command.sequence,
                                               result |-> evaluated.result.failure,
                                               existed |-> existed]],
           result  |-> [evaluated.result EXCEPT !.existed = existed]]

\* apply: the new state and the result for whoever waits for the command.
Apply(machine, command) ==
  CASE command.type = "NoOp"  -> [machine |-> machine, result |-> Result("Succeeded")]
    [] command.type = "Open"  -> ApplyOpen(machine, command.session)
    [] command.type = "Close" -> ApplyClose(machine, command.session)
    [] IsMutation(command)    -> ApplyMutation(machine, command)

\* The state after a sequence of commands.
ApplyAll(machine, commands) ==
  LET after[n \in 0..Len(commands)] ==
        IF n = 0 THEN machine ELSE Apply(after[n - 1], commands[n]).machine
  IN after[Len(commands)]

\* snapshot: the active counter is not part of the file.
Snapshot(machine) ==
  [values   |-> machine.values,
   sessions |-> {[id |-> s, closed |-> machine.sessions[s].state = "Closed",
                  last |-> machine.sessions[s].last, result |-> machine.sessions[s].result,
                  existed |-> machine.sessions[s].existed] :
                   s \in {x \in Session : machine.sessions[x].state # "Unknown"}}]

\* Mutant: every stored session takes a slot.
RestoreCountingClosed(snapshot) ==
  LET stored == {r.id : r \in snapshot.sessions}
      Of(s)  == CHOOSE r \in snapshot.sessions : r.id = s
  IN [active   |-> Cardinality(stored),
      sessions |-> [s \in Session |->
                      IF s \notin stored THEN NoRecord
                      ELSE [state |-> IF Of(s).closed THEN "Closed" ELSE "Active", last |-> Of(s).last,
                            result |-> Of(s).result, existed |-> Of(s).existed]],
      values   |-> snapshot.values]

\* restore: the counter is rebuilt from the records.
Restore(snapshot) ==
  LET stored == {r.id : r \in snapshot.sessions}
      Of(s)  == CHOOSE r \in snapshot.sessions : r.id = s
  IN [active   |-> Cardinality({r \in snapshot.sessions : ~r.closed}),
      sessions |-> [s \in Session |->
                      IF s \notin stored THEN NoRecord
                      ELSE [state |-> IF Of(s).closed THEN "Closed" ELSE "Active", last |-> Of(s).last,
                            result |-> Of(s).result, existed |-> Of(s).existed]],
      values   |-> snapshot.values]

=============================================================================
