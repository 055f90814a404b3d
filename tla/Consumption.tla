---------------------------- MODULE Consumption ----------------------------
(***************************************************************************)
(* What the mediated executor promises, seen from outside: a permit is     *)
(* consumed at most once and so is the action it is for, an external       *)
(* effect belongs to a consumed permit and happens at most once, and an    *)
(* execution that has been settled keeps its status.                       *)
(*                                                                         *)
(* Executor.tla, the detailed specification, implements this one           *)
(* (ExecutorProofs.tla).                                                   *)
(***************************************************************************)
EXTENDS Naturals

CONSTANTS
  Permit,     \* authorization ids
  ActionOf    \* the action id a permit is for

VARIABLES
  row,        \* status of the execution of a permit
  effects     \* how often the external effect of a permit has happened

vars == <<row, effects>>

Settled == {"SUCCEEDED", "FAILED", "UNKNOWN"}

Siblings(p) == {q \in Permit : ActionOf[q] = ActionOf[p]}

Init ==
  /\ row = [p \in Permit |-> "ABSENT"]
  /\ effects = [p \in Permit |-> 0]

(* The permit, and with it its action, is taken. *)
Consume(p) ==
  /\ \A q \in Siblings(p) : row[q] = "ABSENT"
  /\ row' = [row EXCEPT ![p] = "STARTED"]
  /\ UNCHANGED effects

(* The effect may come before or after the execution is settled (a request *)
(* that timed out can still be served), but never twice.                   *)
Effect(p) ==
  /\ row[p] # "ABSENT"
  /\ effects[p] = 0
  /\ effects' = [effects EXCEPT ![p] = 1]
  /\ UNCHANGED row

(* Success is only claimed for an effect that took place. *)
Settle(p, s) ==
  /\ row[p] = "STARTED"
  /\ s = "SUCCEEDED" => effects[p] = 1
  /\ row' = [row EXCEPT ![p] = s]
  /\ UNCHANGED effects

Next ==
  \E p \in Permit :
    \/ Consume(p)
    \/ Effect(p)
    \/ \E s \in Settled : Settle(p, s)

Spec == Init /\ [][Next]_vars
=============================================================================
