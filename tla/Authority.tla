----------------------------- MODULE Authority -----------------------------
(***************************************************************************)
(* What the gate promises to callers that take turns: each call looks like *)
(* one instantaneous step.  A permit is allowed only to an agent that acts *)
(* at that instant; it is used once at most, only while its agent still    *)
(* acts, and only by somebody else who acts and is trusted; a key that was *)
(* revoked never acts again.                                               *)
(*                                                                         *)
(* Gate.tla implements this as long as its calls take turns                *)
(* (GateTurnsProofs.tla).                                                  *)
(***************************************************************************)

CONSTANTS
  Intent,       \* action intents
  Outcome,      \* outcome documents
  Key,          \* public keys of agents and executors
  ActionId,     \* action ids
  ActionOf,     \* [Intent -> ActionId]
  AgentOf,      \* [ActionId -> Key]
  TenantOf,     \* [ActionId \cup Key -> Tenant]
  ExecutorOf,   \* [Outcome -> Key]
  StatusOf,     \* [Outcome -> status]
  Permitted,    \* the intents the active policy allows
  Executors,    \* the keys the policy allows as executors
  Proposer,     \* the keys registered with role "proposer"
  Enrolled,     \* the keys registered at the start
  None

VARIABLES
  acting,       \* the keys that act now
  retired,      \* the keys that have been revoked
  permit,       \* the permit of an action
  receipt       \* the outcome it was used for

vars == <<acting, retired, permit, receipt>>

InScope(k, a) == TenantOf[k] \in {"*", TenantOf[a]}

Init ==
  /\ acting = Enrolled
  /\ retired = {}
  /\ permit = [a \in ActionId |-> None]
  /\ receipt = [a \in ActionId |-> None]

Enrol(k) ==
  /\ k \notin acting \cup retired
  /\ acting' = acting \cup {k}
  /\ UNCHANGED <<retired, permit, receipt>>

Retire(k) ==
  /\ k \in acting
  /\ acting' = acting \ {k}
  /\ retired' = retired \cup {k}
  /\ UNCHANGED <<permit, receipt>>

(* A request may be blocked for its time or its signature as well. *)
Decide(i, allowed) ==
  LET a == ActionOf[i] IN
  /\ permit[a] = None
  /\ allowed => i \in Permitted /\ AgentOf[a] \in acting /\ InScope(AgentOf[a], a)
  /\ permit' = [permit EXCEPT ![a] = [intent |-> i, allowed |-> allowed]]
  /\ UNCHANGED <<acting, retired, receipt>>

Use(a, o) ==
  LET x == ExecutorOf[o] IN
  /\ \E i \in Intent : permit[a] = [intent |-> i, allowed |-> TRUE]
  /\ receipt[a] = None
  /\ AgentOf[a] \in acting
  /\ x \in (acting \cap Executors) \ (Proposer \cup {AgentOf[a]}) /\ InScope(x, a)
  /\ StatusOf[o] # "UNKNOWN"
  /\ receipt' = [receipt EXCEPT ![a] = o]
  /\ UNCHANGED <<acting, retired, permit>>

Next ==
  \/ \E k \in Key : Enrol(k) \/ Retire(k)
  \/ \E i \in Intent, allowed \in BOOLEAN : Decide(i, allowed)
  \/ \E a \in ActionId, o \in Outcome : Use(a, o)

Spec == Init /\ [][Next]_vars
=============================================================================
