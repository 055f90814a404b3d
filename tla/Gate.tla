-------------------------------- MODULE Gate --------------------------------
(***************************************************************************)
(* The B2A gate: the permits it signs, the outcomes it takes for them and  *)
(* the agent keys it knows, in one SQLite database that several processes  *)
(* open (CLI calls, the MCP server), src/src/b2a.rs.                       *)
(*                                                                         *)
(* Every gate call reads, takes time stamps and signs outside any          *)
(* transaction, and writes in one BEGIN IMMEDIATE transaction at its end.  *)
(* A call is therefore a few actions here: a read step for each point at   *)
(* which it looks at the database or the clock anew, and one write step.   *)
(* The gate's own key is the trusted root and stays active throughout.     *)
(***************************************************************************)
EXTENDS Naturals, Sequences

CONSTANTS
  Proc,         \* processes that call the gate
  Intent,       \* canonical action intents
  Outcome,      \* canonical outcome documents, executor signature apart
  Key,          \* public keys of agents and executors
  ActionId,     \* action ids
  Tenant,       \* tenants, among them "*" of a key that is not scoped
  ActionOf,     \* [Intent -> ActionId]: tenant, agent and idempotency key
  AgentOf,      \* [ActionId -> Key]
  TenantOf,     \* [ActionId \cup Key -> Tenant]
  RequestedAt,  \* [Intent -> Nat]
  ExecutorOf,   \* [Outcome -> Key]
  StatusOf,     \* [Outcome -> status]
  Permitted,    \* the intents the active policy allows
  Executors,    \* the keys the policy allows as executors
  Proposer,     \* the keys registered with role "proposer"
  Enrolled,     \* the keys registered at the start
  None,         \* no row
  Ttl,          \* lifetime of a permit
  MaxAge,       \* how long before issuing a request may have been made
  MaxSkew,      \* and how long after
  MaxTime       \* bound on the clock

ASSUME GateAssumption ==
  /\ ActionOf \in [Intent -> ActionId]
  /\ AgentOf \in [ActionId -> Key]
  /\ TenantOf \in [ActionId \cup Key -> Tenant]
  /\ RequestedAt \in [Intent -> Nat]
  /\ ExecutorOf \in [Outcome -> Key]
  /\ StatusOf \in [Outcome -> {"SUCCEEDED", "FAILED", "UNKNOWN"}]
  /\ Permitted \subseteq Intent
  /\ Executors \subseteq Key /\ Proposer \subseteq Key /\ Enrolled \subseteq Key
  /\ Ttl \in Nat \ {0} /\ MaxAge \in Nat /\ MaxSkew \in Nat /\ MaxTime \in Nat

VARIABLES
  keys,     \* agents: the interval in which a key is active
  ends,     \* identity_lifecycle_events: effective_at of a key's revocations
  auth,     \* action_authorizations, by its unique action_id
  outcome,  \* action_outcomes, by its unique action_id
  revoked,  \* revoked_authorizations
  stream,   \* event_stream of each tenant, oldest first
  op,       \* the call a process is inside of
  reply,    \* the answer of the call that returned in the last step
  now       \* the clock

tables == <<keys, ends, auth, outcome, revoked, stream>>
vars == <<tables, op, reply, now>>

-----------------------------------------------------------------------------
(* Keys *)

Interval == [from : Nat, until : Nat \cup {None}]

(* The row's valid_until is the earliest signed revocation, or neither is  *)
(* there.  A row for which this fails is treated as unregistered.          *)
ColumnsMatchEvents(k) ==
  IF ends[k] = {}
    THEN keys[k].until = None
    ELSE keys[k].until \in ends[k] /\ \A t \in ends[k] : keys[k].until <= t

(* verify_agent_state_at, for keys registered by the root. *)
ActiveAt(k, t) ==
  /\ keys[k] # None
  /\ ColumnsMatchEvents(k)
  /\ keys[k].from <= t
  /\ keys[k].until # None => t < keys[k].until

InScope(k, a) == TenantOf[k] \in {"*", TenantOf[a]}

-----------------------------------------------------------------------------
(* Decisions *)

(* request_action_signed and verify_authorization both derive the decision *)
(* of an intent this way, from the time the permit was issued at.  The     *)
(* first reason in the code's order wins.                                  *)
Decision(i, signed, issuedAt, active) ==
  IF ~signed THEN "INVALID_AGENT_SIGNATURE"
  ELSE IF ~active THEN "AGENT_NOT_REGISTERED"
  ELSE IF ~InScope(AgentOf[ActionOf[i]], ActionOf[i]) THEN "AGENT_TENANT_SCOPE_DENIED"
  ELSE IF issuedAt > RequestedAt[i] + MaxAge THEN "REQUEST_STALE"
  ELSE IF RequestedAt[i] > issuedAt + MaxSkew THEN "REQUEST_FROM_FUTURE"
  ELSE IF i \notin Permitted THEN "POLICY"
  ELSE "ALLOWED"

Decisions ==
  {"INVALID_AGENT_SIGNATURE", "AGENT_NOT_REGISTERED", "AGENT_TENANT_SCOPE_DENIED",
   "REQUEST_STALE", "REQUEST_FROM_FUTURE", "POLICY", "ALLOWED"}

Authorization ==
  [intent : Intent, signed : BOOLEAN, decision : Decisions, issuedAt : Nat, expiresAt : Nat]

Execution == [doc : Outcome, completedAt : Nat]

ASSUME NoneAssumption == None \notin Authorization \cup Execution \cup Interval \cup Nat

(* verify_authorization returns no error: the stored decision is the one   *)
(* the key state at issued_at yields.                                      *)
AuthorizationVerifies(a) ==
  LET r == auth[a]
  IN  Decision(r.intent, r.signed, r.issuedAt, ActiveAt(AgentOf[a], r.issuedAt)) = r.decision

(* What both the commit and verify_execution ask of an executor at t. *)
ExecutorTrusted(x, a, t) == ActiveAt(x, t) /\ InScope(x, a) /\ x \notin Proposer

(* verify_execution returns no error. *)
ExecutionVerifies(a) ==
  LET x == ExecutorOf[outcome[a].doc]
  IN  x # AgentOf[a] /\ ExecutorTrusted(x, a, outcome[a].completedAt)

-----------------------------------------------------------------------------
(* Calls *)

Idle == [step |-> "idle"]

Calls ==
  {Idle}
    \cup [step : {"stamped"}, intent : Intent, signed : BOOLEAN, at : Nat]
    \cup [step : {"decided"}, intent : Intent, signed : BOOLEAN, at : Nat, decision : Decisions]
    \cup [step : {"checked", "trusted"}, action : ActionId, doc : Outcome]
    \cup [step : {"signed"}, action : ActionId, doc : Outcome, at : Nat]
    \cup [step : {"registering", "revoking"}, key : Key, at : Nat]

NoReply == [call |-> "none"]

Continue(p, c) ==
  /\ op' = [op EXCEPT ![p] = c]
  /\ reply' = NoReply

Return(p, r) ==
  /\ op' = [op EXCEPT ![p] = Idle]
  /\ reply' = r

(* A transaction writes to disk (synchronous = FULL), so stamps taken      *)
(* before and after it differ.                                             *)
Transaction == now < MaxTime /\ now' = now + 1

Record(tenant, type, subject) ==
  stream' = [stream EXCEPT ![tenant] = Append(@, [type |-> type, subject |-> subject])]

Recorded ==
  [type : {"action.authorized", "action.executed", "action.failed", "agent.registered"},
   subject : ActionId \cup Key]

Init ==
  /\ keys = [k \in Key |-> IF k \in Enrolled THEN [from |-> 0, until |-> None] ELSE None]
  /\ ends = [k \in Key |-> {}]
  /\ auth = [a \in ActionId |-> None]
  /\ outcome = [a \in ActionId |-> None]
  /\ revoked = {}
  /\ stream = [t \in Tenant |-> <<>>]
  /\ op = [p \in Proc |-> Idle]
  /\ reply = NoReply
  /\ now = 0

-----------------------------------------------------------------------------
(* request_action_signed *)

RequestReply(i, result) == [call |-> "request", intent |-> i, result |-> result]

(* Mutant of RequestAgain: the stored intent is not compared. *)
RequestAgainByAction(p, i) ==
  LET a == ActionOf[i] IN
  /\ op[p] = Idle
  /\ auth[a] # None
  /\ Return(p, RequestReply(i, IF AuthorizationVerifies(a) THEN "original" ELSE "invalid"))
  /\ UNCHANGED <<tables, now>>

(* The action id is known: the original permit, if it still verifies and   *)
(* is for this intent.                                                     *)
RequestAgain(p, i) ==
  LET a == ActionOf[i] IN
  /\ op[p] = Idle
  /\ auth[a] # None
  /\ Return(p, RequestReply(i, IF auth[a].intent # i THEN "conflict"
                               ELSE IF AuthorizationVerifies(a) THEN "original"
                               ELSE "invalid"))
  /\ UNCHANGED <<tables, now>>

(* issued_at is taken ... *)
RequestStamp(p, i, signed) ==
  /\ op[p] = Idle
  /\ auth[ActionOf[i]] = None
  /\ Continue(p, [step |-> "stamped", intent |-> i, signed |-> signed, at |-> now])
  /\ UNCHANGED <<tables, now>>

(* Mutants of RequestDecide: the agent's state is read as of issued_at, so *)
(* that a revocation in between is not seen; the event is recorded before  *)
(* the transaction that stores the permit.                                 *)
RequestDecideAsOfStamp(p) ==
  LET c == op[p]
      active == ActiveAt(AgentOf[ActionOf[c.intent]], c.at)
  IN
  /\ c.step = "stamped"
  /\ Continue(p, [step |-> "decided", intent |-> c.intent, signed |-> c.signed, at |-> c.at,
                  decision |-> Decision(c.intent, c.signed, c.at, active)])
  /\ UNCHANGED <<tables, now>>

RequestDecideAndRecord(p) ==
  LET c == op[p]
      a == ActionOf[c.intent]
  IN
  /\ c.step = "stamped"
  /\ Continue(p, [step |-> "decided", intent |-> c.intent, signed |-> c.signed, at |-> c.at,
                  decision |-> Decision(c.intent, c.signed, c.at, ActiveAt(AgentOf[a], now))])
  /\ Record(TenantOf[a], "action.authorized", a)
  /\ UNCHANGED <<keys, ends, auth, outcome, revoked, now>>

(* ... before the agent's state is read, as of a later instant. *)
RequestDecide(p) ==
  LET c == op[p]
      active == ActiveAt(AgentOf[ActionOf[c.intent]], now)
  IN
  /\ c.step = "stamped"
  /\ Continue(p, [step |-> "decided", intent |-> c.intent, signed |-> c.signed, at |-> c.at,
                  decision |-> Decision(c.intent, c.signed, c.at, active)])
  /\ UNCHANGED <<tables, now>>

(* Mutant of RequestInsert: issued_at is taken again for the permit. *)
RequestInsertRestamped(p) ==
  LET c == op[p]
      a == ActionOf[c.intent]
  IN
  /\ c.step = "decided"
  /\ auth[a] = None
  /\ Transaction
  /\ auth' = [auth EXCEPT ![a] = [intent |-> c.intent, signed |-> c.signed,
                                  decision |-> c.decision, issuedAt |-> now,
                                  expiresAt |-> now + Ttl]]
  /\ Record(TenantOf[a], "action.authorized", a)
  /\ Return(p, RequestReply(c.intent, "new"))
  /\ UNCHANGED <<keys, ends, outcome, revoked>>

RequestInsert(p) ==
  LET c == op[p]
      a == ActionOf[c.intent]
  IN
  /\ c.step = "decided"
  /\ auth[a] = None
  /\ Transaction
  /\ auth' = [auth EXCEPT ![a] = [intent |-> c.intent, signed |-> c.signed,
                                  decision |-> c.decision, issuedAt |-> c.at,
                                  expiresAt |-> c.at + Ttl]]
  /\ Record(TenantOf[a], "action.authorized", a)
  /\ Return(p, RequestReply(c.intent, "new"))
  /\ UNCHANGED <<keys, ends, outcome, revoked>>

(* The action id is unique: the insert fails, the transaction rolls back. *)
RequestRollback(p) ==
  LET c == op[p] IN
  /\ c.step = "decided"
  /\ auth[ActionOf[c.intent]] # None
  /\ Return(p, RequestReply(c.intent, "persist_failed"))
  /\ UNCHANGED <<tables, now>>

-----------------------------------------------------------------------------
(* commit_outcome_signed *)

CommitReply(a, o, result) == [call |-> "commit", action |-> a, doc |-> o, result |-> result]

(* Mutants of PermitVerdict: an identical retry is not told from another   *)
(* outcome; expires_at is not consulted.                                   *)
PermitVerdictNoRetry(a, o) ==
  IF auth[a] = None THEN "not_found"
  ELSE IF ~AuthorizationVerifies(a) THEN "invalid"
  ELSE IF auth[a].decision # "ALLOWED" THEN "blocked"
  ELSE IF a \in revoked THEN "revoked"
  ELSE IF now > auth[a].expiresAt THEN "expired"
  ELSE IF StatusOf[o] = "UNKNOWN" THEN "contract"
  ELSE IF outcome[a] = None THEN "unconsumed"
  ELSE "consumed"

PermitVerdictUntimed(a, o) ==
  IF auth[a] = None THEN "not_found"
  ELSE IF ~AuthorizationVerifies(a) THEN "invalid"
  ELSE IF auth[a].decision # "ALLOWED" THEN "blocked"
  ELSE IF a \in revoked THEN "revoked"
  ELSE IF StatusOf[o] = "UNKNOWN" THEN "contract"
  ELSE IF outcome[a] = None THEN "unconsumed"
  ELSE IF outcome[a].doc # o THEN "consumed"
  ELSE IF ExecutionVerifies(a) THEN "receipt"
  ELSE "stored_invalid"

(* The checks in the code's order, up to the look-up of a stored outcome. *)
PermitVerdict(a, o) ==
  IF auth[a] = None THEN "not_found"
  ELSE IF ~AuthorizationVerifies(a) THEN "invalid"
  ELSE IF auth[a].decision # "ALLOWED" THEN "blocked"
  ELSE IF a \in revoked THEN "revoked"
  ELSE IF now > auth[a].expiresAt THEN "expired"
  ELSE IF StatusOf[o] = "UNKNOWN" THEN "contract"
  ELSE IF outcome[a] = None THEN "unconsumed"
  ELSE IF outcome[a].doc # o THEN "consumed"
  ELSE IF ExecutionVerifies(a) THEN "receipt"
  ELSE "stored_invalid"

CommitCheck(p, a, o) ==
  LET v == PermitVerdict(a, o) IN
  /\ op[p] = Idle
  /\ IF v = "unconsumed"
       THEN Continue(p, [step |-> "checked", action |-> a, doc |-> o])
       ELSE Return(p, CommitReply(a, o, v))
  /\ UNCHANGED <<tables, now>>

(* Mutant of CommitTrust: the proposer of an action may execute it. *)
CommitTrustAnyone(p) ==
  LET c == op[p]
      x == ExecutorOf[c.doc]
  IN
  /\ c.step = "checked"
  /\ IF x \in Executors /\ ExecutorTrusted(x, c.action, now)
       THEN Continue(p, [step |-> "trusted", action |-> c.action, doc |-> c.doc])
       ELSE Return(p, CommitReply(c.action, c.doc, "executor_denied"))
  /\ UNCHANGED <<tables, now>>

(* The executor is looked up, as of now ... *)
CommitTrust(p) ==
  LET c == op[p]
      x == ExecutorOf[c.doc]
  IN
  /\ c.step = "checked"
  /\ IF x # AgentOf[c.action] /\ x \in Executors /\ ExecutorTrusted(x, c.action, now)
       THEN Continue(p, [step |-> "trusted", action |-> c.action, doc |-> c.doc])
       ELSE Return(p, CommitReply(c.action, c.doc, "executor_denied"))
  /\ UNCHANGED <<tables, now>>

(* ... before completed_at is taken. *)
CommitStamp(p) ==
  LET c == op[p] IN
  /\ c.step = "trusted"
  /\ Continue(p, [step |-> "signed", action |-> c.action, doc |-> c.doc, at |-> now])
  /\ UNCHANGED <<tables, now>>

(* Mutant of CommitInsert: INSERT OR REPLACE. *)
CommitReplace(p) ==
  LET c == op[p] IN
  /\ c.step = "signed"
  /\ Transaction
  /\ outcome' = [outcome EXCEPT ![c.action] = [doc |-> c.doc, completedAt |-> c.at]]
  /\ Record(TenantOf[c.action],
            IF StatusOf[c.doc] = "SUCCEEDED" THEN "action.executed" ELSE "action.failed",
            c.action)
  /\ Return(p, CommitReply(c.action, c.doc, "receipt"))
  /\ UNCHANGED <<keys, ends, auth, revoked>>

CommitInsert(p) ==
  LET c == op[p] IN
  /\ c.step = "signed"
  /\ outcome[c.action] = None
  /\ Transaction
  /\ outcome' = [outcome EXCEPT ![c.action] = [doc |-> c.doc, completedAt |-> c.at]]
  /\ Record(TenantOf[c.action],
            IF StatusOf[c.doc] = "SUCCEEDED" THEN "action.executed" ELSE "action.failed",
            c.action)
  /\ Return(p, CommitReply(c.action, c.doc, "receipt"))
  /\ UNCHANGED <<keys, ends, auth, revoked>>

CommitRollback(p) ==
  LET c == op[p] IN
  /\ c.step = "signed"
  /\ outcome[c.action] # None
  /\ Return(p, CommitReply(c.action, c.doc, "persist_failed"))
  /\ UNCHANGED <<tables, now>>

-----------------------------------------------------------------------------
(* register_agent, after the bootstrap *)

RegisterStamp(p, k) ==
  /\ op[p] = Idle
  /\ keys[k] = None
  /\ Continue(p, [step |-> "registering", key |-> k, at |-> now])
  /\ UNCHANGED <<tables, now>>

(* Mutant of RegisterInsert: valid_from is left empty. *)
RegisterUndated(p) ==
  LET c == op[p] IN
  /\ c.step = "registering"
  /\ keys[c.key] = None
  /\ Transaction
  /\ keys' = [keys EXCEPT ![c.key] = [from |-> None, until |-> None]]
  /\ Record(TenantOf[c.key], "agent.registered", c.key)
  /\ Return(p, NoReply)
  /\ UNCHANGED <<ends, auth, outcome, revoked>>

RegisterInsert(p) ==
  LET c == op[p] IN
  /\ c.step = "registering"
  /\ keys[c.key] = None
  /\ Transaction
  /\ keys' = [keys EXCEPT ![c.key] = [from |-> c.at, until |-> None]]
  /\ Record(TenantOf[c.key], "agent.registered", c.key)
  /\ Return(p, NoReply)
  /\ UNCHANGED <<ends, auth, outcome, revoked>>

RegisterRollback(p) ==
  /\ op[p].step = "registering"
  /\ keys[op[p].key] # None
  /\ Return(p, NoReply)
  /\ UNCHANGED <<tables, now>>

-----------------------------------------------------------------------------
(* revoke_agent *)

RevokeStamp(p, k) ==
  /\ op[p] = Idle
  /\ ActiveAt(k, now)
  /\ Continue(p, [step |-> "revoking", key |-> k, at |-> now])
  /\ UNCHANGED <<tables, now>>

(* Mutants of Revocable: a permit about to expire is left alone; consumed  *)
(* permits are revoked too.                                                *)
RevocableTooLate(k, t) ==
  {a \in ActionId : /\ AgentOf[a] = k
                    /\ auth[a] # None
                    /\ auth[a].decision = "ALLOWED"
                    /\ auth[a].expiresAt > t + 1
                    /\ outcome[a] = None}

RevocableConsumed(k, t) ==
  {a \in ActionId : /\ AgentOf[a] = k
                    /\ auth[a] # None
                    /\ auth[a].decision = "ALLOWED"
                    /\ auth[a].expiresAt > t}

(* The ALLOWED permits of the key that were not consumed and not expired   *)
(* when effective_at was taken.                                            *)
Revocable(k, t) ==
  {a \in ActionId : /\ AgentOf[a] = k
                    /\ auth[a] # None
                    /\ auth[a].decision = "ALLOWED"
                    /\ auth[a].expiresAt > t
                    /\ outcome[a] = None}

(* Mutant of RevokeCommit: the key's row is deleted. *)
RevokeByDelete(p) ==
  LET c == op[p] IN
  /\ c.step = "revoking"
  /\ Transaction
  /\ keys' = [keys EXCEPT ![c.key] = None]
  /\ ends' = [ends EXCEPT ![c.key] = @ \cup {c.at}]
  /\ revoked' = revoked \cup Revocable(c.key, c.at)
  /\ Return(p, NoReply)
  /\ UNCHANGED <<auth, outcome, stream>>

(* The update only touches a key whose status is still 'active'; the event *)
(* and the revocations are inserted either way.  Nothing is recorded in    *)
(* event_stream.                                                           *)
RevokeCommit(p) ==
  LET c == op[p] IN
  /\ c.step = "revoking"
  /\ Transaction
  /\ keys' = IF keys[c.key].until = None
               THEN [keys EXCEPT ![c.key] = [from |-> @.from, until |-> c.at]]
               ELSE keys
  /\ ends' = [ends EXCEPT ![c.key] = @ \cup {c.at}]
  /\ revoked' = revoked \cup Revocable(c.key, c.at)
  /\ Return(p, NoReply)
  /\ UNCHANGED <<auth, outcome, stream>>

-----------------------------------------------------------------------------
(* A process may die inside a call: an open transaction is rolled back. *)
Crash(p) ==
  /\ op[p] # Idle
  /\ Return(p, NoReply)
  /\ UNCHANGED <<tables, now>>

Tick ==
  /\ now < MaxTime
  /\ now' = now + 1
  /\ reply' = NoReply
  /\ UNCHANGED <<tables, op>>

Request(p) ==
  \/ \E i \in Intent :
       RequestAgain(p, i) \/ \E signed \in BOOLEAN : RequestStamp(p, i, signed)
  \/ RequestDecide(p) \/ RequestInsert(p) \/ RequestRollback(p)

Commit(p) ==
  \/ \E a \in ActionId, o \in Outcome : CommitCheck(p, a, o)
  \/ CommitTrust(p) \/ CommitStamp(p) \/ CommitInsert(p) \/ CommitRollback(p)

Identity(p) ==
  \/ \E k \in Key : RegisterStamp(p, k) \/ RevokeStamp(p, k)
  \/ RegisterInsert(p) \/ RegisterRollback(p) \/ RevokeCommit(p)

Next == (\E p \in Proc : Request(p) \/ Commit(p) \/ Identity(p) \/ Crash(p)) \/ Tick

Spec == Init /\ [][Next]_vars

-----------------------------------------------------------------------------
(* Properties *)

RequestReplies ==
  [call : {"request"}, intent : Intent,
   result : {"new", "original", "conflict", "invalid", "persist_failed"}]

CommitReplies ==
  [call : {"commit"}, action : ActionId, doc : Outcome,
   result : {"not_found", "invalid", "blocked", "revoked", "expired", "contract", "consumed",
             "stored_invalid", "executor_denied", "persist_failed", "receipt"}]

TypeOK ==
  /\ keys \in [Key -> Interval \cup {None}]
  /\ ends \in [Key -> SUBSET Nat]
  /\ auth \in [ActionId -> Authorization \cup {None}]
  /\ outcome \in [ActionId -> Execution \cup {None}]
  /\ revoked \subseteq ActionId
  /\ stream \in [Tenant -> Seq(Recorded)]
  /\ op \in [Proc -> Calls]
  /\ reply \in {NoReply} \cup RequestReplies \cup CommitReplies
  /\ now \in Nat

(* A permit or an outcome, once stored, is never replaced, whatever other  *)
(* processes were asked at the same time (unique keys, insert only), and a *)
(* revocation is never taken back.                                         *)
RecordsAreFinal ==
  [][\A a \in ActionId :
       /\ auth[a] # None => auth'[a] = auth[a]
       /\ outcome[a] # None => outcome'[a] = outcome[a]
       /\ a \in revoked => a \in revoked']_vars

(* A stored outcome is backed by an ALLOWED permit issued before it, and   *)
(* comes from an executor that the policy names and that is not the agent  *)
(* who proposed the action.                                                *)
OutcomeIsPermitted ==
  \A a \in ActionId :
    outcome[a] # None =>
      /\ auth[a] # None
      /\ auth[a].decision = "ALLOWED"
      /\ auth[a].issuedAt < outcome[a].completedAt
      /\ ExecutorOf[outcome[a].doc] \in Executors \ {AgentOf[a]}

(* A permit that has been revoked or has expired and that no commit has    *)
(* checked before will never be consumed.                                  *)
DeadPermit(a) ==
  /\ auth[a] # None
  /\ a \in revoked \/ now > auth[a].expiresAt
  /\ outcome[a] = None
  /\ \A p \in Proc : op[p].step \in {"checked", "trusted", "signed"} => op[p].action # a

DeadPermitStaysDead == [][\A a \in ActionId : DeadPermit(a) => DeadPermit(a)']_vars

(* A revoked key that no request has already been decided for gets no      *)
(* permit any more, although a request may have been stamped before.       *)
ShutOut(k) ==
  /\ ends[k] # {}
  /\ \A p \in Proc :
       op[p].step = "decided" /\ op[p].decision = "ALLOWED" => AgentOf[ActionOf[op[p].intent]] # k

Granted(k) == {a \in ActionId : AgentOf[a] = k /\ auth[a] # None /\ auth[a].decision = "ALLOWED"}

RevokedStaysOut ==
  [][\A k \in Key : ShutOut(k) => ShutOut(k)' /\ Granted(k)' \subseteq Granted(k)]_vars

Positions(a, types) ==
  LET s == stream[TenantOf[a]]
  IN  {n \in DOMAIN s : s[n].type \in types /\ s[n].subject = a}

ToldInOrder(a, granted, closed) ==
  /\ granted = {} <=> auth[a] = None
  /\ closed = {} <=> outcome[a] = None
  /\ \A m, n \in granted : m = n
  /\ \A m, n \in closed : m = n
  /\ \A m \in granted, n \in closed : m < n

(* The event stream tells of every permit and every outcome exactly once   *)
(* and in that order: record_event runs inside their transactions.         *)
StreamMatchesTables ==
  \A a \in ActionId :
    ToldInOrder(a, Positions(a, {"action.authorized"}),
                   Positions(a, {"action.executed", "action.failed"}))

-----------------------------------------------------------------------------
(* Properties of a gate whose calls do not overlap *)

(* Every stored permit and receipt verifies, for ever: a later revocation  *)
(* does not change what the key state at its time stamp was.               *)
StoredPermitsVerify == \A a \in ActionId : auth[a] # None => AuthorizationVerifies(a)

StoredReceiptsVerify == \A a \in ActionId : outcome[a] # None => ExecutionVerifies(a)

(* Revoking a key invalidates each of its permits that is not consumed and *)
(* was not expired ("emergency revocation invalidates unconsumed permits").*)
RevocationIsComplete ==
  \A a \in ActionId :
    /\ auth[a] # None
    /\ auth[a].decision = "ALLOWED"
    /\ outcome[a] = None
    /\ \E t \in ends[AgentOf[a]] : t < auth[a].expiresAt
    => a \in revoked

(* A permit is not both revoked and consumed. *)
RevokedIsUnconsumed == \A a \in revoked : outcome[a] = None

(* Repeating a request returns the original permit; using its idempotency  *)
(* key for another intent is a conflict.                                   *)
RequestsAreIdempotent ==
  reply.call = "request" =>
    LET a == ActionOf[reply.intent] IN
    IF auth[a].intent = reply.intent
      THEN reply.result \in {"new", "original"}
      ELSE reply.result = "conflict"

(* An identical retry of a commit gets the receipt, in the permit's time   *)
(* and also after the agent or the executor was revoked; no other outcome  *)
(* does.                                                                   *)
RetryInTimeGetsReceipt ==
  reply.call = "commit" /\ outcome[reply.action] # None =>
    IF outcome[reply.action].doc = reply.doc
      THEN reply.result = "receipt" \/ now > auth[reply.action].expiresAt
      ELSE reply.result # "receipt"

(* Each call looks like one step of Authority, however long it takes: what *)
(* it found out when it looked is still so when it writes.  In particular  *)
(* a permit is never used once its agent has been revoked, be it that the  *)
(* revocation names it or that it had expired by then.                     *)
A == INSTANCE Authority WITH
  acting <- {k \in Key : keys[k] # None /\ ends[k] = {}},
  retired <- {k \in Key : ends[k] # {}},
  permit <- [a \in ActionId |-> IF auth[a] = None THEN None
                                ELSE [intent |-> auth[a].intent, allowed |-> auth[a].decision = "ALLOWED"]],
  receipt <- [a \in ActionId |-> IF outcome[a] = None THEN None ELSE outcome[a].doc]

AuthoritySpec == A!Spec

(* THREAT_MODEL.md: "An identical retry returns the existing receipt." *)
RetryGetsReceipt ==
  reply.call = "commit" /\ outcome[reply.action] # None /\ outcome[reply.action].doc = reply.doc
    => reply.result = "receipt"

-----------------------------------------------------------------------------
(* The inductive invariant behind the properties of overlapping calls:     *)
(* what a call in progress still knows of the tables.                      *)

StampsArePast ==
  /\ \A p \in Proc :
       op[p].step \in {"stamped", "decided", "signed", "registering", "revoking"} => op[p].at <= now
  /\ \A k \in Key : \A t \in ends[k] : t <= now
  /\ \A a \in ActionId : auth[a] # None => auth[a].issuedAt < now

CommitsArePermitted ==
  \A p \in Proc :
    LET c == op[p]
        r == auth[c.action]
    IN
    /\ c.step \in {"checked", "trusted", "signed"} => r # None /\ r.decision = "ALLOWED"
    /\ c.step \in {"trusted", "signed"} => ExecutorOf[c.doc] \in Executors \ {AgentOf[c.action]}
    /\ c.step = "signed" => r.issuedAt < c.at

RevokedIsKnown == \A p \in Proc : op[p].step = "revoking" => keys[op[p].key] # None

GateInv ==
  TypeOK /\ RevokedIsKnown /\ StampsArePast /\ CommitsArePermitted /\ OutcomeIsPermitted
=============================================================================
