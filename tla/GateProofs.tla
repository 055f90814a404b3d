------------------------------ MODULE GateProofs ------------------------------
(***************************************************************************)
(* Proofs about Gate for any number of processes, actions, outcomes and    *)
(* keys, any policy and any clock.  None of them assumes that the calls of *)
(* two processes do not overlap.                                           *)
(***************************************************************************)
EXTENDS Gate, TLAPS

(* The fields of a call at each of its steps. *)
LEMMA CallKinds ==
  ASSUME NEW c \in Calls
  PROVE  /\ c.step = "stamped" =>
              c.intent \in Intent /\ c.signed \in BOOLEAN /\ c.at \in Nat
         /\ c.step = "decided" =>
              /\ c.intent \in Intent /\ c.signed \in BOOLEAN
              /\ c.at \in Nat /\ c.decision \in Decisions
         /\ c.step \in {"checked", "trusted", "signed"} =>
              c.action \in ActionId /\ c.doc \in Outcome
         /\ c.step = "signed" => c.at \in Nat
         /\ c.step \in {"registering", "revoking"} => c.key \in Key /\ c.at \in Nat
<1>1. CASE c = Idle
  BY <1>1 DEF Idle
<1>2. CASE c \in [step : {"stamped"}, intent : Intent, signed : BOOLEAN, at : Nat]
  BY <1>2
<1>3. CASE c \in [step : {"decided"}, intent : Intent, signed : BOOLEAN, at : Nat,
                  decision : Decisions]
  BY <1>3
<1>4. CASE c \in [step : {"checked", "trusted"}, action : ActionId, doc : Outcome]
  BY <1>4
<1>5. CASE c \in [step : {"signed"}, action : ActionId, doc : Outcome, at : Nat]
  BY <1>5
<1>6. CASE c \in [step : {"registering", "revoking"}, key : Key, at : Nat]
  BY <1>6
<1>7. QED
  BY <1>1, <1>2, <1>3, <1>4, <1>5, <1>6 DEF Calls

LEMMA CallFields ==
  ASSUME op \in [Proc -> Calls], NEW p \in Proc
  PROVE  /\ op[p].step = "stamped" =>
              op[p].intent \in Intent /\ op[p].signed \in BOOLEAN /\ op[p].at \in Nat
         /\ op[p].step = "decided" =>
              /\ op[p].intent \in Intent /\ op[p].signed \in BOOLEAN
              /\ op[p].at \in Nat /\ op[p].decision \in Decisions
         /\ op[p].step \in {"checked", "trusted", "signed"} =>
              op[p].action \in ActionId /\ op[p].doc \in Outcome
         /\ op[p].step = "signed" => op[p].at \in Nat
         /\ op[p].step \in {"registering", "revoking"} => op[p].key \in Key /\ op[p].at \in Nat
BY CallKinds

(* A call that goes on or returns leaves the other processes alone. *)
LEMMA ContinueStep ==
  ASSUME op \in [Proc -> Calls], NEW p \in Proc, NEW c \in Calls, Continue(p, c)
  PROVE  /\ op' \in [Proc -> Calls]
         /\ reply' = NoReply
         /\ op'[p] = c
         /\ \A q \in Proc : q # p => op'[q] = op[q]
BY DEF Continue

LEMMA ReturnStep ==
  ASSUME op \in [Proc -> Calls], NEW p \in Proc, NEW r, Return(p, r)
  PROVE  /\ op' \in [Proc -> Calls]
         /\ reply' = r
         /\ op'[p] = Idle
         /\ \A q \in Proc : q # p => op'[q] = op[q]
<1>1. Idle \in Calls
  BY DEF Calls
<1>2. QED
  BY <1>1 DEF Return

(* What is recorded is one more event of a tenant's stream. *)
LEMMA RecordStep ==
  ASSUME stream \in [Tenant -> Seq(Recorded)], NEW t \in Tenant, NEW ty, NEW s,
         [type |-> ty, subject |-> s] \in Recorded, Record(t, ty, s)
  PROVE  stream' \in [Tenant -> Seq(Recorded)]
BY DEF Record

-----------------------------------------------------------------------------
(* Every step of every call keeps the types. *)
LEMMA TypeStep ==
  ASSUME TypeOK, RevokedIsKnown, [Next]_vars
  PROVE  TypeOK'
<1> USE GateAssumption DEF GateAssumption, TypeOK, tables
<1>0. Idle \in Calls /\ NoReply \in {NoReply} \cup RequestReplies \cup CommitReplies
  BY DEF Calls
<1>1. ASSUME NEW p \in Proc, NEW i \in Intent, RequestAgain(p, i)
      PROVE  TypeOK'
  <2>1. PICK r \in RequestReplies : Return(p, r)
    BY <1>1 DEF RequestAgain, RequestReply, RequestReplies
  <2>2. QED
    BY <1>1, <2>1, ReturnStep DEF RequestAgain
<1>2. ASSUME NEW p \in Proc, NEW i \in Intent, NEW signed \in BOOLEAN, RequestStamp(p, i, signed)
      PROVE  TypeOK'
  <2>1. [step |-> "stamped", intent |-> i, signed |-> signed, at |-> now] \in Calls
    BY DEF Calls
  <2>2. QED
    BY <1>2, <2>1, ContinueStep DEF RequestStamp
<1>3. ASSUME NEW p \in Proc, RequestDecide(p)
      PROVE  TypeOK'
  <2> DEFINE d == Decision(op[p].intent, op[p].signed, op[p].at,
                           ActiveAt(AgentOf[ActionOf[op[p].intent]], now))
             c == [step |-> "decided", intent |-> op[p].intent, signed |-> op[p].signed,
                   at |-> op[p].at, decision |-> d]
  <2>1. d \in Decisions
    BY DEF Decision, Decisions
  <2>2. c \in Calls
    BY <1>3, <2>1, CallFields DEF RequestDecide, Calls
  <2>3. Continue(p, c) /\ UNCHANGED <<tables, now>>
    BY <1>3 DEF RequestDecide
  <2>4. QED
    BY <2>2, <2>3, ContinueStep
<1>4. ASSUME NEW p \in Proc, RequestInsert(p)
      PROVE  TypeOK'
  <2> DEFINE c == op[p]
             a == ActionOf[c.intent]
             r == [intent |-> c.intent, signed |-> c.signed, decision |-> c.decision,
                   issuedAt |-> c.at, expiresAt |-> c.at + Ttl]
  <2>1. /\ c.intent \in Intent /\ c.signed \in BOOLEAN /\ c.at \in Nat /\ c.decision \in Decisions
        /\ a \in ActionId
    BY <1>4, CallFields DEF RequestInsert
  <2>2. r \in Authorization /\ [type |-> "action.authorized", subject |-> a] \in Recorded /\ TenantOf[a] \in Tenant
    BY <2>1 DEF Authorization, Recorded
  <2>3. /\ auth' = [auth EXCEPT ![a] = r]
        /\ Record(TenantOf[a], "action.authorized", a)
        /\ Return(p, RequestReply(c.intent, "new"))
        /\ now' = now + 1
        /\ UNCHANGED <<keys, ends, outcome, revoked>>
    BY <1>4 DEF RequestInsert, Transaction
  <2>4. RequestReply(c.intent, "new") \in RequestReplies
    BY <2>1 DEF RequestReply, RequestReplies
  <2>5. auth' \in [ActionId -> Authorization \cup {None}]
    BY <2>2, <2>3
  <2>6. stream' \in [Tenant -> Seq(Recorded)]
    BY <2>2, <2>3, RecordStep
  <2>7. QED
    BY <2>3, <2>4, <2>5, <2>6, ReturnStep
<1>5. ASSUME NEW p \in Proc, RequestRollback(p)
      PROVE  TypeOK'
  <2>1. RequestReply(op[p].intent, "persist_failed") \in RequestReplies
    BY <1>5, CallFields DEF RequestRollback, RequestReply, RequestReplies
  <2>2. QED
    BY <1>5, <2>1, ReturnStep DEF RequestRollback
<1>6. ASSUME NEW p \in Proc, NEW a \in ActionId, NEW o \in Outcome, CommitCheck(p, a, o)
      PROVE  TypeOK'
  <2> DEFINE v == PermitVerdict(a, o)
  <2>1. CASE v = "unconsumed"
    <3>1. [step |-> "checked", action |-> a, doc |-> o] \in Calls
      BY DEF Calls
    <3>2. QED
      BY <1>6, <2>1, <3>1, ContinueStep DEF CommitCheck
  <2>2. CASE v # "unconsumed"
    <3>1. CommitReply(a, o, v) \in CommitReplies
      BY <2>2 DEF CommitReply, CommitReplies, PermitVerdict
    <3>2. QED
      BY <1>6, <2>2, <3>1, ReturnStep DEF CommitCheck
  <2>3. QED
    BY <2>1, <2>2
<1>7. ASSUME NEW p \in Proc, CommitTrust(p)
      PROVE  TypeOK'
  <2>1. /\ [step |-> "trusted", action |-> op[p].action, doc |-> op[p].doc] \in Calls
        /\ CommitReply(op[p].action, op[p].doc, "executor_denied") \in CommitReplies
    BY <1>7, CallFields DEF CommitTrust, Calls, CommitReply, CommitReplies
  <2>2. QED
    BY <1>7, <2>1, ContinueStep, ReturnStep DEF CommitTrust
<1>8. ASSUME NEW p \in Proc, CommitStamp(p)
      PROVE  TypeOK'
  <2>1. [step |-> "signed", action |-> op[p].action, doc |-> op[p].doc, at |-> now] \in Calls
    BY <1>8, CallFields DEF CommitStamp, Calls
  <2>2. QED
    BY <1>8, <2>1, ContinueStep DEF CommitStamp
<1>9. ASSUME NEW p \in Proc, CommitInsert(p)
      PROVE  TypeOK'
  <2> DEFINE c == op[p]
             ty == IF StatusOf[c.doc] = "SUCCEEDED" THEN "action.executed" ELSE "action.failed"
  <2>1. c.action \in ActionId /\ c.doc \in Outcome /\ c.at \in Nat
    BY <1>9, CallFields DEF CommitInsert
  <2>2. /\ [doc |-> c.doc, completedAt |-> c.at] \in Execution
        /\ [type |-> ty, subject |-> c.action] \in Recorded
        /\ TenantOf[c.action] \in Tenant
        /\ CommitReply(c.action, c.doc, "receipt") \in CommitReplies
    BY <2>1 DEF Execution, Recorded, CommitReply, CommitReplies
  <2>3. /\ outcome' = [outcome EXCEPT ![c.action] = [doc |-> c.doc, completedAt |-> c.at]]
        /\ Record(TenantOf[c.action], ty, c.action)
        /\ Return(p, CommitReply(c.action, c.doc, "receipt"))
        /\ now' = now + 1
        /\ UNCHANGED <<keys, ends, auth, revoked>>
    BY <1>9 DEF CommitInsert, Transaction
  <2>4. outcome' \in [ActionId -> Execution \cup {None}]
    BY <2>2, <2>3
  <2>5. stream' \in [Tenant -> Seq(Recorded)]
    BY <2>2, <2>3, RecordStep
  <2>6. QED
    BY <2>2, <2>3, <2>4, <2>5, ReturnStep
<1>10. ASSUME NEW p \in Proc, CommitRollback(p)
       PROVE  TypeOK'
  <2>1. CommitReply(op[p].action, op[p].doc, "persist_failed") \in CommitReplies
    BY <1>10, CallFields DEF CommitRollback, CommitReply, CommitReplies
  <2>2. QED
    BY <1>10, <2>1, ReturnStep DEF CommitRollback
<1>11. ASSUME NEW p \in Proc, NEW k \in Key, RegisterStamp(p, k)
       PROVE  TypeOK'
  <2>1. [step |-> "registering", key |-> k, at |-> now] \in Calls
    BY DEF Calls
  <2>2. QED
    BY <1>11, <2>1, ContinueStep DEF RegisterStamp
<1>12. ASSUME NEW p \in Proc, NEW k \in Key, RevokeStamp(p, k)
       PROVE  TypeOK'
  <2>1. [step |-> "revoking", key |-> k, at |-> now] \in Calls
    BY DEF Calls
  <2>2. QED
    BY <1>12, <2>1, ContinueStep DEF RevokeStamp
<1>13. ASSUME NEW p \in Proc, RegisterInsert(p)
       PROVE  TypeOK'
  <2> DEFINE c == op[p]
  <2>1. c.key \in Key /\ c.at \in Nat
    BY <1>13, CallFields DEF RegisterInsert
  <2>2. /\ [from |-> c.at, until |-> None] \in Interval
        /\ [type |-> "agent.registered", subject |-> c.key] \in Recorded
        /\ TenantOf[c.key] \in Tenant
    BY <2>1 DEF Interval, Recorded
  <2>3. /\ keys' = [keys EXCEPT ![c.key] = [from |-> c.at, until |-> None]]
        /\ Record(TenantOf[c.key], "agent.registered", c.key)
        /\ Return(p, NoReply)
        /\ now' = now + 1
        /\ UNCHANGED <<ends, auth, outcome, revoked>>
    BY <1>13 DEF RegisterInsert, Transaction
  <2>4. keys' \in [Key -> Interval \cup {None}]
    BY <2>2, <2>3
  <2>5. stream' \in [Tenant -> Seq(Recorded)]
    BY <2>2, <2>3, RecordStep
  <2>6. QED
    BY <1>0, <2>3, <2>4, <2>5, ReturnStep
<1>14. ASSUME NEW p \in Proc, RegisterRollback(p)
       PROVE  TypeOK'
  BY <1>0, <1>14, ReturnStep DEF RegisterRollback
<1>15. ASSUME NEW p \in Proc, RevokeCommit(p)
       PROVE  TypeOK'
  <2> DEFINE c == op[p]
  <2>1. c.key \in Key /\ c.at \in Nat
    BY <1>15, CallFields DEF RevokeCommit
  <2>2. keys' \in [Key -> Interval \cup {None}]
    <3>1. keys[c.key] \in Interval /\ [from |-> keys[c.key].from, until |-> c.at] \in Interval
      BY <1>15, <2>1 DEF RevokeCommit, RevokedIsKnown, Interval
    <3>2. QED
      BY <1>15, <2>1, <3>1 DEF RevokeCommit
  <2>3. ends' \in [Key -> SUBSET Nat] /\ revoked' \subseteq ActionId
    BY <1>15, <2>1 DEF RevokeCommit, Revocable
  <2>4. QED
    BY <1>0, <1>15, <2>2, <2>3, ReturnStep DEF RevokeCommit, Transaction
<1>16. ASSUME NEW p \in Proc, Crash(p)
       PROVE  TypeOK'
  BY <1>0, <1>16, ReturnStep DEF Crash
<1>17. CASE Tick
  BY <1>0, <1>17 DEF Tick
<1>18. CASE UNCHANGED vars
  BY <1>18 DEF vars
<1>19. QED
  BY <1>1, <1>2, <1>3, <1>4, <1>5, <1>6, <1>7, <1>8, <1>9, <1>10, <1>11, <1>12, <1>13, <1>14,
     <1>15, <1>16, <1>17, <1>18 DEF Next, Request, Commit, Identity

-----------------------------------------------------------------------------
(* The tables are only written by the four transactions. *)
LEMMA TableStep ==
  ASSUME TypeOK, [Next]_vars
  PROVE  \/ UNCHANGED tables
         \/ \E p \in Proc :
              RequestInsert(p) \/ CommitInsert(p) \/ RegisterInsert(p) \/ RevokeCommit(p)
BY DEF Next, Request, Commit, Identity, vars, RequestAgain, RequestStamp, RequestDecide,
       RequestRollback, CommitCheck, CommitTrust, CommitStamp, CommitRollback, RegisterStamp,
       RegisterRollback, RevokeStamp, Crash, Tick

(* What is in the tables stays there, and the clock does not go back. *)
LEMMA FinalStep ==
  ASSUME TypeOK, [Next]_vars
  PROVE  /\ \A a \in ActionId :
              /\ auth[a] # None => auth'[a] = auth[a]
              /\ outcome[a] # None => outcome'[a] = outcome[a]
              /\ a \in revoked => a \in revoked'
         /\ \A k \in Key : (keys[k] # None => keys'[k] # None) /\ ends[k] \subseteq ends'[k]
         /\ now <= now'
<1> USE DEF TypeOK, tables
<1>1. now <= now'
  <2>1. ASSUME NEW p \in Proc, Request(p)
        PROVE  now' = now \/ now' = now + 1
    BY <2>1 DEF Request, RequestAgain, RequestStamp, RequestDecide, RequestInsert,
                RequestRollback, Transaction
  <2>2. ASSUME NEW p \in Proc, Commit(p)
        PROVE  now' = now \/ now' = now + 1
    BY <2>2 DEF Commit, CommitCheck, CommitTrust, CommitStamp, CommitInsert, CommitRollback,
                Transaction
  <2>3. ASSUME NEW p \in Proc, Identity(p)
        PROVE  now' = now \/ now' = now + 1
    BY <2>3 DEF Identity, RegisterStamp, RegisterInsert, RegisterRollback, RevokeStamp,
                RevokeCommit, Transaction
  <2>4. QED
    BY <2>1, <2>2, <2>3 DEF Next, vars, Crash, Tick
<1>2. CASE UNCHANGED tables
  BY <1>1, <1>2
<1>3. ASSUME NEW p \in Proc, RequestInsert(p)
      PROVE  \A a \in ActionId : auth[a] # None => auth'[a] = auth[a]
  BY <1>3, CallFields DEF RequestInsert
<1>4. ASSUME NEW p \in Proc, CommitInsert(p)
      PROVE  \A a \in ActionId : outcome[a] # None => outcome'[a] = outcome[a]
  BY <1>4, CallFields DEF CommitInsert
<1>5. ASSUME NEW p \in Proc, RegisterInsert(p)
      PROVE  \A k \in Key : keys[k] # None => keys'[k] # None
  BY <1>5, CallFields DEF RegisterInsert
<1>6. ASSUME NEW p \in Proc, RevokeCommit(p)
      PROVE  \A k \in Key : (keys[k] # None => keys'[k] # None) /\ ends[k] \subseteq ends'[k]
  <2> DEFINE ended == [from |-> keys[op[p].key].from, until |-> op[p].at]
  <2>1. op[p].key \in Key /\ op[p].at \in Nat
    BY <1>6, CallFields DEF RevokeCommit
  <2>2. \A k \in Key : ends[k] \subseteq ends'[k]
    BY <1>6, <2>1 DEF RevokeCommit
  <2>3. ASSUME NEW k \in Key, keys[k] # None
        PROVE  keys'[k] # None
    <3>1. k = op[p].key => ended \in Interval
      BY <2>1, <2>3 DEF Interval
    <3>2. keys' = [keys EXCEPT ![op[p].key] = ended] \/ keys' = keys
      BY <1>6 DEF RevokeCommit
    <3>3. QED
      BY <2>1, <2>3, <3>1, <3>2, NoneAssumption
  <2>4. QED
    BY <2>2, <2>3
<1>7. QED
  BY <1>1, <1>2, <1>3, <1>4, <1>5, <1>6, TableStep
     DEF RequestInsert, CommitInsert, RegisterInsert, RevokeCommit

(* How a step that changes the call of a process came to what it knows. *)
LEMMA NextCall ==
  ASSUME NEW p \in Proc, TypeOK, [Next]_vars, op'[p] # op[p]
  PROVE  /\ op'[p].step \in {"stamped", "registering"} => op'[p].at = now
         /\ op'[p].step = "revoking" => RevokeStamp(p, op'[p].key) /\ op'[p].at = now
         /\ op'[p].step = "decided" =>
              /\ op[p].step = "stamped"
              /\ op'[p].at = op[p].at /\ op'[p].intent = op[p].intent
              /\ op'[p].decision = Decision(op[p].intent, op[p].signed, op[p].at,
                                            ActiveAt(AgentOf[ActionOf[op[p].intent]], now))
         /\ op'[p].step = "checked" => PermitVerdict(op'[p].action, op'[p].doc) = "unconsumed"
         /\ op'[p].step = "trusted" =>
              /\ op[p].step = "checked"
              /\ op'[p].action = op[p].action /\ op'[p].doc = op[p].doc
              /\ ExecutorOf[op[p].doc] \in Executors \ {AgentOf[op[p].action]}
         /\ op'[p].step = "signed" =>
              /\ op[p].step = "trusted"
              /\ op'[p].action = op[p].action /\ op'[p].doc = op[p].doc /\ op'[p].at = now
<1> DEFINE Known ==
      /\ op'[p].step \in {"stamped", "registering"} => op'[p].at = now
      /\ op'[p].step = "revoking" => RevokeStamp(p, op'[p].key) /\ op'[p].at = now
      /\ op'[p].step = "decided" =>
           /\ op[p].step = "stamped"
           /\ op'[p].at = op[p].at /\ op'[p].intent = op[p].intent
           /\ op'[p].decision = Decision(op[p].intent, op[p].signed, op[p].at,
                                         ActiveAt(AgentOf[ActionOf[op[p].intent]], now))
      /\ op'[p].step = "checked" => PermitVerdict(op'[p].action, op'[p].doc) = "unconsumed"
      /\ op'[p].step = "trusted" =>
           /\ op[p].step = "checked"
           /\ op'[p].action = op[p].action /\ op'[p].doc = op[p].doc
           /\ ExecutorOf[op[p].doc] \in Executors \ {AgentOf[op[p].action]}
      /\ op'[p].step = "signed" =>
           /\ op[p].step = "trusted"
           /\ op'[p].action = op[p].action /\ op'[p].doc = op[p].doc /\ op'[p].at = now
<1> USE DEF TypeOK
<1> SUFFICES Known
  OBVIOUS
<1>1. CASE op' = op
  BY <1>1
<1>2. ASSUME NEW q \in Proc, NEW r, Return(q, r)
      PROVE  op'[p] \in {op[p], Idle}
  BY <1>2 DEF Return
<1>3. ASSUME NEW q \in Proc, q # p, NEW c, Continue(q, c)
      PROVE  op'[p] = op[p]
  BY <1>3 DEF Continue
<1>4. ASSUME NEW c, Continue(p, c)
      PROVE  op'[p] = c
  BY <1>4 DEF Continue
<1>5. ASSUME NEW q \in Proc, Request(q)
      PROVE  \/ op'[p] \in {op[p], Idle}
             \/ q = p /\ \E i \in Intent, signed \in BOOLEAN : RequestStamp(p, i, signed)
             \/ q = p /\ RequestDecide(p)
  BY <1>2, <1>3, <1>5
     DEF Request, RequestAgain, RequestStamp, RequestDecide, RequestInsert, RequestRollback
<1>6. ASSUME NEW q \in Proc, Commit(q)
      PROVE  \/ op'[p] \in {op[p], Idle}
             \/ /\ q = p
                /\ \E a \in ActionId, o \in Outcome :
                     CommitCheck(p, a, o) /\ PermitVerdict(a, o) = "unconsumed"
             \/ /\ q = p /\ CommitTrust(p)
                /\ ExecutorOf[op[p].doc] \in Executors \ {AgentOf[op[p].action]}
             \/ q = p /\ CommitStamp(p)
  <2>1. ASSUME NEW a \in ActionId, NEW o \in Outcome, CommitCheck(q, a, o)
        PROVE  op'[p] \in {op[p], Idle} \/ (q = p /\ PermitVerdict(a, o) = "unconsumed")
    <3>1. CASE PermitVerdict(a, o) = "unconsumed"
      <4>1. Continue(q, [step |-> "checked", action |-> a, doc |-> o])
        BY <2>1, <3>1 DEF CommitCheck
      <4>2. QED
        BY <1>3, <3>1, <4>1
    <3>2. CASE PermitVerdict(a, o) # "unconsumed"
      <4>1. Return(q, CommitReply(a, o, PermitVerdict(a, o)))
        BY <2>1, <3>2 DEF CommitCheck
      <4>2. QED
        BY <1>2, <4>1
    <3>3. QED
      BY <3>1, <3>2
  <2>2. CASE CommitTrust(q)
    BY <1>2, <1>3, <2>2 DEF CommitTrust
  <2>3. CASE CommitStamp(q)
    BY <1>3, <2>3 DEF CommitStamp
  <2>4. CASE CommitInsert(q) \/ CommitRollback(q)
    BY <1>2, <2>4 DEF CommitInsert, CommitRollback
  <2>5. QED
    BY <1>6, <2>1, <2>2, <2>3, <2>4 DEF Commit
<1>7. ASSUME NEW q \in Proc, Identity(q)
      PROVE  \/ op'[p] \in {op[p], Idle}
             \/ q = p /\ \E k \in Key : RegisterStamp(p, k) \/ RevokeStamp(p, k)
  BY <1>2, <1>3, <1>7
     DEF Identity, RegisterStamp, RegisterInsert, RegisterRollback, RevokeStamp, RevokeCommit
<1>8. ASSUME NEW q \in Proc, Crash(q)
      PROVE  op'[p] \in {op[p], Idle}
  BY <1>2, <1>8 DEF Crash
<1>9. CASE Tick \/ UNCHANGED vars
  BY <1>9 DEF Tick, vars
<1>10. ASSUME NEW i \in Intent, NEW signed \in BOOLEAN, RequestStamp(p, i, signed)
       PROVE  Known
  BY <1>4, <1>10 DEF RequestStamp
<1>11. ASSUME NEW k \in Key, RegisterStamp(p, k)
       PROVE  Known
  BY <1>4, <1>11 DEF RegisterStamp
<1>12. ASSUME NEW k \in Key, RevokeStamp(p, k)
       PROVE  Known
  <2>1. op'[p] = [step |-> "revoking", key |-> k, at |-> now]
    BY <1>4, <1>12 DEF RevokeStamp
  <2>2. QED
    BY <1>12, <2>1
<1>13. ASSUME RequestDecide(p)
       PROVE  Known
  BY <1>4, <1>13 DEF RequestDecide
<1>14. ASSUME NEW a \in ActionId, NEW o \in Outcome, CommitCheck(p, a, o),
              PermitVerdict(a, o) = "unconsumed"
       PROVE  Known
  <2>1. op'[p] = [step |-> "checked", action |-> a, doc |-> o]
    BY <1>4, <1>14 DEF CommitCheck
  <2>2. QED
    BY <1>14, <2>1
<1>15. ASSUME CommitTrust(p), ExecutorOf[op[p].doc] \in Executors \ {AgentOf[op[p].action]}
       PROVE  Known
  <2>1. \/ op'[p] = Idle
        \/ op'[p] = [step |-> "trusted", action |-> op[p].action, doc |-> op[p].doc]
    BY <1>15 DEF CommitTrust, Return, Continue
  <2>2. QED
    BY <1>15, <2>1 DEF Idle, CommitTrust
<1>16. ASSUME CommitStamp(p)
       PROVE  Known
  BY <1>4, <1>16 DEF CommitStamp
<1>17. CASE op'[p] = Idle
  BY <1>17 DEF Idle
<1> HIDE DEF Known
<1>18. ASSUME NEW q \in Proc, Request(q)
       PROVE  Known
  BY <1>5, <1>10, <1>13, <1>17, <1>18
<1>19. ASSUME NEW q \in Proc, Commit(q)
       PROVE  Known
  BY <1>6, <1>14, <1>15, <1>16, <1>17, <1>19
<1>20. ASSUME NEW q \in Proc, Identity(q)
       PROVE  Known
  BY <1>7, <1>11, <1>12, <1>17, <1>20
<1>21. ASSUME NEW q \in Proc, Crash(q)
       PROVE  Known
  BY <1>8, <1>17, <1>21
<1>22. QED
  BY <1>9, <1>18, <1>19, <1>20, <1>21 DEF Next

-----------------------------------------------------------------------------
(* A call about to revoke a key has found it in the table. *)
LEMMA RevokedIsKnownStep ==
  ASSUME TypeOK, RevokedIsKnown, [Next]_vars
  PROVE  RevokedIsKnown'
<1> SUFFICES ASSUME NEW p \in Proc, op'[p].step = "revoking"
             PROVE  keys'[op'[p].key] # None
  BY DEF RevokedIsKnown
<1>1. CASE op'[p] = op[p]
  BY <1>1, CallFields, FinalStep DEF TypeOK, RevokedIsKnown
<1>2. CASE op'[p] # op[p]
  <2>1. op'[p] \in Calls
    BY TypeStep DEF TypeOK
  <2>2. RevokeStamp(p, op'[p].key) /\ op'[p].key \in Key
    BY <1>2, <2>1, NextCall, CallKinds
  <2>3. QED
    BY <2>2, FinalStep DEF RevokeStamp, ActiveAt
<1>3. QED
  BY <1>1, <1>2

(* No call and no row has a stamp from the future, and a permit is stored  *)
(* later than the time it bears.                                           *)
LEMMA StampsArePastStep ==
  ASSUME TypeOK, TypeOK', StampsArePast, [Next]_vars
  PROVE  StampsArePast'
<1>1. now \in Nat /\ now' \in Nat /\ now <= now'
  BY FinalStep DEF TypeOK
<1>2. ASSUME NEW p \in Proc,
             op'[p].step \in {"stamped", "decided", "signed", "registering", "revoking"}
      PROVE  op'[p].at <= now'
  <2>1. CASE op'[p] = op[p]
    BY <1>1, <1>2, <2>1, CallFields DEF TypeOK, StampsArePast
  <2>2. CASE op'[p] # op[p]
    <3>1. op'[p].at = now \/ (op[p].step = "stamped" /\ op'[p].at = op[p].at)
      BY <1>2, <2>2, NextCall
    <3>2. QED
      BY <1>1, <3>1, CallFields DEF TypeOK, StampsArePast
  <2>3. QED
    BY <2>1, <2>2
<1>3. ASSUME NEW k \in Key, NEW t \in ends'[k]
      PROVE  t <= now'
  <2>1. CASE t \in ends[k]
    BY <1>1, <2>1 DEF TypeOK, StampsArePast
  <2>2. CASE t \notin ends[k]
    <3>1. PICK p \in Proc : RevokeCommit(p)
      BY <1>3, <2>2, TableStep
         DEF tables, RequestInsert, CommitInsert, RegisterInsert
    <3>2. t = op[p].at
      BY <1>3, <2>2, <3>1, CallFields DEF TypeOK, RevokeCommit
    <3>3. QED
      BY <1>1, <3>1, <3>2, CallFields DEF TypeOK, StampsArePast, RevokeCommit
  <2>3. QED
    BY <2>1, <2>2
<1>4. ASSUME NEW a \in ActionId, auth'[a] # None
      PROVE  auth'[a].issuedAt < now'
  <2>1. CASE auth[a] # None
    <3>1. auth'[a] = auth[a] /\ auth[a].issuedAt \in Nat
      BY <2>1, FinalStep DEF TypeOK, Authorization
    <3>2. QED
      BY <1>1, <2>1, <3>1 DEF StampsArePast
  <2>2. CASE auth[a] = None
    <3>1. PICK p \in Proc : RequestInsert(p)
      BY <1>4, <2>2, TableStep
         DEF tables, CommitInsert, RegisterInsert, RevokeCommit
    <3>2. auth'[a].issuedAt = op[p].at /\ now' = now + 1
      BY <1>4, <2>2, <3>1, CallFields DEF TypeOK, RequestInsert, Transaction
    <3>3. op[p].at \in Nat /\ op[p].at <= now
      BY <3>1, CallFields DEF TypeOK, StampsArePast, RequestInsert
    <3>4. QED
      BY <1>1, <3>2, <3>3
  <2>3. QED
    BY <2>1, <2>2
<1>5. QED
  BY <1>2, <1>3, <1>4 DEF StampsArePast

(* A commit in progress holds an ALLOWED permit, from the moment it has    *)
(* checked it, and an executor it has found trusted.                       *)
LEMMA CommitsArePermittedStep ==
  ASSUME TypeOK, TypeOK', StampsArePast, CommitsArePermitted, [Next]_vars
  PROVE  CommitsArePermitted'
<1> DEFINE Permit(c) == c.step \in {"checked", "trusted", "signed"} =>
                          auth[c.action] # None /\ auth[c.action].decision = "ALLOWED"
           Trust(c) == c.step \in {"trusted", "signed"} =>
                         ExecutorOf[c.doc] \in Executors \ {AgentOf[c.action]}
           Order(c) == c.step = "signed" => auth[c.action].issuedAt < c.at
<1>1. \A p \in Proc : Permit(op[p]) /\ Trust(op[p]) /\ Order(op[p])
  BY DEF CommitsArePermitted
<1>2. ASSUME NEW p \in Proc
      PROVE  Permit(op'[p]) /\ Trust(op'[p]) /\ Order(op'[p])
  <2>1. CASE op'[p] = op[p]
    BY <1>1, <2>1
  <2>2. CASE op'[p] # op[p] /\ op'[p].step = "checked"
    BY <2>2, NextCall DEF PermitVerdict
  <2>3. CASE op'[p] # op[p] /\ op'[p].step = "trusted"
    BY <1>1, <2>3, NextCall
  <2>4. CASE op'[p] # op[p] /\ op'[p].step = "signed"
    <3>1. /\ op[p].step = "trusted"
          /\ op'[p].action = op[p].action /\ op'[p].doc = op[p].doc /\ op'[p].at = now
      BY <2>4, NextCall
    <3>2. op[p].action \in ActionId /\ auth[op[p].action] # None
      BY <1>1, <3>1, CallFields DEF TypeOK
    <3>3. auth[op[p].action].issuedAt < now
      BY <3>2 DEF StampsArePast
    <3>4. QED
      BY <1>1, <2>4, <3>1, <3>3
  <2>5. QED
    BY <2>1, <2>2, <2>3, <2>4
<1>3. ASSUME NEW p \in Proc, op'[p].step \in {"checked", "trusted", "signed"}
      PROVE  auth'[op'[p].action] = auth[op'[p].action]
  <2>1. op'[p].action \in ActionId
    BY <1>3, CallKinds DEF TypeOK
  <2>2. QED
    BY <1>2, <1>3, <2>1, FinalStep
<1>4. QED
  BY <1>2, <1>3 DEF CommitsArePermitted

(* What the commit had checked is what it stores. *)
LEMMA OutcomeIsPermittedStep ==
  ASSUME TypeOK, CommitsArePermitted, OutcomeIsPermitted, [Next]_vars
  PROVE  OutcomeIsPermitted'
<1> SUFFICES ASSUME NEW a \in ActionId, outcome'[a] # None
             PROVE  /\ auth'[a] # None
                    /\ auth'[a].decision = "ALLOWED"
                    /\ auth'[a].issuedAt < outcome'[a].completedAt
                    /\ ExecutorOf[outcome'[a].doc] \in Executors \ {AgentOf[a]}
  BY DEF OutcomeIsPermitted
<1>1. CASE outcome[a] # None
  BY <1>1, FinalStep DEF OutcomeIsPermitted
<1>2. CASE outcome[a] = None
  <2>1. PICK p \in Proc : CommitInsert(p)
    BY <1>2, TableStep DEF tables, RequestInsert, RegisterInsert, RevokeCommit
  <2>2. /\ op[p].step = "signed" /\ op[p].action = a
        /\ outcome'[a] = [doc |-> op[p].doc, completedAt |-> op[p].at]
    BY <1>2, <2>1, CallFields DEF TypeOK, CommitInsert
  <2>3. auth'[a] = auth[a]
    BY <2>1 DEF CommitInsert
  <2>4. QED
    BY <2>2, <2>3 DEF CommitsArePermitted
<1>3. QED
  BY <1>1, <1>2

-----------------------------------------------------------------------------
(* The invariant behind the theorems, in every reachable state. *)
THEOREM GateInvariant == Spec => []GateInv
<1>1. Init => GateInv
  BY GateAssumption
     DEF Init, GateInv, GateAssumption, TypeOK, RevokedIsKnown, StampsArePast,
         CommitsArePermitted, OutcomeIsPermitted, Interval, Calls, Idle
<1>2. GateInv /\ [Next]_vars => GateInv'
  BY TypeStep, RevokedIsKnownStep, StampsArePastStep, CommitsArePermittedStep,
     OutcomeIsPermittedStep DEF GateInv
<1>3. QED
  BY <1>1, <1>2, PTL DEF Spec

(* Every table, call and answer has the type that the code gives it. *)
THEOREM TypeCorrect == Spec => []TypeOK
BY GateInvariant, PTL DEF GateInv

(* A stored outcome is backed by an ALLOWED permit issued before it and    *)
(* comes from an executor of the policy other than the proposing agent,    *)
(* however the calls of other processes overlap the commit.                *)
THEOREM PermittedOutcomes == Spec => []OutcomeIsPermitted
BY GateInvariant, PTL DEF GateInv

(* No step replaces a stored permit or outcome or takes a revocation back. *)
THEOREM FinalRecords == Spec => RecordsAreFinal
<1>1. TypeOK /\ [Next]_vars =>
        [\A a \in ActionId :
           /\ auth[a] # None => auth'[a] = auth[a]
           /\ outcome[a] # None => outcome'[a] = outcome[a]
           /\ a \in revoked => a \in revoked']_vars
  BY FinalStep
<1>2. QED
  BY <1>1, TypeCorrect, PTL DEF Spec, RecordsAreFinal

(* A commit finds a permit that is revoked or expired dead. *)
LEMMA DeadVerdict ==
  ASSUME NEW a \in ActionId, NEW o \in Outcome, DeadPermit(a)
  PROVE  PermitVerdict(a, o) # "unconsumed"
BY DEF DeadPermit, PermitVerdict

LEMMA DeadStep ==
  ASSUME TypeOK, TypeOK', [Next]_vars, NEW a \in ActionId, DeadPermit(a)
  PROVE  DeadPermit(a)'
<1>1. ASSUME NEW p \in Proc, op'[p].step \in {"checked", "trusted", "signed"}
      PROVE  op'[p].action # a
  <2>1. CASE op'[p] = op[p]
    BY <1>1, <2>1 DEF DeadPermit
  <2>2. CASE op'[p] # op[p] /\ op'[p].step = "checked"
    <3>1. op'[p].action \in ActionId /\ op'[p].doc \in Outcome
      BY <1>1, CallKinds DEF TypeOK
    <3>2. QED
      BY <2>2, <3>1, NextCall, DeadVerdict
  <2>3. CASE op'[p] # op[p] /\ op'[p].step \in {"trusted", "signed"}
    BY <2>3, NextCall DEF DeadPermit
  <2>4. QED
    BY <1>1, <2>1, <2>2, <2>3
<1>2. outcome'[a] = None
  <2>1. ASSUME NEW p \in Proc, CommitInsert(p)
        PROVE  outcome'[a] = outcome[a]
    BY <2>1, CallFields DEF TypeOK, CommitInsert, DeadPermit
  <2>2. outcome'[a] = outcome[a]
    BY <2>1, TableStep DEF tables, RequestInsert, RegisterInsert, RevokeCommit
  <2>3. QED
    BY <2>2 DEF DeadPermit
<1>3. auth'[a] = auth[a] /\ auth[a] # None /\ (a \in revoked => a \in revoked') /\ now <= now'
  BY FinalStep DEF DeadPermit
<1>4. auth[a].expiresAt \in Nat /\ now \in Nat /\ now' \in Nat
  BY <1>3 DEF TypeOK, Authorization
<1>5. a \in revoked' \/ now' > auth[a].expiresAt
  BY <1>3, <1>4 DEF DeadPermit
<1>6. QED
  BY <1>1, <1>2, <1>3, <1>5 DEF DeadPermit

(* A permit that was revoked or expired before any commit had checked it   *)
(* is never consumed.                                                      *)
THEOREM DeadPermits == Spec => DeadPermitStaysDead
<1>1. TypeOK /\ TypeOK' /\ [Next]_vars =>
        [\A a \in ActionId : DeadPermit(a) => DeadPermit(a)']_vars
  BY DeadStep
<1>2. QED
  BY <1>1, TypeCorrect, PTL DEF Spec, DeadPermitStaysDead

-----------------------------------------------------------------------------
(* A key with a revocation in the past is not active now: the row ends at  *)
(* the earliest revocation, or is not the one that was signed.             *)
LEMMA RevokedIsInactive ==
  ASSUME TypeOK, StampsArePast, NEW k \in Key, ends[k] # {}
  PROVE  ~ActiveAt(k, now)
<1>1. SUFFICES ASSUME ColumnsMatchEvents(k)
               PROVE  ~ActiveAt(k, now)
  BY DEF ActiveAt
<1>2. keys[k].until \in ends[k] /\ ends[k] \subseteq Nat /\ now \in Nat
  BY <1>1 DEF ColumnsMatchEvents, TypeOK
<1>3. keys[k].until # None /\ keys[k].until <= now
  BY <1>2, NoneAssumption DEF StampsArePast
<1>4. QED
  BY <1>2, <1>3 DEF ActiveAt

LEMMA ShutOutStep ==
  ASSUME TypeOK, StampsArePast, [Next]_vars, NEW k \in Key, ShutOut(k)
  PROVE  ShutOut(k)' /\ Granted(k)' \subseteq Granted(k)
<1>1. ends'[k] # {}
  BY FinalStep DEF ShutOut
<1>2. ASSUME NEW p \in Proc, op'[p].step = "decided", op'[p].decision = "ALLOWED"
      PROVE  AgentOf[ActionOf[op'[p].intent]] # k
  <2>1. CASE op'[p] = op[p]
    BY <1>2, <2>1 DEF ShutOut
  <2>2. CASE op'[p] # op[p]
    <3>1. /\ op'[p].intent = op[p].intent
          /\ op'[p].decision = Decision(op[p].intent, op[p].signed, op[p].at,
                                        ActiveAt(AgentOf[ActionOf[op[p].intent]], now))
      BY <1>2, <2>2, NextCall
    <3>2. ActiveAt(AgentOf[ActionOf[op[p].intent]], now)
      BY <1>2, <3>1 DEF Decision
    <3>3. QED
      BY <3>1, <3>2, RevokedIsInactive DEF ShutOut
  <2>3. QED
    BY <2>1, <2>2
<1>3. ASSUME NEW a \in ActionId, AgentOf[a] = k, auth'[a] # None, auth'[a].decision = "ALLOWED"
      PROVE  auth[a] # None /\ auth[a].decision = "ALLOWED"
  <2>1. CASE auth[a] # None
    BY <1>3, <2>1, FinalStep
  <2>2. CASE auth[a] = None
    <3>1. PICK p \in Proc : RequestInsert(p)
      BY <1>3, <2>2, TableStep DEF tables, CommitInsert, RegisterInsert, RevokeCommit
    <3>2. /\ op[p].step = "decided" /\ ActionOf[op[p].intent] = a
          /\ auth'[a].decision = op[p].decision
      BY <1>3, <2>2, <3>1, CallFields DEF TypeOK, RequestInsert
    <3>3. QED
      BY <1>3, <3>2 DEF ShutOut
  <2>3. QED
    BY <2>1, <2>2
<1>4. QED
  BY <1>1, <1>2, <1>3 DEF ShutOut, Granted

(* A revoked key gets no permit from a request that was not yet decided.   *)
THEOREM RevokedKeys == Spec => RevokedStaysOut
<1>1. GateInv /\ [Next]_vars =>
        [\A k \in Key : ShutOut(k) => ShutOut(k)' /\ Granted(k)' \subseteq Granted(k)]_vars
  BY ShutOutStep DEF GateInv
<1>2. QED
  BY <1>1, GateInvariant, PTL DEF Spec, RevokedStaysOut

-----------------------------------------------------------------------------
(* Appending an event adds the last position to those of its subject. *)
LEMMA PositionsStep ==
  ASSUME TypeOK, NEW t \in Tenant, NEW ty, NEW s, [type |-> ty, subject |-> s] \in Recorded,
         Record(t, ty, s), NEW a \in ActionId, NEW types
  PROVE  /\ t = TenantOf[a] => \A n \in Positions(a, types) : n < Len(stream[t]) + 1
         /\ (t = TenantOf[a] /\ ty \in types /\ s = a) =>
              Positions(a, types)' = Positions(a, types) \cup {Len(stream[t]) + 1}
         /\ (ty \notin types \/ s # a) => Positions(a, types)' = Positions(a, types)
<1> DEFINE u == TenantOf[a]
<1>1. u \in Tenant /\ stream[u] \in Seq(Recorded) /\ stream[t] \in Seq(Recorded)
  BY GateAssumption DEF GateAssumption, TypeOK
<1>2. CASE t # u
  <2>1. stream'[u] = stream[u]
    BY <1>1, <1>2 DEF Record, TypeOK
  <2>2. QED
    BY <1>2, <2>1 DEF Positions
<1>3. CASE t = u
  <2> DEFINE e == [type |-> ty, subject |-> s]
  <2>1. stream'[u] = Append(stream[u], e)
    BY <1>1, <1>3 DEF Record, TypeOK
  <2>2. /\ DOMAIN stream[u] = 1 .. Len(stream[u])
        /\ Len(stream[u]) \in Nat
        /\ DOMAIN stream'[u] = 1 .. Len(stream[u]) + 1
        /\ \A n \in 1 .. Len(stream[u]) : stream'[u][n] = stream[u][n]
        /\ stream'[u][Len(stream[u]) + 1] = e
    BY <1>1, <2>1
  <2> DEFINE L == Len(stream[u])
             Told(v) == v.type \in types /\ v.subject = a
  <2>3. Positions(a, types) = {n \in 1 .. L : Told(stream[u][n])}
    BY <2>2 DEF Positions
  <2>4. Positions(a, types)' = {n \in 1 .. L + 1 : Told(stream'[u][n])}
    BY <2>2 DEF Positions
  <2>5. Told(e) <=> (ty \in types /\ s = a)
    OBVIOUS
  <2> HIDE DEF Told
  <2>6. \A n \in Positions(a, types) : n < L + 1
    BY <2>2, <2>3
  <2>7. CASE Told(e)
    BY <1>3, <2>2, <2>3, <2>4, <2>5, <2>6, <2>7
  <2>8. CASE ~Told(e)
    BY <1>3, <2>2, <2>3, <2>4, <2>5, <2>6, <2>8
  <2>9. QED
    BY <2>7, <2>8
<1>4. QED
  BY <1>2, <1>3

(* What the insertion of a permit, and that of an outcome, does to the     *)
(* stream together with the table.                                         *)
LEMMA GrantTold ==
  ASSUME TypeOK, StreamMatchesTables, NEW b \in ActionId,
         Record(TenantOf[b], "action.authorized", b),
         auth[b] = None, auth'[b] # None, \A a \in ActionId : a # b => auth'[a] = auth[a],
         outcome[b] = None, outcome' = outcome
  PROVE  StreamMatchesTables'
<1> DEFINE granted(a) == Positions(a, {"action.authorized"})
           closed(a) == Positions(a, {"action.executed", "action.failed"})
           last == Len(stream[TenantOf[b]]) + 1
<1>1. TenantOf[b] \in Tenant /\ [type |-> "action.authorized", subject |-> b] \in Recorded
  BY GateAssumption DEF GateAssumption, Recorded
<1>2. \A a \in ActionId : ToldInOrder(a, granted(a), closed(a))
  BY DEF StreamMatchesTables
<1>3. \A a \in ActionId : closed(a)' = closed(a)
  BY <1>1, PositionsStep
<1>4. \A a \in ActionId : a # b => granted(a)' = granted(a)
  BY <1>1, PositionsStep
<1>5. granted(b)' = granted(b) \cup {last}
  BY <1>1, PositionsStep
<1> HIDE DEF granted, closed, last
<1>6. ASSUME NEW a \in ActionId
      PROVE  ToldInOrder(a, granted(a), closed(a))'
  <2>1. CASE a = b
    <3>1. granted(b)' = {last} /\ closed(b)' = {}
      BY <1>2, <1>3, <1>5 DEF ToldInOrder
    <3>2. QED
      BY <2>1, <3>1 DEF ToldInOrder
  <2>2. CASE a # b
    BY <1>2, <1>3, <1>4, <2>2 DEF ToldInOrder
  <2>3. QED
    BY <2>1, <2>2
<1>7. QED
  BY <1>6 DEF StreamMatchesTables, granted, closed

LEMMA OutcomeTold ==
  ASSUME TypeOK, StreamMatchesTables, NEW b \in ActionId,
         NEW ty \in {"action.executed", "action.failed"}, Record(TenantOf[b], ty, b),
         outcome[b] = None, outcome'[b] # None,
         \A a \in ActionId : a # b => outcome'[a] = outcome[a],
         auth' = auth
  PROVE  StreamMatchesTables'
<1> DEFINE granted(a) == Positions(a, {"action.authorized"})
           closed(a) == Positions(a, {"action.executed", "action.failed"})
           last == Len(stream[TenantOf[b]]) + 1
<1>1. TenantOf[b] \in Tenant /\ [type |-> ty, subject |-> b] \in Recorded
  BY GateAssumption DEF GateAssumption, Recorded
<1>2. \A a \in ActionId : ToldInOrder(a, granted(a), closed(a))
  BY DEF StreamMatchesTables
<1>3. \A a \in ActionId : granted(a)' = granted(a)
  BY <1>1, PositionsStep
<1>4. \A a \in ActionId : a # b => closed(a)' = closed(a)
  BY <1>1, PositionsStep
<1>5. closed(b)' = closed(b) \cup {last}
  BY <1>1, PositionsStep
<1>6. \A n \in granted(b) : n < last
  BY <1>1, PositionsStep
<1> HIDE DEF granted, closed, last
<1>7. ASSUME NEW a \in ActionId
      PROVE  ToldInOrder(a, granted(a), closed(a))'
  <2>1. CASE a = b
    <3>1. granted(b)' = granted(b) /\ closed(b)' = {last}
      BY <1>2, <1>3, <1>5 DEF ToldInOrder
    <3>2. QED
      BY <1>2, <1>6, <2>1, <3>1 DEF ToldInOrder
  <2>2. CASE a # b
    BY <1>2, <1>3, <1>4, <2>2 DEF ToldInOrder
  <2>3. QED
    BY <2>1, <2>2
<1>8. QED
  BY <1>7 DEF StreamMatchesTables, granted, closed

LEMMA StreamStep ==
  ASSUME GateInv, StreamMatchesTables, [Next]_vars
  PROVE  StreamMatchesTables'
<1> USE DEF GateInv
<1>1. CASE UNCHANGED <<auth, outcome, stream>>
  <2>1. \A a \in ActionId : \A types : Positions(a, types)' = Positions(a, types)
    BY <1>1 DEF Positions
  <2>2. QED
    BY <1>1, <2>1 DEF StreamMatchesTables, ToldInOrder
<1>2. ASSUME NEW p \in Proc, RequestInsert(p)
      PROVE  StreamMatchesTables'
  <2> DEFINE b == ActionOf[op[p].intent]
             r == [intent |-> op[p].intent, signed |-> op[p].signed,
                   decision |-> op[p].decision, issuedAt |-> op[p].at,
                   expiresAt |-> op[p].at + Ttl]
  <2>1. b \in ActionId /\ r \in Authorization
    BY <1>2, CallFields, GateAssumption DEF GateAssumption, TypeOK, RequestInsert, Authorization
  <2>2. auth[b] = None /\ outcome[b] = None /\ outcome' = outcome
    BY <1>2, <2>1 DEF OutcomeIsPermitted, RequestInsert
  <2>3. auth' = [auth EXCEPT ![b] = r] /\ Record(TenantOf[b], "action.authorized", b)
    BY <1>2 DEF RequestInsert
  <2>4. auth'[b] # None /\ \A a \in ActionId : a # b => auth'[a] = auth[a]
    BY <2>1, <2>3, NoneAssumption DEF TypeOK
  <2>5. QED
    BY <2>1, <2>2, <2>3, <2>4, GrantTold
<1>3. ASSUME NEW p \in Proc, CommitInsert(p)
      PROVE  StreamMatchesTables'
  <2> DEFINE b == op[p].action
             r == [doc |-> op[p].doc, completedAt |-> op[p].at]
  <2>1. b \in ActionId /\ r \in Execution
    BY <1>3, CallFields DEF TypeOK, CommitInsert, Execution
  <2>2. outcome[b] = None /\ auth' = auth
    BY <1>3 DEF CommitInsert
  <2>3. outcome' = [outcome EXCEPT ![b] = r]
    BY <1>3 DEF CommitInsert
  <2>4. PICK ty \in {"action.executed", "action.failed"} : Record(TenantOf[b], ty, b)
    BY <1>3 DEF CommitInsert
  <2>5. outcome'[b] # None /\ \A a \in ActionId : a # b => outcome'[a] = outcome[a]
    BY <2>1, <2>3, NoneAssumption DEF TypeOK
  <2>6. QED
    BY <2>1, <2>2, <2>4, <2>5, OutcomeTold
<1>4. ASSUME NEW p \in Proc, RegisterInsert(p)
      PROVE  StreamMatchesTables'
  <2> DEFINE k == op[p].key
  <2>1. /\ TenantOf[k] \in Tenant
        /\ [type |-> "agent.registered", subject |-> k] \in Recorded
        /\ Record(TenantOf[k], "agent.registered", k)
    BY <1>4, CallFields, GateAssumption DEF GateAssumption, TypeOK, RegisterInsert, Recorded
  <2>2. ASSUME NEW a \in ActionId
        PROVE  /\ Positions(a, {"action.authorized"})' = Positions(a, {"action.authorized"})
               /\ Positions(a, {"action.executed", "action.failed"})' =
                    Positions(a, {"action.executed", "action.failed"})
    BY <2>1, PositionsStep
  <2>3. auth' = auth /\ outcome' = outcome
    BY <1>4 DEF RegisterInsert
  <2>4. QED
    BY <2>2, <2>3 DEF StreamMatchesTables, ToldInOrder
<1>5. ASSUME NEW p \in Proc, RevokeCommit(p)
      PROVE  StreamMatchesTables'
  BY <1>1, <1>5 DEF RevokeCommit
<1>6. QED
  BY <1>1, <1>2, <1>3, <1>4, <1>5, TableStep DEF tables

(* The stream of a tenant tells of every permit and every outcome exactly  *)
(* once and in that order.                                                 *)
THEOREM StreamTells == Spec => []StreamMatchesTables
<1>1. Init => StreamMatchesTables
  BY GateAssumption DEF GateAssumption, Init, StreamMatchesTables, ToldInOrder, Positions
<1>2. GateInv /\ StreamMatchesTables /\ [Next]_vars => StreamMatchesTables'
  BY StreamStep
<1>3. QED
  BY <1>1, <1>2, GateInvariant, PTL DEF Spec
=============================================================================
