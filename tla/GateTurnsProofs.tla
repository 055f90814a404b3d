--------------------------- MODULE GateTurnsProofs ---------------------------
(***************************************************************************)
(* Proofs about a Gate whose calls take turns: what the interleavings of   *)
(* two callers break (MCGate_revocation.cfg shows one) holds for one       *)
(* caller after the other, for any number of actions, outcomes and keys.   *)
(***************************************************************************)
EXTENDS GateProofs

(* Calls take turns if there is but one caller. *)
InTurns == \A p, q \in Proc : p = q

(* The row and the revocations of a key say that it is active at t, and    *)
(* that it has not been revoked at all.                                    *)
Active(row, revocations, t) ==
  /\ row # None
  /\ IF revocations = {} THEN row.until = None
     ELSE row.until \in revocations /\ \A e \in revocations : row.until <= e
  /\ row.from <= t
  /\ row.until # None => t < row.until

Alive(k) == keys[k] # None /\ ends[k] = {}

(* No key begins or ends later than t; every row was written before t.     *)
KeysBefore(t) ==
  \A k \in Key : (keys[k] # None => keys[k].from <= t) /\ \A e \in ends[k] : e <= t

RowsBefore(t) ==
  \A a \in ActionId :
    /\ auth[a] # None => auth[a].issuedAt < t
    /\ outcome[a] # None => outcome[a].completedAt < t

(* What a call has found out of the tables is still so at its next step.   *)
CallInTurn(c) ==
  /\ c.step \in {"stamped", "decided"} => auth[ActionOf[c.intent]] = None /\ KeysBefore(c.at)
  /\ c.step = "decided" =>
       c.decision = Decision(c.intent, c.signed, c.at, Alive(AgentOf[ActionOf[c.intent]]))
  /\ c.step \in {"checked", "trusted", "signed"} =>
       outcome[c.action] = None /\ c.action \notin revoked /\ StatusOf[c.doc] # "UNKNOWN"
  /\ c.step \in {"trusted", "signed"} =>
       LET x == ExecutorOf[c.doc] IN Alive(x) /\ InScope(x, c.action) /\ x \notin Proposer
  /\ c.step = "signed" => KeysBefore(c.at)
  /\ c.step = "registering" => keys[c.key] = None /\ RowsBefore(c.at)
  /\ c.step = "revoking" => Alive(c.key) /\ RowsBefore(c.at)

(* A key's columns always match its signed revocations.                    *)
KeysMatch ==
  \A k \in Key : IF keys[k] = None THEN ends[k] = {} ELSE ColumnsMatchEvents(k)

RowsInTurn ==
  /\ KeysMatch /\ KeysBefore(now) /\ RowsBefore(now)
  /\ StoredPermitsVerify /\ StoredReceiptsVerify
  /\ RevocationIsComplete /\ RevokedIsUnconsumed
  /\ \A a \in ActionId : outcome[a] # None => StatusOf[outcome[a].doc] # "UNKNOWN"

CallsInTurn == \A p \in Proc : CallInTurn(op[p])

RepliesInTurn == RequestsAreIdempotent /\ RetryInTimeGetsReceipt

TurnsInv == GateInv /\ RowsInTurn /\ CallsInTurn /\ RepliesInTurn

-----------------------------------------------------------------------------
(* The named parts of the invariant, in terms of Active. *)

LEMMA ActiveNow ==
  ASSUME NEW k \in Key, NEW t
  PROVE  ActiveAt(k, t) <=> Active(keys[k], ends[k], t)
  BY DEF ActiveAt, ColumnsMatchEvents, Active

PermitRight(a, r, row, revocations) ==
  Decision(r.intent, r.signed, r.issuedAt, Active(row, revocations, r.issuedAt)) = r.decision

ReceiptRight(a, r, row, revocations) ==
  LET x == ExecutorOf[r.doc] IN
  /\ x # AgentOf[a] /\ InScope(x, a) /\ x \notin Proposer
  /\ Active(row, revocations, r.completedAt)

LEMMA PermitsNow ==
  StoredPermitsVerify <=>
    \A a \in ActionId : auth[a] # None =>
      PermitRight(a, auth[a], keys[AgentOf[a]], ends[AgentOf[a]])
  BY DEF StoredPermitsVerify, AuthorizationVerifies, ActiveAt, ColumnsMatchEvents, Active, PermitRight

LEMMA PermitsNext ==
  StoredPermitsVerify' <=>
    \A a \in ActionId : auth'[a] # None =>
      PermitRight(a, auth'[a], keys'[AgentOf[a]], ends'[AgentOf[a]])
  BY DEF StoredPermitsVerify, AuthorizationVerifies, ActiveAt, ColumnsMatchEvents, Active, PermitRight

LEMMA ReceiptsNow ==
  StoredReceiptsVerify <=>
    \A a \in ActionId : outcome[a] # None =>
      ReceiptRight(a, outcome[a], keys[ExecutorOf[outcome[a].doc]], ends[ExecutorOf[outcome[a].doc]])
  BY DEF StoredReceiptsVerify, ExecutionVerifies, ExecutorTrusted, ActiveAt, ColumnsMatchEvents,
         Active, ReceiptRight

LEMMA ReceiptsNext ==
  StoredReceiptsVerify' <=>
    \A a \in ActionId : outcome'[a] # None =>
      ReceiptRight(a, outcome'[a], keys'[ExecutorOf[outcome'[a].doc]], ends'[ExecutorOf[outcome'[a].doc]])
  BY DEF StoredReceiptsVerify, ExecutionVerifies, ExecutorTrusted, ActiveAt, ColumnsMatchEvents,
         Active, ReceiptRight

(* At a time that no key begins or ends after, active means never revoked. *)
LEMMA ActiveIsAlive ==
  ASSUME TypeOK, KeysMatch, NEW k \in Key, NEW t \in Nat, KeysBefore(t)
  PROVE  Active(keys[k], ends[k], t) <=> Alive(k)
  <1>1. keys[k] \in Interval \cup {None} /\ ends[k] \in SUBSET Nat
    BY DEF TypeOK
  <1>2. CASE keys[k] = None
    BY <1>2 DEF Active, Alive
  <1>3. CASE keys[k] # None /\ ends[k] = {}
    <2>1. keys[k].until = None /\ keys[k].from <= t
      BY <1>3 DEF KeysMatch, ColumnsMatchEvents, KeysBefore
    <2> QED BY <1>3, <2>1 DEF Active, Alive
  <1>4. CASE keys[k] # None /\ ends[k] # {}
    <2>1. keys[k].until \in ends[k]
      BY <1>4 DEF KeysMatch, ColumnsMatchEvents
    <2>2. keys[k].until \in Nat /\ keys[k].until <= t
      BY <1>1, <2>1 DEF KeysBefore
    <2>3. keys[k].until # None /\ ~(t < keys[k].until)
      BY <2>2, NoneAssumption
    <2> QED BY <1>4, <2>3 DEF Active, Alive
  <1> QED BY <1>2, <1>3, <1>4

LEMMA AliveAt ==
  ASSUME TypeOK, KeysMatch, NEW k \in Key, NEW t \in Nat, KeysBefore(t)
  PROVE  ActiveAt(k, t) <=> Alive(k)
  BY ActiveIsAlive, ActiveNow

(* The fields of what is stored. *)
LEMMA RowFields ==
  ASSUME TypeOK, NEW a \in ActionId
  PROVE  /\ AgentOf[a] \in Key
         /\ auth[a] # None =>
              /\ auth[a] \in Authorization
              /\ auth[a].issuedAt \in Nat /\ auth[a].expiresAt \in Nat /\ auth[a].intent \in Intent
         /\ outcome[a] # None =>
              /\ outcome[a] \in Execution
              /\ outcome[a].doc \in Outcome /\ outcome[a].completedAt \in Nat
              /\ ExecutorOf[outcome[a].doc] \in Key
  BY GateAssumption DEF TypeOK, Authorization, Execution, GateAssumption

LEMMA RowsAreRows ==
  ASSUME NEW r
  PROVE  /\ r \in Authorization => r # None
         /\ r \in Execution => r # None
         /\ r \in Interval => r # None
         /\ r \in Nat => r # None
  BY NoneAssumption

-----------------------------------------------------------------------------
(* A step that writes no table disturbs nothing that the tables say. *)
LEMMA QuietRows ==
  ASSUME TypeOK, RowsInTurn, UNCHANGED tables, now' \in Nat, now <= now'
  PROVE  RowsInTurn'
  <1>1. now \in Nat
    BY DEF TypeOK
  <1>2. KeysMatch' /\ StoredPermitsVerify' /\ StoredReceiptsVerify' /\ RevocationIsComplete'
        /\ RevokedIsUnconsumed'
        /\ (\A a \in ActionId : outcome[a] # None => StatusOf[outcome[a].doc] # "UNKNOWN")'
    BY DEF RowsInTurn, tables, KeysMatch, ColumnsMatchEvents, StoredPermitsVerify,
           AuthorizationVerifies, ActiveAt, StoredReceiptsVerify, ExecutionVerifies,
           ExecutorTrusted, RevocationIsComplete, RevokedIsUnconsumed
  <1>3. KeysBefore(now)'
    <2> SUFFICES ASSUME NEW k \in Key
                 PROVE  /\ keys[k] # None => keys[k].from <= now'
                        /\ \A e \in ends[k] : e <= now'
      BY DEF KeysBefore, tables
    <2>1. keys[k] \in Interval \cup {None} /\ ends[k] \in SUBSET Nat
      BY DEF TypeOK
    <2>2. /\ keys[k] # None => keys[k].from \in Nat /\ keys[k].from <= now
          /\ \A e \in ends[k] : e \in Nat /\ e <= now
      BY <2>1 DEF RowsInTurn, KeysBefore, Interval
    <2> QED BY <1>1, <2>2
  <1>4. RowsBefore(now)'
    <2> SUFFICES ASSUME NEW a \in ActionId
                 PROVE  /\ auth[a] # None => auth[a].issuedAt < now'
                        /\ outcome[a] # None => outcome[a].completedAt < now'
      BY DEF RowsBefore, tables
    <2>1. /\ auth[a] # None => auth[a].issuedAt \in Nat /\ auth[a].issuedAt < now
          /\ outcome[a] # None => outcome[a].completedAt \in Nat /\ outcome[a].completedAt < now
      BY RowFields DEF RowsInTurn, RowsBefore
    <2> QED BY <1>1, <2>1
  <1> QED BY <1>2, <1>3, <1>4 DEF RowsInTurn

(* ... nor what the calls have found out, if none of them goes on.         *)
LEMMA QuietCall ==
  ASSUME NEW p, UNCHANGED tables, CallInTurn(op[p]), op'[p] = op[p]
  PROVE  CallInTurn(op[p])'
  BY DEF tables, CallInTurn, KeysBefore, RowsBefore, Alive

LEMMA IdleCall ==
  ASSUME InTurns, op \in [Proc -> Calls], NEW p \in Proc, NEW r, Return(p, r)
  PROVE  CallsInTurn' /\ reply' = r
  <1>1. \A q \in Proc : op'[q] = Idle
    BY DEF InTurns, Return
  <1>2. ASSUME NEW q \in Proc PROVE CallInTurn(op[q])'
    BY <1>1 DEF CallInTurn, Idle
  <1> QED BY <1>2 DEF CallsInTurn, Return

LEMMA OneCall ==
  ASSUME InTurns, op \in [Proc -> Calls], NEW p \in Proc, NEW c, Continue(p, c)
  PROVE  (\A q \in Proc : op'[q] = c) /\ RepliesInTurn'
  BY DEF InTurns, Continue, NoReply, RepliesInTurn, RequestsAreIdempotent, RetryInTimeGetsReceipt

LEMMA NoReplyInTurn ==
  ASSUME reply' = NoReply
  PROVE  RepliesInTurn'
  BY DEF NoReply, RepliesInTurn, RequestsAreIdempotent, RetryInTimeGetsReceipt

LEMMA ClockStep ==
  ASSUME TypeOK, TypeOK', [Next]_vars
  PROVE  now \in Nat /\ now' \in Nat /\ now <= now'
  BY FinalStep DEF TypeOK

-----------------------------------------------------------------------------
(* The four transactions. *)

(* What was active at a time of a stored row stays so when a key begins or *)
(* ends later.                                                             *)
LEMMA ActiveStays ==
  ASSUME NEW row, NEW revocations, NEW at \in Nat, NEW t \in Nat, t < at,
         row # None, row \in Interval, row.until = None, revocations = {}
  PROVE  Active([from |-> row.from, until |-> at], {at}, t) <=> Active(row, revocations, t)
  <1>1. row.from \in Nat /\ [from |-> row.from, until |-> at] \in Interval
    BY DEF Interval
  <1>2. [from |-> row.from, until |-> at] # None /\ at # None
    BY <1>1, NoneAssumption
  <1> QED BY <1>1, <1>2 DEF Active

(* Stored permits and receipts verify as before if no key began or ended   *)
(* but after all of them.                                                  *)
LEMMA StillVerify ==
  ASSUME TypeOK, StoredPermitsVerify, StoredReceiptsVerify, UNCHANGED <<auth, outcome>>,
         NEW at \in Nat, RowsBefore(at),
         \A j \in Key, t \in Nat :
           t < at => (Active(keys'[j], ends'[j], t) <=> Active(keys[j], ends[j], t))
  PROVE  StoredPermitsVerify' /\ StoredReceiptsVerify'
  <1>1. StoredPermitsVerify'
    <2> SUFFICES ASSUME NEW a \in ActionId, auth'[a] # None
                 PROVE  PermitRight(a, auth'[a], keys'[AgentOf[a]], ends'[AgentOf[a]])
      BY PermitsNext
    <2>1. PermitRight(a, auth[a], keys[AgentOf[a]], ends[AgentOf[a]])
      BY PermitsNow
    <2>2. auth[a].issuedAt \in Nat /\ auth[a].issuedAt < at /\ AgentOf[a] \in Key
      BY RowFields DEF RowsBefore
    <2>3. Active(keys'[AgentOf[a]], ends'[AgentOf[a]], auth[a].issuedAt)
            <=> Active(keys[AgentOf[a]], ends[AgentOf[a]], auth[a].issuedAt)
      BY <2>2
    <2>4. Active(keys'[AgentOf[a]], ends'[AgentOf[a]], auth[a].issuedAt)
            = Active(keys[AgentOf[a]], ends[AgentOf[a]], auth[a].issuedAt)
      BY <2>3 DEF Active
    <2> QED BY <2>1, <2>4 DEF PermitRight
  <1>2. StoredReceiptsVerify'
    <2> SUFFICES ASSUME NEW a \in ActionId, outcome'[a] # None
                 PROVE  ReceiptRight(a, outcome'[a], keys'[ExecutorOf[outcome'[a].doc]],
                                     ends'[ExecutorOf[outcome'[a].doc]])
      BY ReceiptsNext
    <2> DEFINE x == ExecutorOf[outcome[a].doc]
    <2>1. ReceiptRight(a, outcome[a], keys[x], ends[x])
      BY ReceiptsNow
    <2>2. outcome[a].completedAt \in Nat /\ outcome[a].completedAt < at /\ x \in Key
      BY RowFields DEF RowsBefore
    <2>3. Active(keys'[x], ends'[x], outcome[a].completedAt)
            <=> Active(keys[x], ends[x], outcome[a].completedAt)
      BY <2>2
    <2> QED BY <2>1, <2>3 DEF ReceiptRight
  <1> QED BY <1>1, <1>2

LEMMA RegisterRows ==
  ASSUME InTurns, TurnsInv, TypeOK', NEW p \in Proc, RegisterInsert(p)
  PROVE  RowsInTurn'
  <1> DEFINE k == op[p].key
             at == op[p].at
  <1>1. /\ TypeOK /\ RowsInTurn /\ CallInTurn(op[p]) /\ op \in [Proc -> Calls]
        /\ op[p].step = "registering" /\ keys[k] = None
        /\ keys' = [keys EXCEPT ![k] = [from |-> at, until |-> None]]
        /\ now' = now + 1
        /\ UNCHANGED <<ends, auth, outcome, revoked>>
    BY DEF TurnsInv, GateInv, TypeOK, CallsInTurn, RegisterInsert, Transaction
  <1>2. k \in Key /\ at \in Nat /\ at <= now /\ now \in Nat
    BY <1>1, CallFields DEF TurnsInv, GateInv, StampsArePast, TypeOK
  <1>3. RowsBefore(at) /\ ends[k] = {}
    BY <1>1, <1>2 DEF CallInTurn, RowsInTurn, KeysMatch
  <1>4. /\ keys'[k] = [from |-> at, until |-> None]
        /\ \A j \in Key \ {k} : keys'[j] = keys[j]
        /\ keys'[k] # None
    <2>1. keys \in [Key -> Interval \cup {None}] /\ [from |-> at, until |-> None] \in Interval
      BY <1>1, <1>2 DEF TypeOK, Interval
    <2> QED BY <1>1, <1>2, <2>1, NoneAssumption
  <1>5. KeysMatch'
    BY <1>1, <1>3, <1>4 DEF RowsInTurn, KeysMatch, ColumnsMatchEvents
  <1>6. KeysBefore(now)'
    <2> SUFFICES ASSUME NEW j \in Key
                 PROVE  /\ keys'[j] # None => keys'[j].from <= now'
                        /\ \A e \in ends[j] : e <= now'
      BY <1>1 DEF KeysBefore
    <2>1. keys[j] \in Interval \cup {None} /\ ends[j] \in SUBSET Nat
      BY <1>1 DEF TypeOK
    <2>2. /\ keys[j] # None => keys[j].from \in Nat /\ keys[j].from <= now
          /\ \A e \in ends[j] : e \in Nat /\ e <= now
      BY <1>1, <2>1 DEF RowsInTurn, KeysBefore, Interval
    <2>3. CASE j = k
      BY <1>1, <1>2, <1>4, <2>2, <2>3
    <2>4. CASE j # k
      BY <1>1, <1>2, <1>4, <2>2, <2>4
    <2> QED BY <2>3, <2>4
  <1>7. RowsBefore(now)'
    <2> SUFFICES ASSUME NEW a \in ActionId
                 PROVE  /\ auth[a] # None => auth[a].issuedAt < now'
                        /\ outcome[a] # None => outcome[a].completedAt < now'
      BY <1>1 DEF RowsBefore
    <2> QED BY <1>1, <1>2, RowFields DEF RowsInTurn, RowsBefore
  <1>8. ASSUME NEW j \in Key, NEW t \in Nat, t < at
        PROVE  Active(keys'[j], ends'[j], t) <=> Active(keys[j], ends[j], t)
    <2>1. CASE j = k
      <3>1. ~Active(keys[j], ends[j], t)
        BY <1>1, <2>1 DEF Active
      <3>2. ~(keys'[j].from <= t)
        BY <1>2, <1>4, <1>8, <2>1
      <3> QED BY <3>1, <3>2 DEF Active
    <2>2. CASE j # k
      BY <1>1, <1>4, <2>2
    <2> QED BY <2>1, <2>2
  <1>9. StoredPermitsVerify' /\ StoredReceiptsVerify'
    BY <1>1, <1>2, <1>3, <1>8, StillVerify DEF RowsInTurn
  <1>10. /\ RevocationIsComplete' /\ RevokedIsUnconsumed'
         /\ (\A a \in ActionId : outcome[a] # None => StatusOf[outcome[a].doc] # "UNKNOWN")'
    BY <1>1 DEF RowsInTurn, RevocationIsComplete, RevokedIsUnconsumed
  <1> QED BY <1>5, <1>6, <1>7, <1>9, <1>10 DEF RowsInTurn

LEMMA RevokeRows ==
  ASSUME InTurns, TurnsInv, TypeOK', NEW p \in Proc, RevokeCommit(p)
  PROVE  RowsInTurn'
  <1> DEFINE k == op[p].key
             at == op[p].at
             ended == [from |-> keys[k].from, until |-> at]
  <1>1. /\ TypeOK /\ RowsInTurn /\ CallInTurn(op[p]) /\ op \in [Proc -> Calls]
        /\ op[p].step = "revoking"
        /\ keys' = IF keys[k].until = None THEN [keys EXCEPT ![k] = [from |-> @.from, until |-> at]] ELSE keys
        /\ ends' = [ends EXCEPT ![k] = @ \cup {at}]
        /\ revoked' = revoked \cup Revocable(k, at)
        /\ now' = now + 1
        /\ UNCHANGED <<auth, outcome>>
    BY DEF TurnsInv, GateInv, TypeOK, CallsInTurn, RevokeCommit, Transaction
  <1>2. k \in Key /\ at \in Nat /\ at <= now /\ now \in Nat
    BY <1>1, CallFields DEF TurnsInv, GateInv, StampsArePast, TypeOK
  <1>3. /\ RowsBefore(at) /\ keys[k] # None /\ ends[k] = {}
        /\ keys[k] \in Interval /\ keys[k].from \in Nat /\ keys[k].until = None
    <2>1. RowsBefore(at) /\ keys[k] # None /\ ends[k] = {}
      BY <1>1 DEF CallInTurn, Alive
    <2>2. keys[k] \in Interval
      BY <1>1, <1>2, <2>1 DEF TypeOK
    <2> QED BY <1>1, <1>2, <2>1, <2>2 DEF RowsInTurn, KeysMatch, ColumnsMatchEvents, Interval
  <1>4. /\ keys'[k] = ended /\ ended # None /\ ended \in Interval
        /\ ends'[k] = {at}
        /\ \A j \in Key \ {k} : keys'[j] = keys[j] /\ ends'[j] = ends[j]
    <2>1. keys' = [keys EXCEPT ![k] = ended]
      BY <1>1, <1>3
    <2>2. /\ keys \in [Key -> Interval \cup {None}] /\ ends \in [Key -> SUBSET Nat]
          /\ ended \in Interval
      BY <1>1, <1>2, <1>3 DEF TypeOK, Interval
    <2> QED BY <1>1, <1>2, <1>3, <2>1, <2>2, NoneAssumption
  <1>5. KeysMatch'
    <2> SUFFICES ASSUME NEW j \in Key
                 PROVE  IF keys'[j] = None THEN ends'[j] = {} ELSE ColumnsMatchEvents(j)'
      BY DEF KeysMatch
    <2>1. CASE j = k
      BY <1>2, <1>4, <2>1 DEF ColumnsMatchEvents
    <2>2. CASE j # k
      <3>1. IF keys[j] = None THEN ends[j] = {} ELSE ColumnsMatchEvents(j)
        BY <1>1 DEF RowsInTurn, KeysMatch
      <3> QED BY <1>4, <2>2, <3>1 DEF ColumnsMatchEvents
    <2> QED BY <2>1, <2>2
  <1>6. KeysBefore(now)'
    <2> SUFFICES ASSUME NEW j \in Key
                 PROVE  /\ keys'[j] # None => keys'[j].from <= now'
                        /\ \A e \in ends'[j] : e <= now'
      BY <1>1 DEF KeysBefore
    <2>1. keys[j] \in Interval \cup {None} /\ ends[j] \in SUBSET Nat
      BY <1>1 DEF TypeOK
    <2>2. /\ keys[j] # None => keys[j].from \in Nat /\ keys[j].from <= now
          /\ \A e \in ends[j] : e \in Nat /\ e <= now
      BY <1>1, <2>1 DEF RowsInTurn, KeysBefore, Interval
    <2>3. CASE j = k
      BY <1>1, <1>2, <1>3, <1>4, <2>2, <2>3
    <2>4. CASE j # k
      BY <1>1, <1>2, <1>4, <2>2, <2>4
    <2> QED BY <2>3, <2>4
  <1>7. RowsBefore(now)'
    <2> SUFFICES ASSUME NEW a \in ActionId
                 PROVE  /\ auth[a] # None => auth[a].issuedAt < now'
                        /\ outcome[a] # None => outcome[a].completedAt < now'
      BY <1>1 DEF RowsBefore
    <2> QED BY <1>1, <1>2, RowFields DEF RowsInTurn, RowsBefore
  <1>8. ASSUME NEW j \in Key, NEW t \in Nat, t < at
        PROVE  Active(keys'[j], ends'[j], t) <=> Active(keys[j], ends[j], t)
    <2>1. CASE j = k
      BY <1>2, <1>3, <1>4, <1>8, <2>1, ActiveStays
    <2>2. CASE j # k
      BY <1>1, <1>4, <2>2
    <2> QED BY <2>1, <2>2
  <1>9. StoredPermitsVerify' /\ StoredReceiptsVerify'
    BY <1>1, <1>2, <1>3, <1>8, StillVerify DEF RowsInTurn
  <1>10. RevocationIsComplete'
    <2> SUFFICES ASSUME NEW a \in ActionId, auth[a] # None, auth[a].decision = "ALLOWED",
                        outcome[a] = None, NEW t \in ends'[AgentOf[a]], t < auth[a].expiresAt
                 PROVE  a \in revoked'
      BY <1>1 DEF RevocationIsComplete
    <2>1. CASE AgentOf[a] = k
      <3>1. t = at
        BY <1>4, <2>1
      <3>2. auth[a].expiresAt > at
        BY <1>1, <1>2, <3>1, RowFields
      <3>3. a \in Revocable(k, at)
        BY <2>1, <3>2 DEF Revocable
      <3> QED BY <1>1, <3>3
    <2>2. CASE AgentOf[a] # k
      <3>1. AgentOf[a] \in Key
        BY <1>1, RowFields
      <3>2. t \in ends[AgentOf[a]]
        BY <1>4, <2>2, <3>1
      <3> QED BY <1>1, <3>2 DEF RowsInTurn, RevocationIsComplete
    <2> QED BY <2>1, <2>2
  <1>11. RevokedIsUnconsumed'
    BY <1>1 DEF RowsInTurn, RevokedIsUnconsumed, Revocable
  <1>12. (\A a \in ActionId : outcome[a] # None => StatusOf[outcome[a].doc] # "UNKNOWN")'
    BY <1>1 DEF RowsInTurn
  <1> QED BY <1>5, <1>6, <1>7, <1>9, <1>10, <1>11, <1>12 DEF RowsInTurn

(* An intent is only allowed for an active agent. *)
LEMMA AllowedIsActive ==
  ASSUME NEW i, NEW signed, NEW at, NEW active, Decision(i, signed, at, active) = "ALLOWED"
  PROVE  active
  BY DEF Decision

LEMMA RequestRows ==
  ASSUME InTurns, TurnsInv, TypeOK', NEW p \in Proc, RequestInsert(p)
  PROVE  RowsInTurn'
  <1> DEFINE c == op[p]
             a == ActionOf[c.intent]
             row == [intent |-> c.intent, signed |-> c.signed, decision |-> c.decision,
                     issuedAt |-> c.at, expiresAt |-> c.at + Ttl]
  <1>1. /\ TypeOK /\ RowsInTurn /\ CallInTurn(c) /\ op \in [Proc -> Calls]
        /\ c.step = "decided" /\ auth[a] = None
        /\ auth' = [auth EXCEPT ![a] = row]
        /\ now' = now + 1
        /\ UNCHANGED <<keys, ends, outcome, revoked>>
    BY DEF TurnsInv, GateInv, TypeOK, CallsInTurn, RequestInsert, Transaction
  <1>2. /\ c.intent \in Intent /\ c.at \in Nat /\ c.at <= now /\ now \in Nat
        /\ c.signed \in BOOLEAN /\ c.decision \in Decisions
    BY <1>1, CallFields DEF TurnsInv, GateInv, StampsArePast, TypeOK
  <1>3. a \in ActionId /\ AgentOf[a] \in Key
    BY <1>2, GateAssumption DEF GateAssumption
  <1>4. /\ KeysBefore(c.at)
        /\ c.decision = Decision(c.intent, c.signed, c.at, Alive(AgentOf[a]))
    BY <1>1 DEF CallInTurn
  <1>5. auth'[a] = row /\ \A b \in ActionId \ {a} : auth'[b] = auth[b]
    BY <1>1, <1>3 DEF TypeOK
  <1>6. KeysMatch' /\ KeysBefore(now)'
    <2>1. KeysMatch'
      BY <1>1 DEF RowsInTurn, KeysMatch, ColumnsMatchEvents
    <2>2. ASSUME NEW j \in Key
          PROVE  /\ keys[j] # None => keys[j].from <= now'
                 /\ \A e \in ends[j] : e <= now'
      <3>1. keys[j] \in Interval \cup {None} /\ ends[j] \in SUBSET Nat
        BY <1>1 DEF TypeOK
      <3>2. /\ keys[j] # None => keys[j].from \in Nat /\ keys[j].from <= now
            /\ \A e \in ends[j] : e \in Nat /\ e <= now
        BY <1>1, <3>1 DEF RowsInTurn, KeysBefore, Interval
      <3> QED BY <1>1, <1>2, <3>2
    <2> QED BY <1>1, <2>1, <2>2 DEF KeysBefore
  <1>7. RowsBefore(now)'
    <2> SUFFICES ASSUME NEW b \in ActionId
                 PROVE  /\ auth'[b] # None => auth'[b].issuedAt < now'
                        /\ outcome[b] # None => outcome[b].completedAt < now'
      BY <1>1 DEF RowsBefore
    <2>1. /\ auth[b] # None => auth[b].issuedAt < now'
          /\ outcome[b] # None => outcome[b].completedAt < now'
      BY <1>1, <1>2, RowFields DEF RowsInTurn, RowsBefore
    <2> QED BY <1>1, <1>2, <1>5, <2>1
  <1>8. Active(keys[AgentOf[a]], ends[AgentOf[a]], c.at) = Alive(AgentOf[a])
    <2>1. Active(keys[AgentOf[a]], ends[AgentOf[a]], c.at) <=> Alive(AgentOf[a])
      BY <1>1, <1>2, <1>3, <1>4, ActiveIsAlive DEF RowsInTurn
    <2> QED BY <2>1 DEF Active, Alive
  <1>9. StoredPermitsVerify'
    <2> SUFFICES ASSUME NEW b \in ActionId, auth'[b] # None
                 PROVE  PermitRight(b, auth'[b], keys[AgentOf[b]], ends[AgentOf[b]])
      BY <1>1, PermitsNext
    <2>1. CASE b = a
      BY <1>4, <1>5, <1>8, <2>1 DEF PermitRight
    <2>2. CASE b # a
      BY <1>1, <1>5, <2>2, PermitsNow DEF RowsInTurn
    <2> QED BY <2>1, <2>2
  <1>10. StoredReceiptsVerify' /\ RevokedIsUnconsumed'
         /\ (\A b \in ActionId : outcome[b] # None => StatusOf[outcome[b].doc] # "UNKNOWN")'
    BY <1>1 DEF RowsInTurn, StoredReceiptsVerify, ExecutionVerifies, ExecutorTrusted, ActiveAt,
                ColumnsMatchEvents, RevokedIsUnconsumed
  <1>11. RevocationIsComplete'
    <2> SUFFICES ASSUME NEW b \in ActionId, auth'[b] # None, auth'[b].decision = "ALLOWED",
                        outcome[b] = None, NEW t \in ends[AgentOf[b]], t < auth'[b].expiresAt
                 PROVE  b \in revoked
      BY <1>1 DEF RevocationIsComplete
    <2>1. CASE b = a
      <3>1. Alive(AgentOf[a])
        BY <1>4, <1>5, <2>1, AllowedIsActive
      <3> QED BY <2>1, <3>1 DEF Alive
    <2>2. CASE b # a
      <3>1. auth'[b] = auth[b]
        BY <1>5, <2>2
      <3> QED BY <1>1, <3>1 DEF RowsInTurn, RevocationIsComplete
    <2> QED BY <2>1, <2>2
  <1> QED BY <1>6, <1>7, <1>9, <1>10, <1>11 DEF RowsInTurn

LEMMA CommitRows ==
  ASSUME InTurns, TurnsInv, TypeOK', NEW p \in Proc, CommitInsert(p)
  PROVE  RowsInTurn'
  <1> DEFINE c == op[p]
             a == c.action
             x == ExecutorOf[c.doc]
             row == [doc |-> c.doc, completedAt |-> c.at]
  <1>1. /\ TypeOK /\ RowsInTurn /\ CallInTurn(c) /\ op \in [Proc -> Calls]
        /\ c.step = "signed" /\ outcome[a] = None
        /\ outcome' = [outcome EXCEPT ![a] = row]
        /\ now' = now + 1
        /\ UNCHANGED <<keys, ends, auth, revoked>>
    BY DEF TurnsInv, GateInv, TypeOK, CallsInTurn, CommitInsert, Transaction
  <1>2. a \in ActionId /\ c.doc \in Outcome /\ c.at \in Nat /\ c.at <= now /\ now \in Nat
    BY <1>1, CallFields DEF TurnsInv, GateInv, StampsArePast, TypeOK
  <1>3. x \in Key /\ x # AgentOf[a]
    <2>1. x \in Executors \ {AgentOf[a]}
      BY <1>1 DEF TurnsInv, GateInv, CommitsArePermitted
    <2> QED BY <1>2, <2>1, GateAssumption DEF GateAssumption
  <1>4. /\ a \notin revoked /\ StatusOf[c.doc] # "UNKNOWN"
        /\ Alive(x) /\ InScope(x, a) /\ x \notin Proposer
        /\ KeysBefore(c.at)
    BY <1>1 DEF CallInTurn
  <1>5. outcome'[a] = row /\ \A b \in ActionId \ {a} : outcome'[b] = outcome[b]
    BY <1>1, <1>2 DEF TypeOK
  <1>6. KeysMatch' /\ KeysBefore(now)'
    <2>1. KeysMatch'
      BY <1>1 DEF RowsInTurn, KeysMatch, ColumnsMatchEvents
    <2>2. ASSUME NEW j \in Key
          PROVE  /\ keys[j] # None => keys[j].from <= now'
                 /\ \A e \in ends[j] : e <= now'
      <3>1. keys[j] \in Interval \cup {None} /\ ends[j] \in SUBSET Nat
        BY <1>1 DEF TypeOK
      <3>2. /\ keys[j] # None => keys[j].from \in Nat /\ keys[j].from <= now
            /\ \A e \in ends[j] : e \in Nat /\ e <= now
        BY <1>1, <3>1 DEF RowsInTurn, KeysBefore, Interval
      <3> QED BY <1>1, <1>2, <3>2
    <2> QED BY <1>1, <2>1, <2>2 DEF KeysBefore
  <1>7. RowsBefore(now)'
    <2> SUFFICES ASSUME NEW b \in ActionId
                 PROVE  /\ auth[b] # None => auth[b].issuedAt < now'
                        /\ outcome'[b] # None => outcome'[b].completedAt < now'
      BY <1>1 DEF RowsBefore
    <2>1. /\ auth[b] # None => auth[b].issuedAt < now'
          /\ outcome[b] # None => outcome[b].completedAt < now'
      BY <1>1, <1>2, RowFields DEF RowsInTurn, RowsBefore
    <2> QED BY <1>1, <1>2, <1>5, <2>1
  <1>8. Active(keys[x], ends[x], c.at)
    BY <1>1, <1>2, <1>3, <1>4, ActiveIsAlive DEF RowsInTurn
  <1>9. StoredReceiptsVerify'
    <2> SUFFICES ASSUME NEW b \in ActionId, outcome'[b] # None
                 PROVE  ReceiptRight(b, outcome'[b], keys[ExecutorOf[outcome'[b].doc]],
                                     ends[ExecutorOf[outcome'[b].doc]])
      BY <1>1, ReceiptsNext
    <2>1. CASE b = a
      BY <1>3, <1>4, <1>5, <1>8, <2>1 DEF ReceiptRight
    <2>2. CASE b # a
      BY <1>1, <1>5, <2>2, ReceiptsNow DEF RowsInTurn
    <2> QED BY <2>1, <2>2
  <1>10. StoredPermitsVerify'
    BY <1>1 DEF RowsInTurn, StoredPermitsVerify, AuthorizationVerifies, ActiveAt, ColumnsMatchEvents
  <1>11. RevocationIsComplete' /\ RevokedIsUnconsumed'
    <2>1. \A b \in ActionId : outcome'[b] = None => outcome[b] = None
      BY <1>1, <1>5
    <2>2. \A b \in revoked : outcome'[b] = outcome[b]
      BY <1>1, <1>4, <1>5 DEF TypeOK
    <2> QED BY <1>1, <2>1, <2>2 DEF RowsInTurn, RevocationIsComplete, RevokedIsUnconsumed
  <1>12. (\A b \in ActionId : outcome[b] # None => StatusOf[outcome[b].doc] # "UNKNOWN")'
    BY <1>1, <1>4, <1>5 DEF RowsInTurn
  <1> QED BY <1>6, <1>7, <1>9, <1>10, <1>11, <1>12 DEF RowsInTurn

LEMMA RowsStep ==
  ASSUME InTurns, TurnsInv, TypeOK', [Next]_vars
  PROVE  RowsInTurn'
  <1>1. CASE UNCHANGED tables
    BY <1>1, QuietRows, ClockStep DEF TurnsInv, GateInv
  <1>2. CASE ~UNCHANGED tables
    <2>1. PICK p \in Proc :
            RequestInsert(p) \/ CommitInsert(p) \/ RegisterInsert(p) \/ RevokeCommit(p)
      BY <1>2, TableStep DEF TurnsInv, GateInv
    <2> QED BY <2>1, RequestRows, CommitRows, RegisterRows, RevokeRows
  <1> QED BY <1>1, <1>2

-----------------------------------------------------------------------------
(* The calls and their answers. *)

LEMMA ContinueInTurn ==
  ASSUME InTurns, op \in [Proc -> Calls], NEW p \in Proc, NEW c, Continue(p, c),
         UNCHANGED tables, CallInTurn(c)
  PROVE  CallsInTurn' /\ RepliesInTurn'
  <1>1. (\A q \in Proc : op'[q] = c) /\ RepliesInTurn'
    BY OneCall
  <1>2. ASSUME NEW q \in Proc PROVE CallInTurn(op[q])'
    BY <1>1 DEF CallInTurn, KeysBefore, RowsBefore, Alive, tables
  <1> QED BY <1>1, <1>2 DEF CallsInTurn

LEMMA RequestInTurn ==
  ASSUME InTurns, TurnsInv, TypeOK', NEW p \in Proc, Request(p), RowsInTurn'
  PROVE  CallsInTurn' /\ RepliesInTurn'
  <1>0. /\ TypeOK /\ RowsInTurn /\ CallInTurn(op[p]) /\ op \in [Proc -> Calls] /\ now \in Nat
    BY DEF TurnsInv, GateInv, CallsInTurn, TypeOK
  <1>1. ASSUME NEW i \in Intent, RequestAgain(p, i)
        PROVE  CallsInTurn' /\ RepliesInTurn'
    <2> DEFINE a == ActionOf[i]
               result == IF auth[a].intent # i THEN "conflict"
                         ELSE IF AuthorizationVerifies(a) THEN "original" ELSE "invalid"
    <2>1. auth[a] # None /\ Return(p, RequestReply(i, result)) /\ UNCHANGED tables
      BY <1>1 DEF RequestAgain
    <2>2. a \in ActionId
      BY GateAssumption DEF GateAssumption
    <2>3. AuthorizationVerifies(a)
      BY <1>0, <2>1, <2>2 DEF RowsInTurn, StoredPermitsVerify
    <2>4. result = IF auth[a].intent # i THEN "conflict" ELSE "original"
      BY <2>3
    <2>5. CallsInTurn' /\ reply' = RequestReply(i, result)
      BY <1>0, <2>1, IdleCall
    <2> HIDE DEF result
    <2> QED BY <2>1, <2>4, <2>5
            DEF RequestReply, RepliesInTurn, RequestsAreIdempotent, RetryInTimeGetsReceipt, tables
  <1>2. ASSUME NEW i \in Intent, NEW signed \in BOOLEAN, RequestStamp(p, i, signed)
        PROVE  CallsInTurn' /\ RepliesInTurn'
    <2> DEFINE c == [step |-> "stamped", intent |-> i, signed |-> signed, at |-> now]
    <2>1. Continue(p, c) /\ UNCHANGED tables /\ auth[ActionOf[i]] = None
      BY <1>2 DEF RequestStamp
    <2>2. CallInTurn(c)
      BY <1>0, <2>1 DEF CallInTurn, RowsInTurn
    <2> QED BY <1>0, <2>1, <2>2, ContinueInTurn
  <1>3. ASSUME RequestDecide(p)
        PROVE  CallsInTurn' /\ RepliesInTurn'
    <2> DEFINE k == AgentOf[ActionOf[op[p].intent]]
               d == Decision(op[p].intent, op[p].signed, op[p].at, ActiveAt(k, now))
               c == [step |-> "decided", intent |-> op[p].intent, signed |-> op[p].signed,
                     at |-> op[p].at, decision |-> d]
    <2>1. Continue(p, c) /\ UNCHANGED tables /\ op[p].step = "stamped"
      BY <1>3 DEF RequestDecide
    <2>2. k \in Key
      BY <1>0, <2>1, CallFields, GateAssumption DEF GateAssumption
    <2>3. ActiveAt(k, now) <=> Alive(k)
      BY <1>0, <2>2, AliveAt DEF RowsInTurn
    <2>4. d = Decision(op[p].intent, op[p].signed, op[p].at, Alive(k))
      BY <2>3 DEF Decision
    <2>5. auth[ActionOf[op[p].intent]] = None /\ KeysBefore(op[p].at)
      BY <1>0, <2>1 DEF CallInTurn
    <2> HIDE DEF d
    <2>6. CallInTurn(c)
      BY <2>4, <2>5 DEF CallInTurn
    <2> QED BY <1>0, <2>1, <2>6, ContinueInTurn
  <1>4. ASSUME RequestInsert(p)
        PROVE  CallsInTurn' /\ RepliesInTurn'
    <2> DEFINE i == op[p].intent
    <2>1. /\ Return(p, RequestReply(i, "new")) /\ op[p].step = "decided"
          /\ auth' = [auth EXCEPT ![ActionOf[i]] =
               [intent |-> i, signed |-> op[p].signed, decision |-> op[p].decision,
                issuedAt |-> op[p].at, expiresAt |-> op[p].at + Ttl]]
      BY <1>4 DEF RequestInsert
    <2>2. ActionOf[i] \in ActionId
      BY <1>0, <2>1, CallFields, GateAssumption DEF GateAssumption
    <2>3. auth'[ActionOf[i]].intent = i
      BY <1>0, <2>1, <2>2 DEF TypeOK
    <2>4. CallsInTurn' /\ reply' = RequestReply(i, "new")
      BY <1>0, <2>1, IdleCall
    <2> HIDE DEF i
    <2> QED BY <2>3, <2>4
            DEF RequestReply, RepliesInTurn, RequestsAreIdempotent, RetryInTimeGetsReceipt
  <1>5. ~RequestRollback(p)
    BY <1>0 DEF RequestRollback, CallInTurn
  <1> QED BY <1>1, <1>2, <1>3, <1>4, <1>5 DEF Request

LEMMA CommitInTurn ==
  ASSUME InTurns, TurnsInv, TypeOK', NEW p \in Proc, Commit(p), RowsInTurn'
  PROVE  CallsInTurn' /\ RepliesInTurn'
  <1>0. /\ TypeOK /\ RowsInTurn /\ CallInTurn(op[p]) /\ op \in [Proc -> Calls] /\ now \in Nat
        /\ OutcomeIsPermitted
    BY DEF TurnsInv, GateInv, CallsInTurn, TypeOK
  <1>1. ASSUME NEW a \in ActionId, NEW o \in Outcome, CommitCheck(p, a, o)
        PROVE  CallsInTurn' /\ RepliesInTurn'
    <2> DEFINE v == PermitVerdict(a, o)
               c == [step |-> "checked", action |-> a, doc |-> o]
    <2>1. CASE v = "unconsumed"
      <3>1. Continue(p, c) /\ UNCHANGED tables
        BY <1>1, <2>1 DEF CommitCheck
      <3>2. outcome[a] = None /\ a \notin revoked /\ StatusOf[o] # "UNKNOWN"
        BY <2>1 DEF PermitVerdict
      <3>3. CallInTurn(c)
        BY <3>2 DEF CallInTurn
      <3> QED BY <1>0, <3>1, <3>3, ContinueInTurn
    <2>2. CASE v # "unconsumed"
      <3>1. Return(p, CommitReply(a, o, v)) /\ UNCHANGED tables /\ now' = now
        BY <1>1, <2>2 DEF CommitCheck
      <3>2. CallsInTurn' /\ reply' = CommitReply(a, o, v)
        BY <1>0, <3>1, IdleCall
      <3>3. ASSUME outcome[a] # None
            PROVE  IF outcome[a].doc = o THEN v = "receipt" \/ now > auth[a].expiresAt
                   ELSE v # "receipt"
        <4>1. /\ auth[a] # None /\ AuthorizationVerifies(a) /\ auth[a].decision = "ALLOWED"
              /\ a \notin revoked /\ ExecutionVerifies(a)
              /\ StatusOf[outcome[a].doc] # "UNKNOWN"
          BY <1>0, <3>3 DEF OutcomeIsPermitted, RowsInTurn, StoredPermitsVerify,
                            StoredReceiptsVerify, RevokedIsUnconsumed
        <4> QED BY <3>3, <4>1 DEF PermitVerdict
      <3> HIDE DEF v
      <3> QED BY <3>1, <3>2, <3>3
              DEF CommitReply, RepliesInTurn, RequestsAreIdempotent, RetryInTimeGetsReceipt, tables
    <2> QED BY <2>1, <2>2
  <1>2. ASSUME CommitTrust(p)
        PROVE  CallsInTurn' /\ RepliesInTurn'
    <2> DEFINE x == ExecutorOf[op[p].doc]
               a == op[p].action
               o == op[p].doc
               c == [step |-> "trusted", action |-> a, doc |-> o]
    <2>0. op[p].step = "checked" /\ UNCHANGED tables
      BY <1>2 DEF CommitTrust
    <2>1. /\ a \in ActionId /\ o \in Outcome /\ x \in Key
          /\ outcome[a] = None /\ a \notin revoked /\ StatusOf[o] # "UNKNOWN"
      BY <1>0, <2>0, CallFields, GateAssumption DEF GateAssumption, CallInTurn
    <2>2. CASE x # AgentOf[a] /\ x \in Executors /\ ExecutorTrusted(x, a, now)
      <3>1. Continue(p, c)
        BY <1>2, <2>2 DEF CommitTrust
      <3>2. Alive(x) /\ InScope(x, a) /\ x \notin Proposer
        BY <1>0, <2>1, <2>2, AliveAt DEF RowsInTurn, ExecutorTrusted
      <3>3. CallInTurn(c)
        BY <2>1, <3>2 DEF CallInTurn
      <3> QED BY <1>0, <2>0, <3>1, <3>3, ContinueInTurn
    <2>3. CASE ~(x # AgentOf[a] /\ x \in Executors /\ ExecutorTrusted(x, a, now))
      <3>1. Return(p, CommitReply(a, o, "executor_denied"))
        BY <1>2, <2>3 DEF CommitTrust
      <3>2. CallsInTurn' /\ reply' = CommitReply(a, o, "executor_denied")
        BY <1>0, <3>1, IdleCall
      <3> HIDE DEF a, o
      <3> QED BY <2>0, <2>1, <3>2
              DEF CommitReply, RepliesInTurn, RequestsAreIdempotent, RetryInTimeGetsReceipt, tables
    <2> QED BY <2>2, <2>3
  <1>3. ASSUME CommitStamp(p)
        PROVE  CallsInTurn' /\ RepliesInTurn'
    <2> DEFINE c == [step |-> "signed", action |-> op[p].action, doc |-> op[p].doc, at |-> now]
    <2>1. Continue(p, c) /\ UNCHANGED tables /\ op[p].step = "trusted"
      BY <1>3 DEF CommitStamp
    <2>2. CallInTurn(c)
      BY <1>0, <2>1 DEF CallInTurn, RowsInTurn
    <2> QED BY <1>0, <2>1, <2>2, ContinueInTurn
  <1>4. ASSUME CommitInsert(p)
        PROVE  CallsInTurn' /\ RepliesInTurn'
    <2> DEFINE a == op[p].action
               o == op[p].doc
    <2>1. /\ Return(p, CommitReply(a, o, "receipt")) /\ op[p].step = "signed"
          /\ outcome' = [outcome EXCEPT ![a] = [doc |-> o, completedAt |-> op[p].at]]
      BY <1>4 DEF CommitInsert
    <2>2. a \in ActionId
      BY <1>0, <2>1, CallFields
    <2>3. outcome'[a].doc = o
      BY <1>0, <2>1, <2>2 DEF TypeOK
    <2>4. CallsInTurn' /\ reply' = CommitReply(a, o, "receipt")
      BY <1>0, <2>1, IdleCall
    <2> HIDE DEF a, o
    <2> QED BY <2>3, <2>4
            DEF CommitReply, RepliesInTurn, RequestsAreIdempotent, RetryInTimeGetsReceipt
  <1>5. ~CommitRollback(p)
    BY <1>0 DEF CommitRollback, CallInTurn
  <1> QED BY <1>1, <1>2, <1>3, <1>4, <1>5 DEF Commit

LEMMA IdentityInTurn ==
  ASSUME InTurns, TurnsInv, TypeOK', NEW p \in Proc, Identity(p) \/ Crash(p), RowsInTurn'
  PROVE  CallsInTurn' /\ RepliesInTurn'
  <1>0. /\ TypeOK /\ RowsInTurn /\ op \in [Proc -> Calls] /\ now \in Nat
    BY DEF TurnsInv, GateInv, TypeOK
  <1>1. ASSUME NEW k \in Key, RegisterStamp(p, k)
        PROVE  CallsInTurn' /\ RepliesInTurn'
    <2> DEFINE c == [step |-> "registering", key |-> k, at |-> now]
    <2>1. Continue(p, c) /\ UNCHANGED tables /\ keys[k] = None
      BY <1>1 DEF RegisterStamp
    <2>2. CallInTurn(c)
      BY <1>0, <2>1 DEF CallInTurn, RowsInTurn
    <2> QED BY <1>0, <2>1, <2>2, ContinueInTurn
  <1>2. ASSUME NEW k \in Key, RevokeStamp(p, k)
        PROVE  CallsInTurn' /\ RepliesInTurn'
    <2> DEFINE c == [step |-> "revoking", key |-> k, at |-> now]
    <2>1. Continue(p, c) /\ UNCHANGED tables /\ ActiveAt(k, now)
      BY <1>2 DEF RevokeStamp
    <2>2. Alive(k)
      BY <1>0, <2>1, AliveAt DEF RowsInTurn
    <2>3. CallInTurn(c)
      BY <1>0, <2>2 DEF CallInTurn, RowsInTurn
    <2> QED BY <1>0, <2>1, <2>3, ContinueInTurn
  <1>3. CASE RegisterInsert(p) \/ RegisterRollback(p) \/ RevokeCommit(p) \/ Crash(p)
    <2>1. Return(p, NoReply)
      BY <1>3 DEF RegisterInsert, RegisterRollback, RevokeCommit, Crash
    <2> QED BY <1>0, <2>1, IdleCall, NoReplyInTurn
  <1> QED BY <1>1, <1>2, <1>3 DEF Identity

LEMMA TurnsStep ==
  ASSUME InTurns, TurnsInv, GateInv', [Next]_vars
  PROVE  TurnsInv'
  <1>1. TypeOK' /\ RowsInTurn'
    BY RowsStep DEF GateInv
  <1>2. CASE Tick
    <2>1. UNCHANGED <<tables, op>> /\ reply' = NoReply
      BY <1>2 DEF Tick
    <2>2. CallsInTurn'
      BY <2>1 DEF TurnsInv, CallsInTurn, CallInTurn, KeysBefore, RowsBefore, Alive, tables
    <2> QED BY <1>1, <2>1, <2>2, NoReplyInTurn DEF TurnsInv
  <1>3. CASE UNCHANGED vars
    <2>1. UNCHANGED <<tables, op, reply, now>>
      BY <1>3 DEF vars
    <2>2. CallsInTurn'
      BY <2>1 DEF TurnsInv, CallsInTurn, CallInTurn, KeysBefore, RowsBefore, Alive, tables
    <2>3. RepliesInTurn'
      BY <2>1 DEF TurnsInv, RepliesInTurn, RequestsAreIdempotent, RetryInTimeGetsReceipt, tables
    <2> QED BY <1>1, <2>2, <2>3 DEF TurnsInv
  <1>4. ASSUME NEW p \in Proc, Request(p) \/ Commit(p) \/ Identity(p) \/ Crash(p)
        PROVE  TurnsInv'
    BY <1>1, <1>4, RequestInTurn, CommitInTurn, IdentityInTurn DEF TurnsInv
  <1> QED BY <1>2, <1>3, <1>4 DEF Next

LEMMA TurnsInit ==
  ASSUME Init, GateInv
  PROVE  TurnsInv
  <1>1. /\ keys = [k \in Key |-> IF k \in Enrolled THEN [from |-> 0, until |-> None] ELSE None]
        /\ ends = [k \in Key |-> {}]
        /\ auth = [a \in ActionId |-> None] /\ outcome = [a \in ActionId |-> None]
        /\ revoked = {} /\ op = [p \in Proc |-> Idle] /\ reply = NoReply /\ now = 0
    BY DEF Init
  <1>2. [from |-> 0, until |-> None] \in Interval
    BY DEF Interval
  <1>3. KeysMatch
    BY <1>1 DEF KeysMatch, ColumnsMatchEvents
  <1>4. KeysBefore(now) /\ RowsBefore(now)
    BY <1>1 DEF KeysBefore, RowsBefore
  <1>5. RowsInTurn
    BY <1>1, <1>3, <1>4 DEF RowsInTurn, StoredPermitsVerify, StoredReceiptsVerify,
                            RevocationIsComplete, RevokedIsUnconsumed
  <1>6. CallsInTurn
    BY <1>1 DEF CallsInTurn, CallInTurn, Idle
  <1>7. RepliesInTurn
    BY <1>1 DEF NoReply, RepliesInTurn, RequestsAreIdempotent, RetryInTimeGetsReceipt
  <1> QED BY <1>5, <1>6, <1>7 DEF TurnsInv

LEMMA TurnsInvHolds ==
  ASSUME InTurns
  PROVE  Spec => []TurnsInv
  <1>1. Init /\ GateInv => TurnsInv
    BY TurnsInit
  <1>2. TurnsInv /\ GateInv' /\ [Next]_vars => TurnsInv'
    BY TurnsStep
  <1> QED BY <1>1, <1>2, GateInvariant, PTL DEF Spec

-----------------------------------------------------------------------------
(* As long as calls take turns, a stored permit verifies for ever: what    *)
(* the agent's key was when it was issued does not change any more.        *)
THEOREM PermitsVerifyForEver ==
  ASSUME InTurns
  PROVE  Spec => []StoredPermitsVerify
  <1>1. TurnsInv => StoredPermitsVerify
    BY DEF TurnsInv, RowsInTurn
  <1> QED BY <1>1, TurnsInvHolds, PTL

(* ... and so does a stored receipt, although its executor is revoked.     *)
THEOREM ReceiptsVerifyForEver ==
  ASSUME InTurns
  PROVE  Spec => []StoredReceiptsVerify
  <1>1. TurnsInv => StoredReceiptsVerify
    BY DEF TurnsInv, RowsInTurn
  <1> QED BY <1>1, TurnsInvHolds, PTL

(* Then a revocation reaches each permit of the key that it should ...     *)
THEOREM RevocationReachesAll ==
  ASSUME InTurns
  PROVE  Spec => []RevocationIsComplete
  <1>1. TurnsInv => RevocationIsComplete
    BY DEF TurnsInv, RowsInTurn
  <1> QED BY <1>1, TurnsInvHolds, PTL

(* ... and no permit is both revoked and consumed.                         *)
THEOREM RevokedStaysUnconsumed ==
  ASSUME InTurns
  PROVE  Spec => []RevokedIsUnconsumed
  <1>1. TurnsInv => RevokedIsUnconsumed
    BY DEF TurnsInv, RowsInTurn
  <1> QED BY <1>1, TurnsInvHolds, PTL

(* Then a repeated request is answered with the original permit, one that  *)
(* reuses its idempotency key with a conflict, and none with an error.     *)
THEOREM RepeatsGetTheOriginal ==
  ASSUME InTurns
  PROVE  Spec => []RequestsAreIdempotent
  <1>1. TurnsInv => RequestsAreIdempotent
    BY DEF TurnsInv, RepliesInTurn
  <1> QED BY <1>1, TurnsInvHolds, PTL

(* Then an identical retry of a commit gets the receipt until the permit   *)
(* expires, whatever has been revoked in between.                          *)
THEOREM RetriesGetTheReceipt ==
  ASSUME InTurns
  PROVE  Spec => []RetryInTimeGetsReceipt
  <1>1. TurnsInv => RetryInTimeGetsReceipt
    BY DEF TurnsInv, RepliesInTurn
  <1> QED BY <1>1, TurnsInvHolds, PTL

-----------------------------------------------------------------------------
(* One call after the other is one step of Authority after the other.      *)

(* What the refinement needs beyond TurnsInv: a revocation is over when it *)
(* is seen, so a permit in its time whose agent was revoked is revoked as  *)
(* well, and a commit that has found its permit good has a live agent.     *)
EndsArePast == \A k \in Key : \A t \in ends[k] : t < now

CommitsHaveAgents ==
  \A p \in Proc :
    op[p].step \in {"checked", "trusted", "signed"} => Alive(AgentOf[op[p].action])

AuthorityInv == TurnsInv /\ EndsArePast /\ CommitsHaveAgents

LEMMA EndsArePastStep ==
  ASSUME AuthorityInv, [Next]_vars, TypeOK'
  PROVE  EndsArePast'
  <1>1. now \in Nat /\ now' \in Nat /\ now <= now' /\ ends \in [Key -> SUBSET Nat]
    BY ClockStep DEF AuthorityInv, TurnsInv, GateInv, TypeOK
  <1> SUFFICES ASSUME NEW k \in Key, NEW t \in ends'[k]
               PROVE  t < now'
    BY DEF EndsArePast
  <1>2. CASE t \in ends[k]
    BY <1>1, <1>2 DEF AuthorityInv, EndsArePast
  <1>3. CASE t \notin ends[k]
    <2>1. ends' # ends
      BY <1>3
    <2>2. PICK p \in Proc : RevokeCommit(p)
      BY <2>1, TableStep
         DEF tables, RequestInsert, CommitInsert, RegisterInsert, AuthorityInv, TurnsInv, GateInv
    <2>3. t = op[p].at /\ op[p].step = "revoking" /\ now' = now + 1
      BY <1>1, <1>3, <2>2 DEF RevokeCommit, Transaction
    <2>4. op[p].at \in Nat /\ op[p].at <= now
      BY <2>3, CallFields DEF AuthorityInv, TurnsInv, GateInv, TypeOK, StampsArePast
    <2> QED BY <1>1, <2>3, <2>4
  <1> QED BY <1>2, <1>3

(* A permit that can be used is that of a key that has not been revoked.   *)
LEMMA UsableIsAlive ==
  ASSUME AuthorityInv, NEW a \in ActionId, NEW o \in Outcome, PermitVerdict(a, o) = "unconsumed"
  PROVE  Alive(AgentOf[a])
  <1> DEFINE k == AgentOf[a]
  <1>1. /\ auth[a] # None /\ AuthorizationVerifies(a) /\ auth[a].decision = "ALLOWED"
        /\ a \notin revoked /\ ~(now > auth[a].expiresAt) /\ outcome[a] = None
    BY DEF PermitVerdict
  <1>2. k \in Key /\ auth[a].expiresAt \in Nat /\ now \in Nat /\ ends[k] \in SUBSET Nat
    BY <1>1, RowFields DEF AuthorityInv, TurnsInv, GateInv, TypeOK
  <1>3. ends[k] = {}
    <2> SUFFICES ASSUME NEW t \in ends[k] PROVE FALSE
      OBVIOUS
    <2>1. t \in Nat /\ t < now
      BY <1>2 DEF AuthorityInv, EndsArePast
    <2>2. t < auth[a].expiresAt
      BY <1>1, <1>2, <2>1
    <2> QED BY <1>1, <2>2 DEF AuthorityInv, TurnsInv, RowsInTurn, RevocationIsComplete
  <1>4. ActiveAt(k, auth[a].issuedAt)
    BY <1>1, AllowedIsActive DEF AuthorizationVerifies
  <1> QED BY <1>3, <1>4 DEF ActiveAt, Alive

LEMMA CommitsHaveAgentsStep ==
  ASSUME InTurns, AuthorityInv, [Next]_vars, TypeOK'
  PROVE  CommitsHaveAgents'
  <1> SUFFICES ASSUME NEW p \in Proc, op'[p].step \in {"checked", "trusted", "signed"}
               PROVE  keys'[AgentOf[op'[p].action]] # None /\ ends'[AgentOf[op'[p].action]] = {}
    BY DEF CommitsHaveAgents, Alive
  <1>0. TypeOK /\ op'[p] # Idle
    BY DEF AuthorityInv, TurnsInv, GateInv, Idle
  <1>1. UNCHANGED tables
    <2> SUFFICES ASSUME NEW q \in Proc, NEW r, Return(q, r)
                 PROVE  FALSE
      BY <1>0, TableStep DEF RequestInsert, CommitInsert, RegisterInsert, RevokeCommit
    <2>1. q = p
      BY DEF InTurns
    <2> QED BY <1>0, <2>1 DEF Return, TypeOK
  <1>2. Alive(AgentOf[op'[p].action])
    <2>1. CASE op'[p] = op[p]
      BY <2>1 DEF AuthorityInv, CommitsHaveAgents
    <2>2. CASE op'[p] # op[p] /\ op'[p].step = "checked"
      BY <1>0, <2>2, NextCall, CallKinds, UsableIsAlive DEF TypeOK
    <2>3. CASE op'[p] # op[p] /\ op'[p].step \in {"trusted", "signed"}
      BY <1>0, <2>3, NextCall DEF AuthorityInv, CommitsHaveAgents
    <2> QED BY <2>1, <2>2, <2>3
  <1> QED BY <1>1, <1>2 DEF Alive, tables

LEMMA AuthorityInvHolds ==
  ASSUME InTurns
  PROVE  Spec => []AuthorityInv
  <1>1. Init /\ TurnsInv => AuthorityInv
    BY DEF Init, Idle, AuthorityInv, EndsArePast, CommitsHaveAgents
  <1>2. AuthorityInv /\ TurnsInv' /\ [Next]_vars => AuthorityInv'
    BY EndsArePastStep, CommitsHaveAgentsStep DEF AuthorityInv, TurnsInv, GateInv
  <1> QED BY <1>1, <1>2, TurnsInvHolds, PTL DEF Spec

(* A call that stamps, looks something up or fails is no step of Authority.*)
LEMMA StutterIsStutter ==
  ASSUME UNCHANGED tables
  PROVE  UNCHANGED A!vars
  BY DEF tables, A!vars

LEMMA RegisterIsEnrol ==
  ASSUME AuthorityInv, NEW p \in Proc, RegisterInsert(p)
  PROVE  \E k \in Key : A!Enrol(k)
  <1>1. PICK k, at : k = op[p].key /\ at = op[p].at
    OBVIOUS
  <1>2. /\ op[p].step = "registering" /\ keys[k] = None
        /\ keys' = [keys EXCEPT ![k] = [from |-> at, until |-> None]]
        /\ UNCHANGED <<ends, auth, outcome>>
    BY <1>1 DEF RegisterInsert
  <1>3. k \in Key /\ [from |-> at, until |-> None] \in Interval /\ TypeOK
    BY <1>1, <1>2, CallFields DEF AuthorityInv, TurnsInv, GateInv, TypeOK, Interval
  <1>4. ends[k] = {} /\ [from |-> at, until |-> None] # None
    BY <1>2, <1>3, NoneAssumption DEF AuthorityInv, TurnsInv, RowsInTurn, KeysMatch
  <1>5. keys'[k] # None /\ \A j \in Key \ {k} : keys'[j] = keys[j]
    BY <1>2, <1>3, <1>4 DEF TypeOK
  <1>6. {j \in Key : keys'[j] # None /\ ends'[j] = {}}
          = {j \in Key : keys[j] # None /\ ends[j] = {}} \cup {k}
    BY <1>2, <1>3, <1>4, <1>5
  <1>7. A!Enrol(k)
    BY <1>2, <1>4, <1>6 DEF A!Enrol
  <1> QED BY <1>3, <1>7

LEMMA RevokeIsRetire ==
  ASSUME AuthorityInv, NEW p \in Proc, RevokeCommit(p)
  PROVE  \E k \in Key : A!Retire(k)
  <1>1. PICK k, at : k = op[p].key /\ at = op[p].at
    OBVIOUS
  <1>2. /\ op[p].step = "revoking"
        /\ keys' = IF keys[k].until = None
                     THEN [keys EXCEPT ![k] = [from |-> @.from, until |-> at]]
                     ELSE keys
        /\ ends' = [ends EXCEPT ![k] = @ \cup {at}]
        /\ UNCHANGED <<auth, outcome>>
    BY <1>1 DEF RevokeCommit
  <1>3. k \in Key /\ TypeOK /\ Alive(k)
    BY <1>1, <1>2, CallFields DEF AuthorityInv, TurnsInv, GateInv, TypeOK, CallsInTurn, CallInTurn
  <1>4. ends'[k] # {} /\ \A j \in Key \ {k} : ends'[j] = ends[j] /\ keys'[j] = keys[j]
    BY <1>2, <1>3 DEF TypeOK
  <1>5. {j \in Key : keys'[j] # None /\ ends'[j] = {}}
          = {j \in Key : keys[j] # None /\ ends[j] = {}} \ {k}
    BY <1>3, <1>4
  <1>6. {j \in Key : ends'[j] # {}} = {j \in Key : ends[j] # {}} \cup {k}
    BY <1>3, <1>4
  <1>7. A!Retire(k)
    BY <1>2, <1>3, <1>5, <1>6 DEF A!Retire, Alive
  <1> QED BY <1>3, <1>7

(* The permit and the receipt that Authority sees in a row.                *)
PermitSeen(row) ==
  IF row = None THEN None ELSE [intent |-> row.intent, allowed |-> row.decision = "ALLOWED"]

ReceiptSeen(row) == IF row = None THEN None ELSE row.doc

LEMMA RequestIsDecide ==
  ASSUME AuthorityInv, NEW p \in Proc, RequestInsert(p)
  PROVE  \E i \in Intent, allowed \in BOOLEAN : A!Decide(i, allowed)
  <1>1. PICK i, d, row :
          /\ i = op[p].intent /\ d = op[p].decision
          /\ row = [intent |-> i, signed |-> op[p].signed, decision |-> d,
                    issuedAt |-> op[p].at, expiresAt |-> op[p].at + Ttl]
    OBVIOUS
  <1>2. PICK a : a = ActionOf[i]
    OBVIOUS
  <1>3. /\ op[p].step = "decided" /\ auth[a] = None
        /\ auth' = [auth EXCEPT ![a] = row]
        /\ UNCHANGED <<keys, ends, outcome>>
    BY <1>1, <1>2 DEF RequestInsert
  <1>4. i \in Intent /\ a \in ActionId /\ row \in Authorization /\ TypeOK
    BY <1>1, <1>2, <1>3, CallFields, GateAssumption
       DEF AuthorityInv, TurnsInv, GateInv, TypeOK, Authorization, GateAssumption
  <1>5. d = Decision(i, op[p].signed, op[p].at, Alive(AgentOf[a]))
    BY <1>1, <1>2, <1>3 DEF AuthorityInv, TurnsInv, CallsInTurn, CallInTurn
  <1>6. d = "ALLOWED" => i \in Permitted /\ Alive(AgentOf[a]) /\ InScope(AgentOf[a], a)
    BY <1>2, <1>5 DEF Decision
  <1>7. AgentOf[a] \in Key
    BY <1>4, RowFields
  <1>8. PermitSeen(row) = [intent |-> i, allowed |-> d = "ALLOWED"]
    BY <1>1, <1>4, RowsAreRows DEF PermitSeen
  <1>9. [b \in ActionId |-> PermitSeen(auth'[b])]
          = [[b \in ActionId |-> PermitSeen(auth[b])] EXCEPT ![a] = [intent |-> i, allowed |-> d = "ALLOWED"]]
    BY <1>3, <1>4, <1>8 DEF TypeOK
  <1>10. [b \in ActionId |-> PermitSeen(auth[b])][a] = None
    BY <1>3, <1>4 DEF PermitSeen
  <1>11. A!Decide(i, d = "ALLOWED")
    BY <1>2, <1>3, <1>6, <1>7, <1>9, <1>10
       DEF A!Decide, A!InScope, InScope, Alive, PermitSeen
  <1> QED BY <1>4, <1>11

LEMMA CommitIsUse ==
  ASSUME AuthorityInv, NEW p \in Proc, CommitInsert(p)
  PROVE  \E a \in ActionId, o \in Outcome : A!Use(a, o)
  <1>1. PICK a, o, row : /\ a = op[p].action /\ o = op[p].doc
                         /\ row = [doc |-> o, completedAt |-> op[p].at]
    OBVIOUS
  <1>2. PICK x : x = ExecutorOf[o]
    OBVIOUS
  <1>3. /\ op[p].step = "signed" /\ outcome[a] = None
        /\ outcome' = [outcome EXCEPT ![a] = row]
        /\ UNCHANGED <<keys, ends, auth>>
    BY <1>1 DEF CommitInsert
  <1>4. a \in ActionId /\ o \in Outcome /\ row \in Execution /\ x \in Key /\ TypeOK
    BY <1>1, <1>2, <1>3, CallFields, GateAssumption
       DEF AuthorityInv, TurnsInv, GateInv, TypeOK, Execution, GateAssumption
  <1>5. /\ auth[a] # None /\ auth[a].decision = "ALLOWED"
        /\ x \in Executors \ {AgentOf[a]}
    BY <1>1, <1>2, <1>3 DEF AuthorityInv, TurnsInv, GateInv, CommitsArePermitted
  <1>6. Alive(x) /\ InScope(x, a) /\ x \notin Proposer /\ StatusOf[o] # "UNKNOWN"
    BY <1>1, <1>2, <1>3 DEF AuthorityInv, TurnsInv, CallsInTurn, CallInTurn
  <1>7. Alive(AgentOf[a]) /\ AgentOf[a] \in Key
    BY <1>1, <1>3, <1>4, RowFields DEF AuthorityInv, CommitsHaveAgents
  <1>8. \E i \in Intent :
          [b \in ActionId |-> PermitSeen(auth[b])][a] = [intent |-> i, allowed |-> TRUE]
    <2>1. auth[a].intent \in Intent
      BY <1>4, <1>5, RowFields
    <2>2. PermitSeen(auth[a]) = [intent |-> auth[a].intent, allowed |-> TRUE]
      BY <1>5 DEF PermitSeen
    <2> QED BY <1>4, <2>1, <2>2
  <1>9. ReceiptSeen(row) = o
    BY <1>1, <1>4, RowsAreRows DEF ReceiptSeen
  <1>10. [b \in ActionId |-> ReceiptSeen(outcome'[b])]
           = [[b \in ActionId |-> ReceiptSeen(outcome[b])] EXCEPT ![a] = o]
    BY <1>3, <1>4, <1>9 DEF TypeOK
  <1>11. [b \in ActionId |-> ReceiptSeen(outcome[b])][a] = None
    BY <1>3, <1>4 DEF ReceiptSeen
  <1>12. A!Use(a, o)
    BY <1>2, <1>3, <1>4, <1>5, <1>6, <1>7, <1>8, <1>10, <1>11
       DEF A!Use, A!InScope, InScope, Alive, PermitSeen, ReceiptSeen
  <1> QED BY <1>4, <1>12

LEMMA AuthorityStep ==
  ASSUME AuthorityInv, [Next]_vars
  PROVE  [A!Next]_(A!vars)
  <1>1. CASE UNCHANGED tables
    BY <1>1, StutterIsStutter
  <1>2. CASE ~UNCHANGED tables
    <2>1. PICK p \in Proc :
            RequestInsert(p) \/ CommitInsert(p) \/ RegisterInsert(p) \/ RevokeCommit(p)
      BY <1>2, TableStep DEF AuthorityInv, TurnsInv, GateInv
    <2>2. A!Next
      BY <2>1, RequestIsDecide, CommitIsUse, RegisterIsEnrol, RevokeIsRetire DEF A!Next
    <2> QED BY <2>2
  <1> QED BY <1>1, <1>2

LEMMA AuthorityInit ==
  ASSUME Init
  PROVE  A!Init
  <1>1. [from |-> 0, until |-> None] # None
    BY NoneAssumption DEF Interval
  <1>2. {k \in Key : keys[k] # None /\ ends[k] = {}} = Enrolled
    BY <1>1, GateAssumption DEF Init, GateAssumption
  <1> QED BY <1>2 DEF Init, A!Init

(* As long as calls take turns, the gate keeps Authority's promises: what  *)
(* a request or a commit found out outside any transaction is still so in  *)
(* the one that stores its result, and no permit is used once its agent    *)
(* has been revoked.                                                       *)
THEOREM GateKeepsAuthority ==
  ASSUME InTurns
  PROVE  Spec => AuthoritySpec
  <1>1. Init => A!Init
    BY AuthorityInit
  <1>2. AuthorityInv /\ [Next]_vars => [A!Next]_(A!vars)
    BY AuthorityStep
  <1> QED BY <1>1, <1>2, AuthorityInvHolds, PTL DEF Spec, AuthoritySpec, A!Spec
=============================================================================
