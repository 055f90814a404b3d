---------------------------- MODULE IdentityProofs ----------------------------
(***************************************************************************)
(* Proofs about Identity for any number of processes, signers and keys,    *)
(* any delegation and any overlap of calls: the tables keep their types    *)
(* and no call rewrites what another has recorded.                         *)
(***************************************************************************)
EXTENDS Identity, InductionProofs, FiniteSetTheorems, TLAPS

(* What a call c that is past its check has found in the table. *)
FoundBy(c, known) ==
  /\ c.call \in {"rotate", "revoke"} => c.key \in known
  /\ c.call = "rotate" => c.key # c.new

CallsFound == \A p \in Proc : op[p] # Idle => FoundBy(op[p].do, Registered)

(* The types alone are not inductive: a commit copies fields of the row it *)
(* ends, which only the check has found there.                             *)
IdentityInv == TypeOK /\ CallsFound

-----------------------------------------------------------------------------
LEMMA CallFields ==
  ASSUME op \in [Proc -> Calls], NEW p \in Proc, op[p] # Idle
  PROVE  /\ op[p].step \in {"checked", "stamped"}
         /\ op[p].do \in Call
         /\ op[p].step = "stamped" => op[p].at \in Nat
  BY DEF Calls

LEMMA CallKinds ==
  ASSUME NEW c \in Call
  PROVE  /\ c.by \in Key /\ c.key \in Key
         /\ c.call = "register" => c.first \in BOOLEAN
         /\ c.call = "rotate" => c.new \in Key
  BY IdentityAssumption DEF Call

LEMMA ReadyFields ==
  ASSUME op \in [Proc -> Calls], CallsFound, NEW p \in Proc, NEW call, Ready(p, call)
  PROVE  /\ op[p].do \in Call /\ op[p].do.call = call
         /\ op[p].do.by \in Key /\ op[p].do.key \in Key
         /\ op[p].at \in Nat
         /\ FoundBy(op[p].do, Registered)
  <1>1. op[p] # Idle
    BY DEF Ready, Idle
  <1> QED BY <1>1, CallFields, CallKinds DEF Ready, CallsFound

(* A key in the table has a row. *)
LEMMA RowOf ==
  ASSUME agents \in [Key -> Row \cup {None}], NEW k \in Registered
  PROVE  /\ k \in Key /\ agents[k] \in Row
         /\ agents[k].by \in Key /\ agents[k].identity \in Key /\ agents[k].tenant \in Tenant
         /\ agents[k].delegates \in BOOLEAN /\ agents[k].from \in Nat
         /\ agents[k].status \in {"active", "rotated", "revoked"}
         /\ agents[k].until \in Nat \cup {None}
  BY DEF Registered, Row

-----------------------------------------------------------------------------
(* What a step may do to the tables: nothing, enter a row, or end a row's  *)
(* time and perhaps enter the next one.                                    *)
Same(k) == agents'[k] = agents[k]

Ended(k, status, t) ==
  agents'[k] = IF agents[k].status = "active"
                 THEN [agents[k] EXCEPT !.status = status, !.until = t]
                 ELSE agents[k]

LEMMA RotateWrites ==
  ASSUME IdentityInv, NEW p \in Proc, RotateCommit(p)
  PROVE  /\ op[p].do.key \in Registered /\ op[p].do.new \in Key \ Registered
         /\ op[p].at \in Nat
         /\ Ended(op[p].do.key, "rotated", op[p].at)
         /\ \A k \in Registered \ {op[p].do.key} : Same(k)
         /\ agents' \in [Key -> Row \cup {None}]
         /\ events' \in Seq(Event)
  <1> DEFINE c == op[p].do
             r == agents[c.key]
             retired == IF r.status = "active" THEN [r EXCEPT !.status = "rotated", !.until = op[p].at] ELSE r
             next == [by |-> c.by, identity |-> r.identity, tenant |-> r.tenant,
                      delegates |-> r.delegates, from |-> op[p].at,
                      status |-> "active", until |-> None]
             event == [type |-> "ROTATE", ends |-> c.key, identity |-> r.identity,
                       tenant |-> r.tenant, at |-> op[p].at, by |-> c.by]
  <1>1. /\ Ready(p, "rotate") /\ c.new \notin Registered
        /\ agents' = [agents EXCEPT ![c.key] = retired, ![c.new] = next]
        /\ events' = Append(events, event)
    BY DEF RotateCommit
  <1>2. /\ c \in Call /\ c.call = "rotate"
        /\ c.by \in Key /\ c.key \in Registered /\ c.key # c.new
        /\ op[p].at \in Nat
    BY <1>1, ReadyFields DEF IdentityInv, TypeOK, FoundBy
  <1>3. c.new \in Key
    BY <1>2, CallKinds
  <1>4. /\ agents \in [Key -> Row \cup {None}] /\ events \in Seq(Event)
        /\ r \in Row /\ c.key \in Key
    BY <1>2, RowOf DEF IdentityInv, TypeOK
  <1>5. retired \in Row /\ next \in Row /\ event \in Event
    BY <1>2, <1>4 DEF Row, Event
  <1> HIDE DEF retired, next, event
  <1>6. /\ agents'[c.key] = retired
        /\ \A k \in Key \ {c.key, c.new} : agents'[k] = agents[k]
        /\ agents' \in [Key -> Row \cup {None}]
        /\ events' \in Seq(Event)
    BY <1>1, <1>2, <1>3, <1>4, <1>5
  <1>7. \A k \in Registered : k \in Key
    BY DEF Registered
  <1> QED BY <1>1, <1>2, <1>3, <1>6, <1>7 DEF Ended, Same, retired

LEMMA RevokeWrites ==
  ASSUME IdentityInv, NEW p \in Proc, RevokeCommit(p)
  PROVE  /\ op[p].do.key \in Registered /\ op[p].at \in Nat
         /\ Ended(op[p].do.key, "revoked", op[p].at)
         /\ \A k \in Registered \ {op[p].do.key} : Same(k)
         /\ agents' \in [Key -> Row \cup {None}]
         /\ events' \in Seq(Event)
  <1> DEFINE c == op[p].do
             r == agents[c.key]
             event == [type |-> "REVOKE", ends |-> c.key, identity |-> r.identity,
                       tenant |-> r.tenant, at |-> op[p].at, by |-> c.by]
             ended == [r EXCEPT !.status = "revoked", !.until = op[p].at]
  <1>1. /\ Ready(p, "revoke")
        /\ agents' = IF r.status = "active"
                       THEN [agents EXCEPT ![c.key].status = "revoked", ![c.key].until = op[p].at]
                       ELSE agents
        /\ events' = Append(events, event)
    BY DEF RevokeCommit
  <1>2. /\ c.by \in Key /\ c.key \in Registered /\ op[p].at \in Nat
    BY <1>1, ReadyFields DEF IdentityInv, TypeOK, FoundBy
  <1>3. /\ agents \in [Key -> Row \cup {None}] /\ events \in Seq(Event)
        /\ r \in Row /\ c.key \in Key
    BY <1>2, RowOf DEF IdentityInv, TypeOK
  <1>4. ended \in Row /\ event \in Event
    BY <1>2, <1>3 DEF Row, Event
  <1>5. agents' = IF r.status = "active" THEN [agents EXCEPT ![c.key] = ended] ELSE agents
    BY <1>1, <1>3
  <1> HIDE DEF ended, event
  <1>6. /\ agents'[c.key] = (IF r.status = "active" THEN ended ELSE r)
        /\ \A k \in Key \ {c.key} : agents'[k] = agents[k]
        /\ agents' \in [Key -> Row \cup {None}]
    <2>1. CASE r.status = "active"
      <3>1. agents' = [agents EXCEPT ![c.key] = ended]
        BY <1>5, <2>1
      <3> QED BY <1>3, <1>4, <2>1, <3>1
    <2>2. CASE r.status # "active"
      BY <1>3, <1>5, <2>2
    <2> QED BY <2>1, <2>2
  <1>8. events' \in Seq(Event)
    BY <1>1, <1>3, <1>4
  <1>7. \A k \in Registered : k \in Key
    BY DEF Registered
  <1> QED BY <1>2, <1>6, <1>7, <1>8 DEF Ended, Same, ended

LEMMA RegisterWrites ==
  ASSUME IdentityInv, NEW p \in Proc, RegisterInsert(p)
  PROVE  /\ \A k \in Registered : Same(k)
         /\ agents' \in [Key -> Row \cup {None}]
         /\ trusted' \in Key \cup {None}
  <1> DEFINE c == op[p].do
             row == [by |-> c.by, identity |-> c.key, tenant |-> TenantOf[c.key],
                     delegates |-> c.first \/ c.key \in Delegator,
                     from |-> op[p].at, status |-> "active", until |-> None]
  <1>1. /\ Ready(p, "register") /\ c.key \notin Registered
        /\ agents' = [agents EXCEPT ![c.key] = row]
        /\ trusted' = IF c.first THEN c.key ELSE trusted
    BY DEF RegisterInsert
  <1>2. /\ c.by \in Key /\ c.key \in Key /\ op[p].at \in Nat
    BY <1>1, ReadyFields DEF IdentityInv, TypeOK
  <1>3. TenantOf[c.key] \in Tenant
    BY <1>2 DEF Tenant
  <1>4. row \in Row
    BY <1>2, <1>3 DEF Row
  <1>5. agents \in [Key -> Row \cup {None}] /\ trusted \in Key \cup {None}
    BY DEF IdentityInv, TypeOK
  <1> HIDE DEF row
  <1>6. agents' \in [Key -> Row \cup {None}] /\ \A k \in Key \ {c.key} : agents'[k] = agents[k]
    BY <1>1, <1>2, <1>4, <1>5
  <1>7. \A k \in Registered : k \in Key
    BY DEF Registered
  <1> QED BY <1>1, <1>2, <1>5, <1>6, <1>7 DEF Same

(* A row that is there is the same after a step, or its time has ended.    *)
LEMMA RowStep ==
  ASSUME IdentityInv, [Next]_vars, NEW k \in Registered
  PROVE  \/ Same(k)
         \/ \E status \in {"rotated", "revoked"}, t \in Nat : Ended(k, status, t)
  <1>1. ASSUME NEW p \in Proc, RotateCommit(p) \/ RevokeCommit(p) \/ RegisterInsert(p)
        PROVE  \/ Same(k)
               \/ \E status \in {"rotated", "revoked"}, t \in Nat : Ended(k, status, t)
    BY <1>1, RotateWrites, RevokeWrites, RegisterWrites
  <1>2. \/ UNCHANGED agents
        \/ \E p \in Proc : RotateCommit(p) \/ RevokeCommit(p) \/ RegisterInsert(p)
    BY DEF Next, vars, tables, RegisterCheck, RotateCheck, RevokeCheck, Enter, Stamp,
           RegisterRollback, RotateRollback, Crash, Tick
  <1> QED BY <1>1, <1>2 DEF Same

(* Who, what and from when stay; what has ended stays as it is.            *)
LEMMA KeptStep ==
  ASSUME IdentityInv, [Next]_vars, NEW k \in Registered
  PROVE  /\ agents'[k] # None
         /\ agents'[k].by = agents[k].by
         /\ agents'[k].identity = agents[k].identity
         /\ agents'[k].tenant = agents[k].tenant
         /\ agents'[k].delegates = agents[k].delegates
         /\ agents'[k].from = agents[k].from
         /\ agents[k].status # "active" => agents'[k] = agents[k]
  <1>1. agents[k] \in Row /\ agents[k] # None
    BY RowOf DEF IdentityInv, TypeOK, Registered
  <1>2. CASE Same(k)
    BY <1>1, <1>2 DEF Same
  <1>3. ASSUME NEW status \in {"rotated", "revoked"}, NEW t \in Nat, Ended(k, status, t)
        PROVE  /\ agents'[k] \in Row
               /\ agents'[k].by = agents[k].by
               /\ agents'[k].identity = agents[k].identity
               /\ agents'[k].tenant = agents[k].tenant
               /\ agents'[k].delegates = agents[k].delegates
               /\ agents'[k].from = agents[k].from
               /\ agents[k].status # "active" => agents'[k] = agents[k]
    BY <1>1, <1>3 DEF Ended, Row
  <1> QED BY <1>2, <1>3, RowStep, NoneAssumption

-----------------------------------------------------------------------------
LEMMA InitHolds ==
  ASSUME Init
  PROVE  IdentityInv
  <1>1. Idle \in Calls
    BY DEF Calls
  <1>2. events \in Seq(Event)
    BY DEF Init
  <1>3. agents \in [Key -> Row \cup {None}] /\ op \in [Proc -> Calls]
    BY <1>1 DEF Init
  <1>4. TypeOK
    BY <1>2, <1>3 DEF Init, TypeOK
  <1>5. CallsFound
    BY DEF Init, CallsFound
  <1> QED BY <1>4, <1>5 DEF IdentityInv

(* What a call has found stays in the table.                               *)
LEMMA FoundStays ==
  ASSUME IdentityInv, [Next]_vars, NEW c \in Call, FoundBy(c, Registered)
  PROVE  FoundBy(c, Registered')
  <1>1. \A k \in Registered : k \in Registered'
    BY KeptStep DEF Registered
  <1> QED BY <1>1 DEF FoundBy

LEMMA CallsStep ==
  ASSUME IdentityInv, [Next]_vars, NEW p \in Proc, NEW c \in Calls,
         op' = [op EXCEPT ![p] = c], c # Idle => c.do \in Call /\ FoundBy(c.do, Registered)
  PROVE  op' \in [Proc -> Calls] /\ CallsFound'
  <1>1. op \in [Proc -> Calls] /\ CallsFound
    BY DEF IdentityInv, TypeOK
  <1>2. ASSUME NEW q \in Proc, op'[q] # Idle
        PROVE  FoundBy(op'[q].do, Registered')
    <2>1. CASE q = p
      <3>1. op'[q] = c
        BY <1>1, <2>1
      <3> QED BY <1>2, <3>1, FoundStays
    <2>2. CASE q # p
      <3>1. op'[q] = op[q] /\ op[q].do \in Call /\ FoundBy(op[q].do, Registered)
        BY <1>1, <1>2, <2>2, CallFields DEF CallsFound
      <3> QED BY <3>1, FoundStays
    <2> QED BY <2>1, <2>2
  <1>3. CallsFound'
    <2>1. \A q \in Proc : op'[q] # Idle => FoundBy(op'[q].do, Registered')
      BY <1>2
    <2> QED BY <2>1 DEF CallsFound, Idle
  <1> QED BY <1>1, <1>3

LEMMA ReturnStep ==
  ASSUME IdentityInv, [Next]_vars, NEW p \in Proc, Return(p)
  PROVE  op' \in [Proc -> Calls] /\ CallsFound' /\ overlapped' \in BOOLEAN
  <1>1. Idle \in Calls
    BY DEF Calls
  <1> QED BY <1>1, CallsStep DEF Return, IdentityInv, TypeOK

LEMMA EnterStep ==
  ASSUME IdentityInv, [Next]_vars, NEW p \in Proc, NEW c \in Call, FoundBy(c, Registered), Enter(p, c)
  PROVE  IdentityInv'
  <1>1. [step |-> "checked", do |-> c] \in Calls
    BY DEF Calls
  <1>2. op' \in [Proc -> Calls] /\ CallsFound'
    BY <1>1, CallsStep DEF Enter
  <1> QED BY <1>2 DEF Enter, IdentityInv, TypeOK, tables

LEMMA InvStep ==
  ASSUME IdentityInv, [Next]_vars
  PROVE  IdentityInv'
  <1>0. now \in Nat /\ (Transaction => now' \in Nat)
    BY DEF IdentityInv, TypeOK, Transaction
  <1>1. ASSUME NEW p \in Proc, NEW s \in Signer, NEW k \in Key, RegisterCheck(p, s, k)
        PROVE  IdentityInv'
    <2> DEFINE c == [call |-> "register", by |-> s, key |-> k, first |-> Registered = {}]
    <2>1. c \in Call /\ FoundBy(c, Registered)
      BY DEF Call, FoundBy
    <2> QED BY <1>1, <2>1, EnterStep DEF RegisterCheck
  <1>2. ASSUME NEW p \in Proc, NEW s \in Signer, NEW k \in Key, RevokeCheck(p, s, k)
        PROVE  IdentityInv'
    <2> DEFINE c == [call |-> "revoke", by |-> s, key |-> k]
    <2>1. c \in Call /\ FoundBy(c, Registered)
      BY <1>2 DEF Call, FoundBy, RevokeCheck, ActiveAt
    <2> QED BY <1>2, <2>1, EnterStep DEF RevokeCheck
  <1>3. ASSUME NEW p \in Proc, NEW s \in Signer, NEW k \in Key, NEW new \in Key,
               RotateCheck(p, s, k, new)
        PROVE  IdentityInv'
    <2> DEFINE c == [call |-> "rotate", by |-> s, key |-> k, new |-> new]
    <2>1. c \in Call /\ FoundBy(c, Registered)
      BY <1>3 DEF Call, FoundBy, RotateCheck, ActiveAt
    <2> QED BY <1>3, <2>1, EnterStep DEF RotateCheck
  <1>4. ASSUME NEW p \in Proc, Stamp(p)
        PROVE  IdentityInv'
    <2>1. op[p] # Idle /\ op[p].do \in Call /\ FoundBy(op[p].do, Registered)
      BY <1>4, CallFields DEF Stamp, Idle, IdentityInv, TypeOK, CallsFound
    <2> DEFINE c == [step |-> "stamped", do |-> op[p].do, at |-> now]
    <2>2. c \in Calls /\ c.do = op[p].do
      BY <1>0, <2>1 DEF Calls
    <2>3. op' \in [Proc -> Calls] /\ CallsFound'
      BY <1>4, <2>1, <2>2, CallsStep DEF Stamp
    <2> QED BY <1>4, <2>3 DEF Stamp, tables, IdentityInv, TypeOK
  <1>5. ASSUME NEW p \in Proc, RegisterInsert(p)
        PROVE  IdentityInv'
    BY <1>0, <1>5, RegisterWrites, ReturnStep, Zenon DEF RegisterInsert, IdentityInv, TypeOK
  <1>6. ASSUME NEW p \in Proc, RotateCommit(p)
        PROVE  IdentityInv'
    BY <1>0, <1>6, RotateWrites, ReturnStep DEF RotateCommit, IdentityInv, TypeOK
  <1>7. ASSUME NEW p \in Proc, RevokeCommit(p)
        PROVE  IdentityInv'
    BY <1>0, <1>7, RevokeWrites, ReturnStep DEF RevokeCommit, IdentityInv, TypeOK
  <1>8. ASSUME NEW p \in Proc, RegisterRollback(p) \/ RotateRollback(p) \/ Crash(p)
        PROVE  IdentityInv'
    BY <1>8, ReturnStep DEF RegisterRollback, RotateRollback, Crash, tables, IdentityInv, TypeOK
  <1>9. CASE Tick
    <2>1. now' \in Nat /\ UNCHANGED <<agents, events, trusted, op, overlapped>>
      BY <1>0, <1>9 DEF Tick, tables
    <2> QED BY <2>1 DEF IdentityInv, TypeOK, CallsFound, FoundBy, Registered
  <1>10. CASE UNCHANGED vars
    BY <1>10 DEF vars, tables, IdentityInv, TypeOK, CallsFound, FoundBy, Registered
  <1> QED BY <1>1, <1>2, <1>3, <1>4, <1>5, <1>6, <1>7, <1>8, <1>9, <1>10 DEF Next

LEMMA InvHolds == Spec => []IdentityInv
  BY InitHolds, InvStep, PTL DEF Spec

-----------------------------------------------------------------------------
(* Every call of the registry keeps the types of its tables, of the calls  *)
(* in progress and of the clock.                                           *)
THEOREM TypeCorrect == Spec => []TypeOK
  <1>1. IdentityInv => TypeOK
    BY DEF IdentityInv
  <1> QED BY <1>1, InvHolds, PTL

(* However many calls overlap, none takes a row away, changes who          *)
(* registered it, as what and from when, or moves the end of a time that   *)
(* has ended: two revocations, or a revocation and a rotation, of one key  *)
(* leave the first one's.                                                  *)
THEOREM RecordsAreAlwaysKept == Spec => RecordsAreKept
  <1>1. IdentityInv /\ [Next]_vars =>
          [\A k \in Registered :
             /\ agents'[k] # None
             /\ \A f \in {"by", "identity", "tenant", "delegates", "from"} : agents'[k][f] = agents[k][f]
             /\ agents[k].status # "active" => agents'[k] = agents[k]]_vars
    BY KeptStep
  <1> QED BY <1>1, InvHolds, PTL DEF Spec, RecordsAreKept

-----------------------------------------------------------------------------
(* Calls that take turns *)

(* A time stamp that is taken now is later than any in the tables, because *)
(* the clock moves with each transaction.                                  *)
TablesBefore(t) ==
  /\ \A k \in Registered : agents[k].from < t /\ (agents[k].until # None => agents[k].until < t)
  /\ \A m \in DOMAIN events : events[m].at < t

(* The signer of a registration or an event was there to sign it.          *)
Backing(by, at) == by \in Registered /\ InForce(by, at) /\ agents[by].delegates

(* A key's time is ended by one event at most, which its row repeats.      *)
EndsOnce(k) ==
  \/ Endings(k) = {} /\ agents[k].status = "active" /\ agents[k].until = None
  \/ \E m \in DOMAIN events :
       /\ Endings(k) = {m}
       /\ agents[k].until = events[m].at
       /\ agents[k].status = IF events[m].type = "ROTATE" THEN "rotated" ELSE "revoked"

RowIsBacked(k) ==
  /\ agents[k].identity \in Registered
  /\ IF agents[k].by = k
       THEN trusted = k
       ELSE Backing(agents[k].by, agents[k].from) /\ agents[agents[k].by].tenant \in {"*", agents[k].tenant}

EventIsBacked(m) ==
  /\ events[m].ends \in Registered
  /\ Backing(events[m].by, events[m].at)
  /\ events[m].type = "ROTATE" => agents[events[m].by].tenant \in {"*", events[m].tenant}

OneActingKey ==
  \A j, k \in Registered :
    agents[j].identity = agents[k].identity /\ agents[j].until = None /\ agents[k].until = None => j = k

TablesInTurn ==
  /\ TablesBefore(now)
  /\ \A k \in Registered : EndsOnce(k) /\ RowIsBacked(k)
  /\ \A m \in DOMAIN events : EventIsBacked(m)
  /\ OneActingKey

(* What a call has checked still holds when it commits.                    *)
Acts(k) == k \in Registered /\ agents[k].until = None

Standing(c) ==
  /\ c.call = "register" =>
       IF c.first THEN Registered = {} /\ c.key = c.by
       ELSE Acts(c.by) /\ agents[c.by].delegates /\ agents[c.by].tenant \in {"*", TenantOf[c.key]}
  /\ c.call \in {"rotate", "revoke"} =>
       Acts(c.by) /\ agents[c.by].delegates /\ Acts(c.key) /\ c.key # c.by
  /\ c.call = "rotate" => agents[c.by].tenant \in {"*", agents[c.key].tenant}

CallInTurn(p) ==
  op[p] # Idle =>
    /\ \A q \in Proc : op[q] # Idle => q = p
    /\ Standing(op[p].do)
    /\ op[p].step = "stamped" => op[p].at <= now /\ TablesBefore(op[p].at)

InTurn == TablesInTurn /\ \A p \in Proc : CallInTurn(p)

(* What is known in every state, and what is known as long as no two calls *)
(* have been open at once.                                                 *)
TurnInv == IdentityInv /\ (~overlapped => InTurn)


-----------------------------------------------------------------------------
(* The recursive verification *)

Pairs == Key \X SUBSET Key

(* What an evaluation of Verifies asks of k, given the pairs V that verify *)
(* with one step less.                                                     *)
SignedBy(V, by, at, tenant, seen) ==
  /\ <<by, seen>> \in V
  /\ InForce(by, at)
  /\ agents[by].delegates
  /\ agents[by].tenant \in {"*", tenant}

Good(V, k, visited) ==
  /\ Cardinality(visited) <= MaxChain
  /\ k \notin visited
  /\ agents[k] # None
  /\ \A m \in DOMAIN events :
       events[m].identity = agents[k].identity =>
         SignedBy(V, events[m].by, events[m].at, events[m].tenant, {})
  /\ ColumnsMatchEvents(k)
  /\ IF agents[k].by = k
       THEN trusted = k
       ELSE SignedBy(V, agents[k].by, agents[k].from, agents[k].tenant, visited \cup {k})

Depth == Cardinality(Key) + 1

LEMMA EventFields ==
  ASSUME events \in Seq(Event), NEW m \in DOMAIN events
  PROVE  /\ events[m] \in Event
         /\ events[m].ends \in Key /\ events[m].identity \in Key /\ events[m].by \in Key
         /\ events[m].at \in Nat /\ events[m].tenant \in Tenant
         /\ events[m].type \in {"ROTATE", "REVOKE"}
  <1>1. events[m] \in Event
    OBVIOUS
  <1> QED BY <1>1 DEF Event

LEMMA DepthType == Cardinality(Key) \in Nat /\ Depth \in Nat /\ 0..Depth \subseteq Nat
  BY FS_CardinalityType, IdentityAssumption DEF Depth

(* The recursive definition defines a function.                            *)
LEMMA VerifiesUnfolds ==
  ASSUME TypeOK
  PROVE  /\ \A k \in Key, visited \in SUBSET Key : ~Verifies[0][k][visited]
         /\ \A n \in 0..Cardinality(Key), k \in Key, visited \in SUBSET Key :
              Verifies[n + 1][k][visited] <=>
                Good({x \in Pairs : Verifies[n][x[1]][x[2]]}, k, visited)
  <1> DEFINE Up(V) == {x \in Pairs : Good(V, x[1], x[2])}
             D == [n \in Nat |-> [V \in SUBSET Pairs |-> Up(V)]]
  <1>1. \E f : IsIteration(SUBSET Pairs, {}, D, f)
    <2>1. IsStep(SUBSET Pairs, D)
      BY DEF IsStep
    <2> HIDE DEF D
    <2> QED BY <2>1, Recursion
  <1>2. PICK f : IsIteration(SUBSET Pairs, {}, D, f)
    BY <1>1
  <1>3. f \in [Nat -> SUBSET Pairs] /\ f[0] = {} /\ \A n \in Nat : f[n + 1] = Up(f[n])
    BY <1>2 DEF IsIteration
  <1> HIDE DEF D
  <1> DEFINE Body(v, n, k, visited) ==
               LET Backed(by, at, tenant, seen) ==
                     /\ v[n - 1][by][seen]
                     /\ InForce(by, at)
                     /\ agents[by].delegates
                     /\ agents[by].tenant \in {"*", tenant}
               IN
               /\ n > 0
               /\ Cardinality(visited) <= MaxChain
               /\ k \notin visited
               /\ agents[k] # None
               /\ \A m \in DOMAIN events :
                    events[m].identity = agents[k].identity =>
                      Backed(events[m].by, events[m].at, events[m].tenant, {})
               /\ ColumnsMatchEvents(k)
               /\ IF agents[k].by = k
                    THEN trusted = k
                    ELSE Backed(agents[k].by, agents[k].from, agents[k].tenant, visited \cup {k})
             Solves(v) == v = [n \in 0..Depth |-> [k \in Key |-> [visited \in SUBSET Key |-> Body(v, n, k, visited)]]]
             g == [n \in 0..Depth |-> [k \in Key |-> [visited \in SUBSET Key |-> <<k, visited>> \in f[n]]]]
  <1>4. Verifies = CHOOSE v : Solves(v)
    BY DEF Verifies, Depth
  <1>5. ASSUME NEW v, NEW n \in 0..Depth, NEW k \in Key, NEW visited \in SUBSET Key, n # 0
        PROVE  Body(v, n, k, visited) = Good({x \in Pairs : v[n - 1][x[1]][x[2]]}, k, visited)
    <2> DEFINE V == {x \in Pairs : v[n - 1][x[1]][x[2]]}
    <2>1. \A by \in Key, seen \in SUBSET Key : <<by, seen>> \in V <=> v[n - 1][by][seen]
      BY DEF Pairs
    <2> HIDE DEF V
    <2>2. \A m \in DOMAIN events : events[m].by \in Key
      BY EventFields DEF TypeOK
    <2>3. n > 0 /\ {} \in SUBSET Key /\ visited \cup {k} \in SUBSET Key
      BY <1>5, DepthType
    <2>4. agents[k] # None => agents[k].by \in Key
      BY RowOf DEF TypeOK, Registered
    <2>5. Body(v, n, k, visited) <=> Good(V, k, visited)
      BY <2>1, <2>2, <2>3, <2>4 DEF Good, SignedBy
    <2>6. Body(v, n, k, visited) \in BOOLEAN /\ Good(V, k, visited) \in BOOLEAN
      BY DEF Good
    <2> QED BY <2>5, <2>6 DEF V
  <1>0. ASSUME NEW v, NEW k, NEW visited PROVE Body(v, 0, k, visited) = FALSE
    <2>1. ~(0 > 0)
      OBVIOUS
    <2> QED BY <2>1
  <1>6. Solves(g)
    <2>1. g = [n \in 0..Depth |-> [k \in Key |-> [visited \in SUBSET Key |-> <<k, visited>> \in f[n]]]]
      OBVIOUS
    <2>2. ASSUME NEW n \in 0..Depth, NEW k \in Key, NEW visited \in SUBSET Key
          PROVE  (<<k, visited>> \in f[n]) = Body(g, n, k, visited)
      <3>1. CASE n = 0
        <4> HIDE DEF Body, g
        <4>1. Body(g, n, k, visited) = FALSE
          BY <1>0, <3>1
        <4>2. f[n] = {}
          BY <1>3, <3>1
        <4>3. (<<k, visited>> \in f[n]) = FALSE
          BY <4>2
        <4> QED BY <4>1, <4>3
      <3>2. CASE n # 0
        <4> DEFINE V == {x \in Pairs : g[n - 1][x[1]][x[2]]}
        <4>1. n \in Nat /\ n - 1 \in 0..Depth /\ n - 1 \in Nat /\ (n - 1) + 1 = n
          BY <2>2, <3>2, DepthType
        <4>2. V = f[n - 1]
          <5>1. \A x \in Pairs : x = <<x[1], x[2]>> /\ x[1] \in Key /\ x[2] \in SUBSET Key
            BY DEF Pairs
          <5>2. \A x \in Pairs : g[n - 1][x[1]][x[2]] = (<<x[1], x[2]>> \in f[n - 1])
            BY <4>1, <5>1
          <5>3. f[n - 1] \subseteq Pairs
            BY <1>3, <4>1
          <5> QED BY <5>1, <5>2, <5>3
        <4> HIDE DEF V, g, Body
        <4>3. Body(g, n, k, visited) = Good(f[n - 1], k, visited)
          BY <1>5, <2>2, <3>2, <4>2 DEF V
        <4>4. <<k, visited>> \in Pairs /\ <<k, visited>>[1] = k /\ <<k, visited>>[2] = visited
          BY <2>2 DEF Pairs
        <4>5. <<k, visited>> \in f[n] <=> Good(f[n - 1], k, visited)
          BY <1>3, <4>1, <4>4
        <4>6. Good(f[n - 1], k, visited) \in BOOLEAN
          BY DEF Good
        <4> QED BY <4>3, <4>5, <4>6
      <3> QED BY <3>1, <3>2
    <2> HIDE DEF g, Body
    <2>3. [n \in 0..Depth |-> [k \in Key |-> [visited \in SUBSET Key |-> <<k, visited>> \in f[n]]]] =
          [n \in 0..Depth |-> [k \in Key |-> [visited \in SUBSET Key |-> Body(g, n, k, visited)]]]
      BY <2>2
    <2> QED BY <2>1, <2>3
  <1>7. Solves(Verifies)
    <2> HIDE DEF Solves, g
    <2> QED BY <1>4, <1>6
  <1>8. ASSUME NEW n \in 0..Depth, NEW k \in Key, NEW visited \in SUBSET Key
        PROVE  Verifies[n][k][visited] = Body(Verifies, n, k, visited)
    <2> HIDE DEF Body
    <2>1. Verifies[n] = [i \in Key |-> [j \in SUBSET Key |-> Body(Verifies, n, i, j)]]
      BY <1>7
    <2> QED BY <2>1
  <1>9. ASSUME NEW k \in Key, NEW visited \in SUBSET Key PROVE ~Verifies[0][k][visited]
    <2> HIDE DEF Body
    <2>1. 0 \in 0..Depth
      BY DepthType
    <2> QED BY <1>0, <1>8, <2>1
  <1>10. ASSUME NEW n \in 0..Cardinality(Key), NEW k \in Key, NEW visited \in SUBSET Key
         PROVE  Verifies[n + 1][k][visited] <=>
                  Good({x \in Pairs : Verifies[n][x[1]][x[2]]}, k, visited)
    <2>1. n + 1 \in 0..Depth /\ n + 1 # 0 /\ (n + 1) - 1 = n
      BY DepthType DEF Depth
    <2> HIDE DEF Body
    <2> QED BY <1>5, <1>8, <2>1
  <1> QED BY <1>9, <1>10

(* If every registration and every event was signed by a key that was      *)
(* there to sign it, all that can keep a key from verifying is a           *)
(* revocation out of scope, a circle of authority or a long chain.  The    *)
(* budget that a key needs is bounded by its rank, and what has been       *)
(* visited when it is reached lies deeper.                                 *)
LEMMA BackedKeysVerify ==
  ASSUME TypeOK, Reliable,
         \A k \in Registered : RowIsBacked(k) /\ ColumnsMatchEvents(k),
         \A m \in DOMAIN events : EventIsBacked(m)
  PROVE  EveryKeyVerifies
  <1> DEFINE C == Cardinality(Key)
  <1>1. PICK rank \in [Key -> 0..C] :
          \A k \in Registered :
            /\ agents[k].by # k => rank[agents[k].by] < rank[k]
            /\ \A m \in DOMAIN events :
                 events[m].identity = agents[k].identity => rank[events[m].by] < rank[k]
    BY DEF Reliable, AuthorityIsRanked
  <1>2. PICK depth \in [Key -> 0..MaxChain] :
          \A k \in Registered : agents[k].by # k => depth[agents[k].by] < depth[k]
    BY DEF Reliable, ChainsAreShort
  <1>3. MaxChain \in Nat /\ C \in Nat /\ IsFiniteSet(Key) /\ C + 1 \in 0..Depth
    BY DepthType, IdentityAssumption DEF Depth
  <1>4. \A k \in Key : rank[k] \in Nat /\ rank[k] <= C /\ depth[k] \in Nat /\ depth[k] <= MaxChain
    BY <1>1, <1>2, <1>3
  <1> HIDE DEF C
  <1> DEFINE Below(k, visited) ==
               Cardinality(visited) + depth[k] <= MaxChain /\ \A v \in visited : depth[k] < depth[v]
             Enough == {n \in Nat : n <= C + 1 =>
                          \A k \in Registered, visited \in SUBSET Key :
                            rank[k] < n /\ Below(k, visited) => Verifies[n][k][visited]}
  <1>5. 0 \in Enough
    BY <1>4 DEF Registered
  <1>6. ASSUME NEW n \in Nat, n \in Enough PROVE n + 1 \in Enough
    <2> SUFFICES ASSUME n + 1 <= C + 1, NEW k \in Registered, NEW visited \in SUBSET Key,
                        rank[k] < n + 1, Below(k, visited)
                 PROVE  Verifies[n + 1][k][visited]
      OBVIOUS
    <2> DEFINE V == {x \in Pairs : Verifies[n][x[1]][x[2]]}
    <2>1. k \in Key /\ agents[k] # None /\ agents[k].by \in Key
      BY RowOf DEF TypeOK, Registered
    <2>2. n \in 0..C /\ n <= C + 1
      BY <1>3
    <2>3. ASSUME NEW j \in Registered, NEW seen \in SUBSET Key, rank[j] < rank[k], Below(j, seen)
          PROVE  <<j, seen>> \in V
      <3>1. j \in Key /\ rank[j] < n
        BY <1>4, <2>1, <2>3 DEF Registered
      <3>2. Verifies[n][j][seen]
        BY <1>6, <2>2, <2>3, <3>1
      <3> QED BY <2>3, <3>1, <3>2 DEF Pairs
    <2> HIDE DEF V
    <2>4. Cardinality(visited) \in Nat /\ IsFiniteSet(visited)
      BY <1>3, FS_Subset, FS_CardinalityType
    <2>5. Cardinality(visited) <= MaxChain /\ k \notin visited
      BY <1>3, <1>4, <2>1, <2>4
    <2>6. ASSUME NEW m \in DOMAIN events, events[m].identity = agents[k].identity
          PROVE  SignedBy(V, events[m].by, events[m].at, events[m].tenant, {})
      <3>1. EventIsBacked(m) /\ events[m].type \in {"ROTATE", "REVOKE"} /\ events[m].by \in Key
        BY EventFields DEF TypeOK
      <3>2. events[m].by \in Registered /\ InForce(events[m].by, events[m].at) /\ agents[events[m].by].delegates
        BY <3>1 DEF EventIsBacked, Backing
      <3>3. agents[events[m].by].tenant \in {"*", events[m].tenant}
        BY <3>1 DEF EventIsBacked, Reliable, RevocationsInScope
      <3>4. Below(events[m].by, {})
        BY <1>3, <1>4, <3>1, FS_EmptySet
      <3>5. <<events[m].by, {}>> \in V
        BY <1>1, <2>3, <2>6, <3>2, <3>4
      <3> QED BY <3>2, <3>3, <3>5 DEF SignedBy
    <2>7. ASSUME agents[k].by # k
          PROVE  SignedBy(V, agents[k].by, agents[k].from, agents[k].tenant, visited \cup {k})
      <3> DEFINE j == agents[k].by
      <3>1. /\ j \in Registered /\ InForce(j, agents[k].from) /\ agents[j].delegates
            /\ agents[j].tenant \in {"*", agents[k].tenant}
        BY <2>7 DEF RowIsBacked, Backing
      <3>2. rank[j] < rank[k] /\ depth[j] < depth[k] /\ j \in Key
        BY <1>1, <1>2, <2>1, <2>7
      <3>3. Cardinality(visited \cup {k}) = Cardinality(visited) + 1 /\ visited \cup {k} \in SUBSET Key
        BY <2>1, <2>4, <2>5, FS_AddElement
      <3> HIDE DEF j
      <3>4. Below(j, visited \cup {k})
        <4>1. Cardinality(visited) + 1 + depth[j] <= MaxChain
          BY <1>3, <1>4, <2>1, <2>4, <3>2
        <4>2. \A v \in visited \cup {k} : depth[j] < depth[v]
          BY <1>4, <2>1, <3>2
        <4> QED BY <3>3, <4>1, <4>2
      <3>5. <<j, visited \cup {k}>> \in V
        BY <2>3, <3>1, <3>2, <3>3, <3>4
      <3> QED BY <3>1, <3>5 DEF SignedBy, j
    <2>8. agents[k].by = k => trusted = k
      BY DEF RowIsBacked
    <2>9. Good(V, k, visited)
      BY <2>1, <2>5, <2>6, <2>7, <2>8 DEF Good
    <2> QED BY <2>1, <2>2, <2>9, VerifiesUnfolds DEF C, V
  <1>7. C + 1 \in Enough
    <2> HIDE DEF Enough
    <2> QED BY <1>3, <1>5, <1>6, Induction
  <1>8. ASSUME NEW k \in Registered PROVE Verifies[C + 1][k][{}]
    <2>1. k \in Key /\ Below(k, {}) /\ rank[k] < C + 1
      BY <1>3, <1>4, FS_EmptySet DEF Registered
    <2> QED BY <1>3, <1>7, <2>1
  <1> QED BY <1>8 DEF EveryKeyVerifies, Verified, C

-----------------------------------------------------------------------------
(* What a transaction that begins with the stamp `at`, ends the time of    *)
(* the keys in dead and enters those in fresh does to the tables.          *)
Written(at, dead, fresh) ==
  /\ at \in Nat /\ at <= now /\ now' = now + 1 /\ TablesBefore(at)
  /\ Registered' = Registered \cup fresh /\ fresh \cap Registered = {} /\ dead \subseteq Registered
  /\ \A k \in Registered \ dead : Same(k)
  /\ \A k \in dead : agents[k].until = None /\ agents'[k].until = at
  /\ \A k \in fresh : agents'[k].from = at /\ agents'[k].until = None /\ agents'[k].status = "active"
  /\ \A m \in DOMAIN events : m \in DOMAIN events' /\ events'[m] = events[m]
  /\ \A m \in DOMAIN events' \ DOMAIN events : events'[m].at = at /\ events'[m].ends \in dead

LEMMA RowFields ==
  ASSUME IdentityInv, NEW k \in Registered
  PROVE  /\ k \in Key /\ agents[k].by \in Key /\ agents[k].identity \in Key
         /\ agents[k].from \in Nat /\ agents[k].until \in Nat \cup {None}
         /\ agents[k].status \in {"active", "rotated", "revoked"}
  BY RowOf DEF IdentityInv, TypeOK

LEMMA NewRowFields ==
  ASSUME IdentityInv', NEW k \in Registered'
  PROVE  /\ k \in Key /\ agents'[k].by \in Key /\ agents'[k].identity \in Key
         /\ agents'[k].from \in Nat /\ agents'[k].until \in Nat \cup {None}
         /\ agents'[k].status \in {"active", "rotated", "revoked"}
  <1>1. agents'[k] \in Row /\ k \in Key
    BY DEF IdentityInv, TypeOK, Registered
  <1> QED BY <1>1 DEF Row

LEMMA NoneIsNoTime == None \notin Nat
  BY NoneAssumption

(* Whoever backed something before the transaction began still does.       *)
LEMMA BackingStays ==
  ASSUME IdentityInv, [Next]_vars, NEW at, NEW dead, NEW fresh, Written(at, dead, fresh),
         NEW j, NEW t \in Nat, t < at, Backing(j, t)
  PROVE  Backing(j, t)'
  <1>1. j \in Registered /\ agents[j].from <= t /\ (agents[j].until # None => t < agents[j].until)
    BY DEF Backing, InForce
  <1>2. j \in Registered' /\ agents'[j].from = agents[j].from /\ agents'[j].delegates = agents[j].delegates
    BY <1>1, KeptStep DEF Written
  <1>3. agents'[j].until # None => t < agents'[j].until
    BY <1>1 DEF Written, Same
  <1> QED BY <1>1, <1>2, <1>3 DEF Backing, InForce

LEMMA ClockPasses ==
  ASSUME IdentityInv, IdentityInv', [Next]_vars, NEW at, NEW dead, NEW fresh, Written(at, dead, fresh)
  PROVE  TablesBefore(now)'
  <1>1. now \in Nat /\ at \in Nat /\ at < now'
    BY DEF IdentityInv, TypeOK, Written
  <1>2. ASSUME NEW k \in Registered'
        PROVE  agents'[k].from < now' /\ (agents'[k].until # None => agents'[k].until < now')
    <2>1. agents'[k].from \in Nat /\ agents'[k].until \in Nat \cup {None} /\ now' \in Nat
      BY <1>2, NewRowFields DEF IdentityInv, TypeOK
    <2>2. CASE k \in fresh
      BY <1>1, <2>2 DEF Written
    <2>3. CASE k \in Registered
      <3>1. agents[k].from < at /\ (agents[k].until # None => agents[k].until < at)
        BY <2>3 DEF Written, TablesBefore
      <3>2. agents'[k].from = agents[k].from
        BY <2>3, KeptStep
      <3>3. agents'[k].until = agents[k].until \/ agents'[k].until = at
        BY <2>3 DEF Written, Same
      <3> QED BY <1>1, <2>1, <3>1, <3>2, <3>3
    <2> QED BY <1>2, <2>2, <2>3 DEF Written
  <1>3. ASSUME NEW m \in DOMAIN events' PROVE events'[m].at < now'
    <2>1. CASE m \in DOMAIN events
      <3>1. events[m].at < at /\ events[m].at \in Nat /\ events'[m] = events[m] /\ now' \in Nat
        BY <2>1, EventFields DEF Written, TablesBefore, IdentityInv, TypeOK
      <3> QED BY <1>1, <3>1
    <2>2. CASE m \notin DOMAIN events
      BY <1>1, <1>3, <2>2 DEF Written
    <2> QED BY <2>1, <2>2
  <1> QED BY <1>2, <1>3 DEF TablesBefore

LEMMA EndingStays ==
  ASSUME NEW at, NEW dead, NEW fresh, Written(at, dead, fresh),
         NEW k \in Registered \ dead, EndsOnce(k)
  PROVE  EndsOnce(k)'
  <1>1. agents'[k] = agents[k]
    BY DEF Written, Same
  <1>2. Endings(k)' = Endings(k)
    BY DEF Written, Endings
  <1>3. \A m \in DOMAIN events : m \in DOMAIN events' /\ events'[m] = events[m]
    BY DEF Written
  <1> QED BY <1>1, <1>2, <1>3 DEF EndsOnce

LEMMA RowStaysBacked ==
  ASSUME IdentityInv, [Next]_vars, NEW at, NEW dead, NEW fresh, Written(at, dead, fresh),
         trusted' = trusted, NEW k \in Registered, RowIsBacked(k)
  PROVE  RowIsBacked(k)'
  <1>1. /\ agents'[k].by = agents[k].by /\ agents'[k].identity = agents[k].identity
        /\ agents'[k].tenant = agents[k].tenant /\ agents'[k].from = agents[k].from
    BY KeptStep
  <1>2. agents[k].identity \in Registered'
    BY DEF RowIsBacked, Written
  <1>3. CASE agents[k].by = k
    BY <1>1, <1>2, <1>3 DEF RowIsBacked
  <1>4. CASE agents[k].by # k
    <2>0. PICK j, t : j = agents[k].by /\ t = agents[k].from
      OBVIOUS
    <2>1. Backing(j, t) /\ agents[j].tenant \in {"*", agents[k].tenant}
      BY <1>4, <2>0 DEF RowIsBacked
    <2>2. j \in Registered /\ t \in Nat /\ t < at
      BY <2>0, <2>1, RowFields DEF Written, TablesBefore, Backing
    <2>3. Backing(j, t)'
      BY <2>1, <2>2, BackingStays
    <2>4. agents'[j].tenant = agents[j].tenant
      BY <2>2, KeptStep
    <2>5. j = agents'[k].by /\ t = agents'[k].from
      BY <1>1, <2>0
    <2> QED BY <1>1, <1>2, <1>4, <2>0, <2>1, <2>3, <2>4, <2>5 DEF RowIsBacked, Backing, InForce
  <1> QED BY <1>3, <1>4

LEMMA EventStaysBacked ==
  ASSUME IdentityInv, [Next]_vars, NEW at, NEW dead, NEW fresh, Written(at, dead, fresh),
         NEW m \in DOMAIN events, EventIsBacked(m)
  PROVE  EventIsBacked(m)'
  <1>1. events'[m] = events[m]
    BY DEF Written
  <1>0. PICK j, t : j = events[m].by /\ t = events[m].at
    OBVIOUS
  <1>2. Backing(j, t) /\ j \in Registered /\ t \in Nat /\ t < at
    BY <1>0, EventFields DEF EventIsBacked, Backing, Written, TablesBefore, IdentityInv, TypeOK
  <1>3. Backing(j, t)'
    BY <1>2, BackingStays
  <1>4. agents'[j].tenant = agents[j].tenant
    BY <1>2, KeptStep
  <1>5. events[m].ends \in Registered'
    BY DEF EventIsBacked, Written
  <1>6. j = events'[m].by /\ t = events'[m].at
    BY <1>0, <1>1
  <1> QED BY <1>0, <1>1, <1>3, <1>4, <1>5, <1>6 DEF EventIsBacked, Backing, InForce

LEMMA WrittenKeeps ==
  ASSUME IdentityInv, InTurn, IdentityInv', [Next]_vars,
         NEW at, NEW dead, NEW fresh, Written(at, dead, fresh),
         trusted' = trusted \/ Registered = {},
         \A k \in dead \cup fresh : EndsOnce(k)',
         \A k \in fresh : RowIsBacked(k)',
         \A m \in DOMAIN events' \ DOMAIN events : EventIsBacked(m)',
         \A k \in fresh, j \in Registered' :
           agents'[j].identity = agents'[k].identity /\ agents'[j].until = None => j = k,
         NEW p \in Proc, \A q \in Proc : op[q] # Idle => q = p, Return(p)
  PROVE  InTurn'
  <1>1. TablesBefore(now)'
    BY ClockPasses
  <1>2. ASSUME NEW k \in Registered' PROVE EndsOnce(k)' /\ RowIsBacked(k)'
    <2>1. k \in fresh \/ k \in Registered
      BY DEF Written
    <2>2. CASE k \in fresh
      BY <2>2
    <2>3. CASE k \in Registered
      <3>1. EndsOnce(k) /\ RowIsBacked(k)
        BY <2>3 DEF InTurn, TablesInTurn
      <3>2. trusted' = trusted
        BY <2>3
      <3>3. RowIsBacked(k)'
        BY <2>3, <3>1, <3>2, RowStaysBacked
      <3>4. EndsOnce(k)'
        BY <2>3, <3>1, EndingStays
      <3> QED BY <3>3, <3>4
    <2> QED BY <2>1, <2>2, <2>3
  <1>3. ASSUME NEW m \in DOMAIN events' PROVE EventIsBacked(m)'
    <2>1. CASE m \in DOMAIN events
      <3>1. EventIsBacked(m)
        BY <2>1 DEF InTurn, TablesInTurn
      <3> QED BY <2>1, <3>1, EventStaysBacked
    <2>2. CASE m \notin DOMAIN events
      BY <1>3, <2>2
    <2> QED BY <2>1, <2>2
  <1>4. ASSUME NEW j \in Registered', NEW k \in Registered', agents'[j].identity = agents'[k].identity,
               agents'[j].until = None, agents'[k].until = None
        PROVE  j = k
    <2>1. CASE j \in fresh \/ k \in fresh
      BY <1>4, <2>1
    <2>2. CASE j \in Registered /\ k \in Registered
      <3>1. \A i \in Registered : agents'[i].until = None => agents[i].until = None
        BY NoneIsNoTime DEF Written, Same
      <3>2. agents[j].identity = agents[k].identity
        BY <1>4, <2>2, KeptStep
      <3> QED BY <1>4, <2>2, <3>1, <3>2 DEF InTurn, TablesInTurn, OneActingKey
    <2> QED BY <2>1, <2>2 DEF Written
  <1>5. TablesInTurn'
    BY <1>1, <1>2, <1>3, <1>4 DEF TablesInTurn, OneActingKey
  <1>6. \A q \in Proc : op'[q] = Idle
    BY DEF Return, IdentityInv, TypeOK
  <1>7. \A q \in Proc : CallInTurn(q)'
    BY <1>6 DEF CallInTurn, Idle
  <1> QED BY <1>5, <1>7 DEF InTurn

LEMMA ReadyInTurn ==
  ASSUME IdentityInv, InTurn, NEW p \in Proc, NEW call, Ready(p, call)
  PROVE  /\ Standing(op[p].do) /\ op[p].do.call = call
         /\ op[p].do \in Call /\ op[p].do.by \in Key /\ op[p].do.key \in Key
         /\ op[p].at \in Nat /\ op[p].at <= now /\ TablesBefore(op[p].at)
         /\ \A q \in Proc : op[q] # Idle => q = p
  <1>1. op[p] # Idle /\ op[p].step = "stamped"
    BY DEF Ready, Idle
  <1>2. CallInTurn(p)
    BY DEF InTurn
  <1> QED BY <1>1, <1>2, ReadyFields DEF CallInTurn, IdentityInv, TypeOK

(* Whoever acts when the stamp is taken backs what is signed with it.      *)
LEMMA ActingBacks ==
  ASSUME IdentityInv, NEW at \in Nat, TablesBefore(at), NEW s, Acts(s), agents[s].delegates
  PROVE  Backing(s, at)
  <1>1. agents[s].from \in Nat /\ agents[s].from < at /\ s \in Registered
    BY RowFields DEF TablesBefore, Acts
  <1> QED BY <1>1 DEF Backing, InForce, Acts

LEMMA RegisterInTurn ==
  ASSUME IdentityInv, InTurn, IdentityInv', [Next]_vars, NEW p \in Proc, RegisterInsert(p)
  PROVE  InTurn' /\ \E k \in Key : \E at : Written(at, {}, {k}) /\ agents'[k].identity = k
  <1>0. PICK c, at : c = op[p].do /\ at = op[p].at
    OBVIOUS
  <1>1. /\ Ready(p, "register") /\ c.key \notin Registered /\ now' = now + 1 /\ Return(p)
        /\ agents' = [agents EXCEPT ![c.key] =
             [by |-> c.by, identity |-> c.key, tenant |-> TenantOf[c.key],
              delegates |-> c.first \/ c.key \in Delegator,
              from |-> at, status |-> "active", until |-> None]]
        /\ trusted' = (IF c.first THEN c.key ELSE trusted) /\ events' = events
    BY <1>0 DEF RegisterInsert, Transaction
  <1>2. /\ Standing(c) /\ c.call = "register" /\ c.by \in Key /\ c.key \in Key
        /\ at \in Nat /\ at <= now /\ TablesBefore(at)
        /\ \A q \in Proc : op[q] # Idle => q = p
    BY <1>0, <1>1, ReadyInTurn
  <1>3. agents \in [Key -> Row \cup {None}]
    BY DEF IdentityInv, TypeOK
  <1>4. /\ agents'[c.key].by = c.by /\ agents'[c.key].identity = c.key /\ agents'[c.key].tenant = TenantOf[c.key]
        /\ agents'[c.key].from = at /\ agents'[c.key].status = "active" /\ agents'[c.key].until = None
        /\ \A k \in Key \ {c.key} : agents'[k] = agents[k]
    BY <1>1, <1>2, <1>3
  <1>5. agents'[c.key] # None
    <2> DEFINE row == [by |-> c.by, identity |-> c.key, tenant |-> TenantOf[c.key],
                       delegates |-> c.first \/ c.key \in Delegator,
                       from |-> at, status |-> "active", until |-> None]
    <2>1. TenantOf[c.key] \in Tenant /\ (c.first \/ c.key \in Delegator) \in BOOLEAN
      BY <1>2 DEF Tenant
    <2>2. row \in Row
      BY <1>2, <2>1 DEF Row
    <2>3. agents'[c.key] = row
      BY <1>1, <1>2, <1>3
    <2> HIDE DEF row
    <2> QED BY <2>2, <2>3, NoneAssumption
  <1>6. Registered' = Registered \cup {c.key} /\ \A k \in Registered : k \in Key /\ k # c.key
    BY <1>1, <1>2, <1>4, <1>5 DEF Registered
  <1>7. Written(at, {}, {c.key})
    BY <1>1, <1>2, <1>4, <1>6 DEF Written, Same
  <1>8. IF c.first THEN Registered = {} /\ c.key = c.by
        ELSE Acts(c.by) /\ agents[c.by].delegates /\ agents[c.by].tenant \in {"*", TenantOf[c.key]}
    BY <1>2 DEF Standing
  <1>9. trusted' = trusted \/ Registered = {}
    BY <1>1, <1>8
  <1>10. EndsOnce(c.key)'
    <2>1. \A m \in DOMAIN events : events[m].ends # c.key
      BY <1>1 DEF InTurn, TablesInTurn, EventIsBacked
    <2>2. Endings(c.key)' = {}
      BY <1>1, <2>1 DEF Endings
    <2> QED BY <1>4, <2>2 DEF EndsOnce
  <1>11. RowIsBacked(c.key)'
    <2>1. CASE c.first
      BY <1>1, <1>4, <1>6, <1>8, <2>1 DEF RowIsBacked
    <2>2. CASE ~c.first
      <3>1. c.by \in Registered /\ Backing(c.by, at) /\ agents'[c.by] = agents[c.by] /\ c.by # c.key
        BY <1>2, <1>4, <1>6, <1>8, <2>2, ActingBacks DEF Acts
      <3>2. Backing(c.by, at)'
        BY <1>6, <3>1 DEF Backing, InForce
      <3> QED BY <1>4, <1>6, <1>8, <2>2, <3>1, <3>2 DEF RowIsBacked, Backing, InForce
    <2> QED BY <2>1, <2>2
  <1>12. ASSUME NEW j \in Registered', agents'[j].identity = agents'[c.key].identity PROVE j = c.key
    <2> SUFFICES ASSUME j \in Registered PROVE FALSE
      BY <1>6
    <2>1. agents[j].identity \in Registered /\ agents'[j] = agents[j]
      BY <1>4, <1>6 DEF InTurn, TablesInTurn, RowIsBacked
    <2> QED BY <1>1, <1>4, <1>12, <2>1
  <1>13. DOMAIN events' \ DOMAIN events = {}
    BY <1>1
  <1>14. InTurn'
    BY <1>1, <1>2, <1>7, <1>9, <1>10, <1>11, <1>12, <1>13, WrittenKeeps
  <1> QED BY <1>2, <1>4, <1>7, <1>14

(* A key that acts has not been ended by any event. *)
LEMMA ActingIsUnended ==
  ASSUME IdentityInv, InTurn, NEW k, Acts(k)
  PROVE  /\ k \in Registered /\ k \in Key /\ agents[k].until = None
         /\ Endings(k) = {} /\ agents[k].status = "active"
  <1>1. k \in Registered /\ agents[k].until = None /\ EndsOnce(k) /\ k \in Key
    BY RowFields DEF Acts, InTurn, TablesInTurn
  <1>2. \A m \in DOMAIN events : events[m].at \in Nat
    BY EventFields DEF IdentityInv, TypeOK
  <1> QED BY <1>1, <1>2, NoneIsNoTime DEF EndsOnce

LEMMA OneMoreEvent ==
  ASSUME NEW s \in Seq(Event), NEW e
  PROVE  \E n : /\ n \notin DOMAIN s /\ DOMAIN Append(s, e) = DOMAIN s \cup {n}
                /\ Append(s, e)[n] = e
                /\ \A m \in DOMAIN s : Append(s, e)[m] = s[m]
  <1>1. Len(s) \in Nat /\ DOMAIN s = 1..Len(s) /\ DOMAIN Append(s, e) = 1..(Len(s) + 1)
    OBVIOUS
  <1>2. Len(s) + 1 \notin DOMAIN s /\ DOMAIN Append(s, e) = DOMAIN s \cup {Len(s) + 1}
    BY <1>1
  <1>3. Append(s, e)[Len(s) + 1] = e /\ \A m \in DOMAIN s : Append(s, e)[m] = s[m]
    BY <1>1
  <1> QED BY <1>2, <1>3

LEMMA RotateInTurn ==
  ASSUME IdentityInv, InTurn, IdentityInv', [Next]_vars, NEW p \in Proc, RotateCommit(p)
  PROVE  /\ InTurn'
         /\ \E k \in Registered, n \in Key : \E at :
              /\ Written(at, {k}, {n})
              /\ agents[k].until = None /\ agents'[n].identity = agents[k].identity
  <1>0. PICK c, at, r : c = op[p].do /\ at = op[p].at /\ r = agents[c.key]
    OBVIOUS
  <1>1. /\ Ready(p, "rotate") /\ c.new \notin Registered /\ now' = now + 1 /\ Return(p)
        /\ agents' = [agents EXCEPT
             ![c.key] = IF r.status = "active" THEN [r EXCEPT !.status = "rotated", !.until = at] ELSE r,
             ![c.new] = [by |-> c.by, identity |-> r.identity, tenant |-> r.tenant,
                         delegates |-> r.delegates, from |-> at,
                         status |-> "active", until |-> None]]
        /\ trusted' = trusted
        /\ events' = Append(events, [type |-> "ROTATE", ends |-> c.key, identity |-> r.identity,
                                     tenant |-> r.tenant, at |-> at, by |-> c.by])
    BY <1>0 DEF RotateCommit, Transaction
  <1>2. /\ Standing(c) /\ c.call = "rotate" /\ c \in Call
        /\ at \in Nat /\ at <= now /\ TablesBefore(at)
        /\ \A q \in Proc : op[q] # Idle => q = p
    BY <1>0, <1>1, ReadyInTurn
  <1>3. c.new \in Key
    BY <1>2, CallKinds
  <1>4. /\ Acts(c.by) /\ agents[c.by].delegates /\ Acts(c.key) /\ c.key # c.by
        /\ agents[c.by].tenant \in {"*", r.tenant}
    BY <1>0, <1>2 DEF Standing
  <1>5. /\ c.key \in Registered /\ c.key \in Key /\ r.until = None /\ r.status = "active" /\ Endings(c.key) = {}
        /\ c.by \in Registered /\ c.by \in Key
    BY <1>0, <1>4, ActingIsUnended
  <1>6. /\ agents \in [Key -> Row \cup {None}] /\ events \in Seq(Event)
        /\ r \in Row /\ r.identity \in Registered
    BY <1>0, <1>5, RowOf DEF IdentityInv, TypeOK, InTurn, TablesInTurn, RowIsBacked
  <1>7. c.key # c.new /\ c.by # c.new
    BY <1>1, <1>5
  <1>8. agents'[c.key].until = at /\ agents'[c.key].status = "rotated" /\ agents'[c.key].identity = r.identity
    BY <1>1, <1>3, <1>5, <1>6, <1>7 DEF Row
  <1>9. /\ agents'[c.new].by = c.by /\ agents'[c.new].identity = r.identity /\ agents'[c.new].tenant = r.tenant
        /\ agents'[c.new].from = at /\ agents'[c.new].status = "active" /\ agents'[c.new].until = None
        /\ \A k \in Key \ {c.key, c.new} : agents'[k] = agents[k]
    BY <1>1, <1>3, <1>5, <1>6, <1>7
  <1>10. agents'[c.new] # None
    <2> DEFINE row == [by |-> c.by, identity |-> r.identity, tenant |-> r.tenant,
                       delegates |-> r.delegates, from |-> at, status |-> "active", until |-> None]
    <2>1. row \in Row
      BY <1>2, <1>5, <1>6 DEF Row
    <2>2. agents'[c.new] = row
      BY <1>1, <1>3, <1>6, <1>7
    <2> HIDE DEF row
    <2> QED BY <2>1, <2>2, NoneAssumption
  <1>11. Registered' = Registered \cup {c.new} /\ \A k \in Registered : k \in Key /\ k # c.new
    <2>1. \A k \in Registered : k \in Key /\ k # c.new /\ agents'[k] # None
      BY <1>1, KeptStep, RowFields
    <2> QED BY <1>3, <1>5, <1>9, <1>10, <2>1 DEF Registered
  <1>12. PICK n : /\ n \notin DOMAIN events /\ DOMAIN events' = DOMAIN events \cup {n}
                  /\ events'[n] = [type |-> "ROTATE", ends |-> c.key, identity |-> r.identity,
                                   tenant |-> r.tenant, at |-> at, by |-> c.by]
                  /\ \A m \in DOMAIN events : events'[m] = events[m]
    BY <1>1, <1>6, OneMoreEvent
  <1>13. Written(at, {c.key}, {c.new})
    <2>1. \A k \in Registered \ {c.key} : Same(k)
      BY <1>9, <1>11 DEF Same
    <2>2. agents[c.key].until = None /\ {c.key} \subseteq Registered /\ {c.new} \cap Registered = {}
      BY <1>0, <1>1, <1>5
    <2>3. \A m \in DOMAIN events' \ DOMAIN events : events'[m].at = at /\ events'[m].ends = c.key
      BY <1>12
    <2>4. \A m \in DOMAIN events : m \in DOMAIN events' /\ events'[m] = events[m]
      BY <1>12
    <2> QED BY ONLY <1>1, <1>2, <1>8, <1>9, <1>11, <2>1, <2>2, <2>3, <2>4 DEF Written
  <1>14. EndsOnce(c.key)'
    <2>1. Endings(c.key)' = {n}
      BY <1>5, <1>12 DEF Endings
    <2> QED BY <1>8, <1>12, <2>1 DEF EndsOnce
  <1>15. EndsOnce(c.new)'
    <2>1. \A m \in DOMAIN events : events[m].ends # c.new
      BY <1>1 DEF InTurn, TablesInTurn, EventIsBacked
    <2>2. Endings(c.new)' = {}
      BY <1>7, <1>12, <2>1 DEF Endings
    <2> QED BY <1>9, <2>2 DEF EndsOnce
  <1>16. Backing(c.by, at)' /\ agents'[c.by].tenant = agents[c.by].tenant
    <2>1. Backing(c.by, at) /\ agents'[c.by] = agents[c.by]
      BY <1>2, <1>4, <1>5, <1>7, <1>9, ActingBacks
    <2> QED BY <1>5, <1>11, <2>1 DEF Backing, InForce
  <1>17. RowIsBacked(c.new)'
    BY <1>4, <1>6, <1>7, <1>9, <1>11, <1>16 DEF RowIsBacked, Backing, InForce
  <1>18. EventIsBacked(n)'
    BY <1>4, <1>5, <1>11, <1>12, <1>16 DEF EventIsBacked, Backing, InForce
  <1>19. ASSUME NEW j \in Registered', agents'[j].identity = agents'[c.new].identity, agents'[j].until = None
         PROVE  j = c.new
    <2> SUFFICES ASSUME j \in Registered, j # c.new PROVE FALSE
      BY <1>11
    <2>1. j # c.key
      BY <1>2, <1>8, <1>19, NoneIsNoTime
    <2>2. agents'[j] = agents[j]
      BY <1>9, <1>11, <2>1
    <2>3. agents[j].identity = agents[c.key].identity /\ agents[j].until = None /\ agents[c.key].until = None
      BY <1>0, <1>5, <1>9, <1>19, <2>2
    <2> QED BY <1>5, <2>1, <2>3 DEF InTurn, TablesInTurn, OneActingKey
  <1>20. DOMAIN events' \ DOMAIN events = {n}
    BY <1>12
  <1>21. \A k \in {c.key} \cup {c.new} : EndsOnce(k)'
    BY <1>14, <1>15
  <1>22. \A k \in {c.new} : RowIsBacked(k)'
    BY <1>17
  <1>23. \A m \in DOMAIN events' \ DOMAIN events : EventIsBacked(m)'
    BY <1>18, <1>20
  <1>24. \A k \in {c.new}, j \in Registered' :
           agents'[j].identity = agents'[k].identity /\ agents'[j].until = None => j = k
    BY <1>19
  <1>25. Return(p) /\ trusted' = trusted /\ \A q \in Proc : op[q] # Idle => q = p
    BY <1>1, <1>2
  <1>26. InTurn'
    BY <1>13, <1>21, <1>22, <1>23, <1>24, <1>25, WrittenKeeps
  <1>27. agents[c.key].until = None /\ agents'[c.new].identity = agents[c.key].identity
    BY <1>0, <1>5, <1>9
  <1> QED BY <1>3, <1>5, <1>13, <1>26, <1>27

LEMMA RevokeInTurn ==
  ASSUME IdentityInv, InTurn, IdentityInv', [Next]_vars, NEW p \in Proc, RevokeCommit(p)
  PROVE  /\ InTurn'
         /\ \E k \in Registered : \E at : Written(at, {k}, {}) /\ agents[k].until = None
  <1>0. PICK c, at, r : c = op[p].do /\ at = op[p].at /\ r = agents[c.key]
    OBVIOUS
  <1>1. /\ Ready(p, "revoke") /\ now' = now + 1 /\ Return(p)
        /\ agents' = (IF r.status = "active"
                        THEN [agents EXCEPT ![c.key].status = "revoked", ![c.key].until = at]
                        ELSE agents)
        /\ trusted' = trusted
        /\ events' = Append(events, [type |-> "REVOKE", ends |-> c.key, identity |-> r.identity,
                                     tenant |-> r.tenant, at |-> at, by |-> c.by])
    BY <1>0 DEF RevokeCommit, Transaction
  <1>2. /\ Standing(c) /\ c.call = "revoke"
        /\ at \in Nat /\ at <= now /\ TablesBefore(at)
        /\ \A q \in Proc : op[q] # Idle => q = p
    BY <1>0, <1>1, ReadyInTurn
  <1>4. Acts(c.by) /\ agents[c.by].delegates /\ Acts(c.key) /\ c.key # c.by
    BY <1>2 DEF Standing
  <1>5. /\ c.key \in Registered /\ c.key \in Key /\ r.until = None /\ r.status = "active" /\ Endings(c.key) = {}
        /\ c.by \in Registered /\ c.by \in Key
    BY <1>0, <1>4, ActingIsUnended
  <1>6. agents \in [Key -> Row \cup {None}] /\ events \in Seq(Event) /\ r \in Row
    BY <1>0, <1>5, RowOf DEF IdentityInv, TypeOK
  <1>8. /\ agents'[c.key].until = at /\ agents'[c.key].status = "revoked"
        /\ \A k \in Key \ {c.key} : agents'[k] = agents[k]
    <2>1. agents' = [agents EXCEPT ![c.key] = [r EXCEPT !.status = "revoked", !.until = at]]
      BY <1>0, <1>1, <1>5, <1>6
    <2> QED BY <1>5, <1>6, <2>1 DEF Row
  <1>11. Registered' = Registered
    <2>1. \A k \in Registered : k \in Key /\ agents'[k] # None
      BY KeptStep, RowFields
    <2> QED BY <1>5, <1>8, <2>1 DEF Registered
  <1>12. PICK n : /\ n \notin DOMAIN events /\ DOMAIN events' = DOMAIN events \cup {n}
                  /\ events'[n] = [type |-> "REVOKE", ends |-> c.key, identity |-> r.identity,
                                   tenant |-> r.tenant, at |-> at, by |-> c.by]
                  /\ \A m \in DOMAIN events : events'[m] = events[m]
    BY <1>1, <1>6, OneMoreEvent
  <1>13. Written(at, {c.key}, {})
    <2>1. \A k \in Registered \ {c.key} : Same(k)
      BY <1>8, RowFields DEF Same
    <2>2. agents[c.key].until = None /\ {c.key} \subseteq Registered
      BY <1>0, <1>5
    <2>3. \A m \in DOMAIN events' \ DOMAIN events : events'[m].at = at /\ events'[m].ends = c.key
      BY <1>12
    <2>4. \A m \in DOMAIN events : m \in DOMAIN events' /\ events'[m] = events[m]
      BY <1>12
    <2> QED BY ONLY <1>1, <1>2, <1>8, <1>11, <2>1, <2>2, <2>3, <2>4 DEF Written
  <1>14. EndsOnce(c.key)'
    <2>1. Endings(c.key)' = {n}
      BY <1>5, <1>12 DEF Endings
    <2> QED BY <1>8, <1>12, <2>1 DEF EndsOnce
  <1>16. Backing(c.by, at)'
    <2>1. Backing(c.by, at) /\ agents'[c.by] = agents[c.by]
      BY <1>2, <1>4, <1>5, <1>8, ActingBacks
    <2> QED BY <1>5, <1>11, <2>1 DEF Backing, InForce
  <1>18. EventIsBacked(n)'
    BY <1>5, <1>11, <1>12, <1>16 DEF EventIsBacked, Backing, InForce
  <1>20. DOMAIN events' \ DOMAIN events = {n}
    BY <1>12
  <1>21. InTurn'
    BY <1>1, <1>2, <1>13, <1>14, <1>18, <1>20, WrittenKeeps
  <1> QED BY <1>0, <1>5, <1>13, <1>21

-----------------------------------------------------------------------------
(* The steps that leave the tables as they are. *)

LEMMA ActiveActs ==
  ASSUME IdentityInv, InTurn, NEW k, ActiveAt(k, now)
  PROVE  Acts(k)
  <1>1. k \in Registered /\ (agents[k].until # None => now < agents[k].until)
    BY DEF ActiveAt, InForce
  <1>2. agents[k].until # None => agents[k].until < now
    BY <1>1 DEF InTurn, TablesInTurn, TablesBefore
  <1>3. now \in Nat /\ agents[k].until \in Nat \cup {None}
    BY <1>1, RowFields DEF IdentityInv, TypeOK
  <1> QED BY <1>1, <1>2, <1>3 DEF Acts

LEMMA SameTables ==
  ASSUME UNCHANGED tables
  PROVE  /\ Registered' = Registered
         /\ \A t : TablesBefore(t)' <=> TablesBefore(t)
         /\ \A c : Standing(c)' <=> Standing(c)
         /\ TablesInTurn /\ (TablesBefore(now) => TablesBefore(now)') => TablesInTurn'
  <1>1. UNCHANGED <<agents, events, trusted>> /\ Registered' = Registered
    BY DEF tables, Registered
  <1>2. \A t : TablesBefore(t)' <=> TablesBefore(t)
    BY <1>1 DEF TablesBefore
  <1>3. \A c : Standing(c)' <=> Standing(c)
    BY <1>1 DEF Standing, Acts
  <1>4. \A k : EndsOnce(k)' <=> EndsOnce(k)
    BY <1>1 DEF EndsOnce, Endings
  <1>5. \A k : RowIsBacked(k)' <=> RowIsBacked(k)
    BY <1>1 DEF RowIsBacked, Backing, InForce
  <1>6. \A m : EventIsBacked(m)' <=> EventIsBacked(m)
    BY <1>1 DEF EventIsBacked, Backing, InForce
  <1>7. OneActingKey' <=> OneActingKey
    BY <1>1 DEF OneActingKey
  <1>8. TablesInTurn /\ (TablesBefore(now) => TablesBefore(now)') => TablesInTurn'
    BY <1>1, <1>4, <1>5, <1>6, <1>7 DEF TablesInTurn
  <1> QED BY <1>1, <1>2, <1>3, <1>8

LEMMA EnterInTurn ==
  ASSUME IdentityInv, InTurn, NEW p \in Proc, NEW c, Standing(c), Enter(p, c), ~overlapped'
  PROVE  InTurn'
  <1>1. \A q \in Proc \ {p} : op[q] = Idle
    BY DEF Enter
  <1>2. /\ op'[p] = [step |-> "checked", do |-> c]
        /\ \A q \in Proc \ {p} : op'[q] = op[q]
    BY DEF Enter, IdentityInv, TypeOK
  <1>3. UNCHANGED tables /\ now' = now
    BY DEF Enter
  <1>4. TablesInTurn'
    <2>1. TablesInTurn /\ (TablesBefore(now)' <=> TablesBefore(now))
      BY <1>3 DEF InTurn, TablesBefore, tables, Registered
    <2> QED BY <1>3, <2>1, SameTables
  <1>5. Standing(c)'
    BY <1>3, SameTables
  <1>6. \A q \in Proc : op'[q] # Idle => q = p
    BY <1>1, <1>2
  <1>7. CallInTurn(p)'
    BY <1>2, <1>5, <1>6 DEF CallInTurn, Idle
  <1>8. \A q \in Proc : CallInTurn(q)'
    BY <1>6, <1>7 DEF CallInTurn, Idle
  <1> QED BY <1>4, <1>8 DEF InTurn

LEMMA CheckInTurn ==
  ASSUME IdentityInv, InTurn, ~overlapped', NEW p \in Proc, NEW s \in Signer, NEW k \in Key,
         \/ RegisterCheck(p, s, k) \/ RevokeCheck(p, s, k)
         \/ \E new \in Key : RotateCheck(p, s, k, new)
  PROVE  InTurn'
  <1>1. MayDelegate(s) => Acts(s) /\ agents[s].delegates
    BY ActiveActs DEF MayDelegate
  <1>2. CASE RegisterCheck(p, s, k)
    <2> DEFINE c == [call |-> "register", by |-> s, key |-> k, first |-> Registered = {}]
    <2>1. c.call = "register" /\ c.by = s /\ c.key = k /\ c.first = (Registered = {})
      OBVIOUS
    <2>2. IF Registered = {} THEN k = s ELSE MayDelegate(s) /\ agents[s].tenant \in {"*", TenantOf[k]}
      BY <1>2 DEF RegisterCheck
    <2>3. Enter(p, c)
      BY <1>2 DEF RegisterCheck
    <2> HIDE DEF c
    <2>4. Standing(c)
      BY <1>1, <2>1, <2>2 DEF Standing
    <2> QED BY <2>3, <2>4, EnterInTurn
  <1>3. CASE RevokeCheck(p, s, k)
    <2> DEFINE c == [call |-> "revoke", by |-> s, key |-> k]
    <2>1. k # s /\ Acts(k) /\ Acts(s) /\ agents[s].delegates /\ Enter(p, c)
      BY <1>1, <1>3, ActiveActs DEF RevokeCheck
    <2>2. Standing(c)
      BY <2>1 DEF Standing
    <2> QED BY <2>1, <2>2, EnterInTurn
  <1>4. ASSUME NEW new \in Key, RotateCheck(p, s, k, new) PROVE InTurn'
    <2> DEFINE c == [call |-> "rotate", by |-> s, key |-> k, new |-> new]
    <2>1. /\ k # s /\ Acts(k) /\ Acts(s) /\ agents[s].delegates /\ Enter(p, c)
          /\ agents[s].tenant \in {"*", agents[k].tenant}
      BY <1>1, <1>4, ActiveActs DEF RotateCheck
    <2>2. Standing(c)
      BY <2>1 DEF Standing
    <2> QED BY <2>1, <2>2, EnterInTurn
  <1> QED BY <1>2, <1>3, <1>4

LEMMA StampInTurn ==
  ASSUME IdentityInv, InTurn, NEW p \in Proc, Stamp(p)
  PROVE  InTurn'
  <1>1. /\ op'[p] = [step |-> "stamped", do |-> op[p].do, at |-> now]
        /\ \A q \in Proc \ {p} : op'[q] = op[q]
    BY DEF Stamp, IdentityInv, TypeOK
  <1>2. UNCHANGED tables /\ now' = now /\ op[p] # Idle /\ now \in Nat
    BY DEF Stamp, Idle, IdentityInv, TypeOK
  <1>3. TablesInTurn' /\ \A c : Standing(c)' <=> Standing(c)
    <2>1. TablesInTurn /\ (TablesBefore(now)' <=> TablesBefore(now))
      BY <1>2 DEF InTurn, TablesBefore, tables, Registered
    <2> QED BY <1>2, <2>1, SameTables
  <1>4. Standing(op[p].do) /\ \A q \in Proc : op[q] # Idle => q = p
    BY <1>2 DEF InTurn, CallInTurn
  <1>5. \A q \in Proc : op'[q] # Idle => q = p
    BY <1>1, <1>4
  <1>6. TablesBefore(now)'
    BY <1>3 DEF TablesInTurn
  <1>7. PICK c : c = op[p].do
    OBVIOUS
  <1>8. Standing(c)' /\ op'[p].do = c /\ op'[p].at = now' /\ now' <= now'
    BY <1>1, <1>2, <1>3, <1>4, <1>7
  <1>9. (Standing(op[p].do))' /\ (TablesBefore(op[p].at))'
    BY <1>6, <1>8 DEF Standing, Acts, TablesBefore
  <1>10. CallInTurn(p)'
    BY <1>5, <1>8, <1>9 DEF CallInTurn
  <1>11. \A q \in Proc : CallInTurn(q)'
    BY <1>5, <1>10 DEF CallInTurn, Idle
  <1> QED BY <1>3, <1>11 DEF InTurn

(* Returning, failing, dying and the clock. *)
LEMMA OtherInTurn ==
  ASSUME IdentityInv, InTurn, UNCHANGED tables,
         now' \in Nat, now <= now',
         \A q \in Proc : op'[q] = op[q] \/ op'[q] = Idle
  PROVE  InTurn'
  <1>1. now \in Nat /\ TablesBefore(now) /\ TablesInTurn
    BY DEF InTurn, TablesInTurn, IdentityInv, TypeOK
  <1>2. TablesBefore(now)'
    <2>1. UNCHANGED <<agents, events>> /\ Registered' = Registered
      BY DEF tables, Registered
    <2>2. \A k \in Registered : agents[k].from \in Nat /\ agents[k].until \in Nat \cup {None}
      BY RowFields
    <2>3. \A m \in DOMAIN events : events[m].at \in Nat
      BY EventFields DEF IdentityInv, TypeOK
    <2>4. \A i \in Nat : i < now => i < now'
      BY <1>1
    <2> QED BY <1>1, <2>1, <2>2, <2>3, <2>4 DEF TablesBefore
  <1>3. TablesInTurn'
    BY <1>1, <1>2, SameTables
  <1>4. ASSUME NEW q \in Proc, op'[q] # Idle PROVE CallInTurn(q)'
    <2>1. PICK c, at : c = op[q].do /\ at = op[q].at
      OBVIOUS
    <2>2. op'[q] = op[q] /\ op[q] # Idle
      BY <1>4
    <2>3. CallInTurn(q) /\ (op[q].step = "stamped" => op[q].at \in Nat)
      BY <2>2, CallFields DEF InTurn, IdentityInv, TypeOK
    <2>4. \A r \in Proc : op'[r] # Idle => r = q
      BY <2>2, <2>3 DEF CallInTurn
    <2>5. Standing(c)' /\ (op[q].step = "stamped" => at <= now' /\ TablesBefore(at)')
      BY <1>1, <2>1, <2>2, <2>3, SameTables DEF CallInTurn
    <2>6. (Standing(op[q].do))' /\ (op'[q].step = "stamped" => op'[q].at <= now' /\ (TablesBefore(op[q].at))')
      BY <2>1, <2>2, <2>5 DEF Standing, Acts, TablesBefore
    <2> QED BY <2>4, <2>6 DEF CallInTurn
  <1>5. \A q \in Proc : CallInTurn(q)'
    BY <1>4 DEF CallInTurn, Idle
  <1> QED BY <1>3, <1>5 DEF InTurn

-----------------------------------------------------------------------------
(* A step either leaves the tables or is one of the three transactions.    *)
LEMMA StepsInTurn ==
  ASSUME IdentityInv, IdentityInv', InTurn, [Next]_vars, ~overlapped'
  PROVE  /\ InTurn'
         /\ \/ UNCHANGED tables
            \/ \E k \in Key : \E at : Written(at, {}, {k}) /\ agents'[k].identity = k
            \/ \E k \in Registered, n \in Key : \E at :
                 /\ Written(at, {k}, {n})
                 /\ agents[k].until = None /\ agents'[n].identity = agents[k].identity
            \/ \E k \in Registered : \E at : Written(at, {k}, {}) /\ agents[k].until = None
  <1>0. now \in Nat /\ now' \in Nat /\ op \in [Proc -> Calls]
    BY DEF IdentityInv, TypeOK
  <1>1. ASSUME NEW p \in Proc, NEW s \in Signer, NEW k \in Key,
               \/ RegisterCheck(p, s, k) \/ RevokeCheck(p, s, k)
               \/ \E new \in Key : RotateCheck(p, s, k, new)
        PROVE  InTurn' /\ UNCHANGED tables
    <2>1. InTurn'
      BY <1>1, CheckInTurn
    <2> QED BY <1>1, <2>1 DEF RegisterCheck, RevokeCheck, RotateCheck, Enter
  <1>2. ASSUME NEW p \in Proc, Stamp(p) PROVE InTurn' /\ UNCHANGED tables
    <2>1. InTurn'
      BY <1>2, StampInTurn
    <2> QED BY <1>2, <2>1 DEF Stamp
  <1>3. ASSUME NEW p \in Proc, RegisterRollback(p) \/ RotateRollback(p) \/ Crash(p)
        PROVE  InTurn' /\ UNCHANGED tables
    <2>1. UNCHANGED tables /\ now' = now /\ op' = [op EXCEPT ![p] = Idle]
      BY <1>3 DEF RegisterRollback, RotateRollback, Crash, Return
    <2>2. now' \in Nat /\ now <= now' /\ \A q \in Proc : op'[q] = op[q] \/ op'[q] = Idle
      BY <1>0, <2>1
    <2> QED BY <2>1, <2>2, OtherInTurn
  <1>4. ASSUME Tick \/ UNCHANGED vars PROVE InTurn' /\ UNCHANGED tables
    <2>1. UNCHANGED tables /\ now <= now' /\ op' = op
      BY <1>0, <1>4 DEF Tick, vars
    <2> QED BY <1>0, <2>1, OtherInTurn
  <1> QED BY <1>1, <1>2, <1>3, <1>4, RegisterInTurn, RotateInTurn, RevokeInTurn DEF Next

LEMMA OverlapsStay ==
  ASSUME [Next]_vars, overlapped
  PROVE  overlapped'
  <1>1. ASSUME NEW p \in Proc, NEW s \in Signer, NEW k \in Key,
               \/ RegisterCheck(p, s, k) \/ RevokeCheck(p, s, k)
               \/ \E new \in Key : RotateCheck(p, s, k, new)
        PROVE  overlapped'
    <2>1. \E c : Enter(p, c)
      BY <1>1 DEF RegisterCheck, RevokeCheck, RotateCheck
    <2> QED BY <2>1 DEF Enter
  <1>2. ASSUME NEW p \in Proc,
               \/ RegisterInsert(p) \/ RegisterRollback(p) \/ RotateCommit(p) \/ RotateRollback(p)
               \/ RevokeCommit(p) \/ Crash(p)
        PROVE  overlapped'
    <2>1. Return(p)
      BY <1>2 DEF RegisterInsert, RegisterRollback, RotateCommit, RotateRollback, RevokeCommit, Crash
    <2> QED BY <2>1 DEF Return
  <1>3. ASSUME NEW p \in Proc, Stamp(p) PROVE overlapped'
    BY <1>3 DEF Stamp
  <1>4. CASE Tick \/ UNCHANGED vars
    BY <1>4 DEF Tick, vars
  <1> QED BY <1>1, <1>2, <1>3, <1>4 DEF Next

LEMMA TurnInvHolds == Spec => []TurnInv
  <1>1. Init => TurnInv
    <2> SUFFICES ASSUME Init PROVE TurnInv
      OBVIOUS
    <2>1. Registered = {} /\ DOMAIN events = {} /\ \A p \in Proc : op[p] = Idle
      BY DEF Init, Registered
    <2>2. InTurn
      BY <2>1 DEF InTurn, TablesInTurn, TablesBefore, OneActingKey, CallInTurn
    <2> QED BY <2>2, InitHolds DEF TurnInv
  <1>2. TurnInv /\ [Next]_vars => TurnInv'
    <2> SUFFICES ASSUME TurnInv, [Next]_vars PROVE TurnInv'
      OBVIOUS
    <2>1. IdentityInv /\ IdentityInv'
      BY InvStep DEF TurnInv
    <2>2. ASSUME ~overlapped' PROVE InTurn'
      <3>1. InTurn
        BY <2>1, <2>2, OverlapsStay DEF TurnInv
      <3> QED BY <2>1, <2>2, <3>1, StepsInTurn
    <2> QED BY <2>1, <2>2 DEF TurnInv
  <1> QED BY <1>1, <1>2, PTL DEF Spec

(* What InTurn says of endings is what verification compares.              *)
LEMMA ColumnsMatch ==
  ASSUME events \in Seq(Event), NEW k, EndsOnce(k)
  PROVE  ColumnsMatchEvents(k)
  <1>1. CASE Endings(k) = {}
    BY <1>1 DEF EndsOnce, ColumnsMatchEvents
  <1>2. CASE Endings(k) # {}
    <2>1. PICK m \in DOMAIN events :
            /\ Endings(k) = {m}
            /\ agents[k].until = events[m].at
            /\ agents[k].status = IF events[m].type = "ROTATE" THEN "rotated" ELSE "revoked"
      BY <1>2 DEF EndsOnce
    <2>2. m \in Nat
      OBVIOUS
    <2>3. FirstEnding(k) = m
      BY <2>1, <2>2 DEF FirstEnding
    <2> QED BY <1>2, <2>1, <2>3 DEF ColumnsMatchEvents
  <1> QED BY <1>1, <1>2

LEMMA AllVerifyInTurn ==
  ASSUME IdentityInv, InTurn, Reliable
  PROVE  EveryKeyVerifies
  <1>1. TypeOK /\ events \in Seq(Event)
    BY DEF IdentityInv, TypeOK
  <1>2. \A k \in Registered : RowIsBacked(k) /\ ColumnsMatchEvents(k)
    BY <1>1, ColumnsMatch DEF InTurn, TablesInTurn
  <1>3. \A m \in DOMAIN events : EventIsBacked(m)
    BY DEF InTurn, TablesInTurn
  <1> QED BY <1>1, <1>2, <1>3, BackedKeysVerify

(* As long as calls take turns, registration, rotation and revocation      *)
(* leave a key unverifiable for one of three reasons only: it was revoked  *)
(* by an operator of another tenant, its authority runs in a circle, or    *)
(* its chain of registrars is longer than verify_agent_state_at follows.   *)
THEOREM EveryKeyAlwaysVerifiesInTurn == Spec => []EveryKeyVerifiesInTurn
  <1>1. TurnInv => EveryKeyVerifiesInTurn
    BY AllVerifyInTurn DEF TurnInv, EveryKeyVerifiesInTurn
  <1> QED BY <1>1, TurnInvHolds, PTL

-----------------------------------------------------------------------------
(* The lifeline of an identity *)

(* The keys that act for i: as its rows say, and as verification finds.    *)
ActingRows(i) == {k \in Registered : agents[k].identity = i /\ agents[k].until = None}
ActingNow == [i \in Key |-> {k \in Registered : agents[k].identity = i /\ ActiveAt(k, now)}]

ActingAsRecorded == ~overlapped /\ Reliable => ActingNow = [i \in Key |-> ActingRows(i)]

LEMMA ActingIsRecorded == TurnInv => ActingAsRecorded
  <1> SUFFICES ASSUME TurnInv, ~overlapped, Reliable
               PROVE  \A i \in Key : {k \in Registered : agents[k].identity = i /\ ActiveAt(k, now)} = ActingRows(i)
    BY DEF ActingAsRecorded, ActingNow
  <1>1. IdentityInv /\ InTurn /\ EveryKeyVerifies
    BY AllVerifyInTurn DEF TurnInv
  <1>2. ASSUME NEW k \in Registered PROVE ActiveAt(k, now) <=> agents[k].until = None
    <2>1. /\ agents[k].from < now /\ (agents[k].until # None => agents[k].until < now) /\ Verified(k)
      BY <1>1 DEF InTurn, TablesInTurn, TablesBefore, EveryKeyVerifies
    <2>2. now \in Nat /\ agents[k].from \in Nat /\ agents[k].until \in Nat \cup {None}
      BY <1>1, RowFields DEF IdentityInv, TypeOK
    <2> QED BY <2>1, <2>2 DEF ActiveAt, InForce
  <1> QED BY <1>2 DEF ActingRows

(* A registry that can be relied on could be relied on before.             *)
LEMMA ReliableBefore ==
  ASSUME IdentityInv, InTurn, [Next]_vars, Reliable',
         \A m \in DOMAIN events : m \in DOMAIN events' /\ events'[m] = events[m]
  PROVE  Reliable
  <1>1. \A k \in Registered : /\ k \in Registered' /\ agents'[k].by = agents[k].by
                              /\ agents'[k].identity = agents[k].identity /\ agents'[k].tenant = agents[k].tenant
    BY KeptStep DEF Registered
  <1>2. ASSUME NEW m \in DOMAIN events, events[m].type = "REVOKE"
        PROVE  agents[events[m].by].tenant \in {"*", events[m].tenant}
    <2>1. events[m].by \in Registered
      BY DEF InTurn, TablesInTurn, EventIsBacked, Backing
    <2> QED BY <1>1, <1>2, <2>1 DEF Reliable, RevocationsInScope
  <1>3. AuthorityIsRanked
    BY <1>1 DEF Reliable, AuthorityIsRanked
  <1>4. ChainsAreShort
    BY <1>1 DEF Reliable, ChainsAreShort
  <1> QED BY <1>2, <1>3, <1>4 DEF Reliable, RevocationsInScope

LEMMA ActingChanges ==
  ASSUME IdentityInv, [Next]_vars, NEW at, NEW dead, NEW fresh, Written(at, dead, fresh), NEW i
  PROVE  ActingRows(i)' = (ActingRows(i) \ dead) \cup {k \in fresh : agents'[k].identity = i}
  <1>1. \A k \in Registered : agents'[k].identity = agents[k].identity
    BY KeptStep
  <1>2. \A k \in Registered \ dead : agents'[k].until = agents[k].until
    BY DEF Written, Same
  <1>3. \A k \in dead : agents'[k].until # None
    BY NoneIsNoTime DEF Written
  <1>4. \A k \in fresh : agents'[k].until = None /\ k \notin Registered
    BY DEF Written
  <1>5. Registered' = Registered \cup fresh /\ dead \subseteq Registered
    BY DEF Written
  <1> QED BY ONLY <1>1, <1>2, <1>3, <1>4, <1>5 DEF ActingRows

LEMMA LifelineStep ==
  ASSUME TurnInv, TurnInv', ActingAsRecorded, ActingAsRecorded', [Next]_vars
  PROVE  [overlapped' \/ ~Reliable' \/ L!Next]_(L!vars)
  <1> SUFFICES ASSUME ~overlapped', Reliable' PROVE L!Next \/ UNCHANGED L!vars
    OBVIOUS
  <1>1. IdentityInv /\ IdentityInv' /\ ~overlapped /\ InTurn /\ InTurn'
    BY OverlapsStay DEF TurnInv
  <1>2. \/ UNCHANGED tables
        \/ \E k \in Key : \E at : Written(at, {}, {k}) /\ agents'[k].identity = k
        \/ \E k \in Registered, n \in Key : \E at :
             /\ Written(at, {k}, {n})
             /\ agents[k].until = None /\ agents'[n].identity = agents[k].identity
        \/ \E k \in Registered : \E at : Written(at, {k}, {}) /\ agents[k].until = None
    BY <1>1, StepsInTurn
  <1>3. \A m \in DOMAIN events : m \in DOMAIN events' /\ events'[m] = events[m]
    BY <1>2 DEF Written, tables
  <1>4. Reliable
    BY <1>1, <1>3, ReliableBefore
  <1>5. PICK old, new : old = [i \in Key |-> ActingRows(i)] /\ new = [i \in Key |-> ActingRows(i)']
    OBVIOUS
  <1>6. /\ UNCHANGED L!vars <=> Registered' = Registered /\ new = old
        /\ \A i : L!Begin(i) <=> /\ i \notin Registered /\ Registered' = Registered \cup {i}
                                 /\ new = [old EXCEPT ![i] = {i}]
        /\ \A i, k : L!Rotate(i, k) <=> /\ k \notin Registered /\ Registered' = Registered \cup {k}
                                       /\ old[i] # {} /\ new = [old EXCEPT ![i] = {k}]
        /\ \A i : L!Revoke(i) <=> /\ Registered' = Registered
                                  /\ old[i] # {} /\ new = [old EXCEPT ![i] = {}]
    <2>1. ActingNow = old /\ ActingNow' = new
      BY <1>1, <1>4, <1>5 DEF ActingAsRecorded
    <2> QED BY <2>1 DEF ActingNow, L!vars, L!Begin, L!Rotate, L!Revoke
  <1>7. \A at, dead, fresh : Written(at, dead, fresh) =>
          /\ \A i \in Key : new[i] = (old[i] \ dead) \cup {k \in fresh : agents'[k].identity = i}
          /\ Registered' = Registered \cup fresh /\ fresh \cap Registered = {}
    BY <1>1, <1>5, ActingChanges DEF Written
  <1>8. ASSUME UNCHANGED tables PROVE UNCHANGED L!vars
    <2>1. Registered' = Registered /\ new = old
      BY <1>5, <1>8 DEF tables, Registered, ActingRows
    <2> QED BY <1>6, <2>1
  <1>9. ASSUME NEW k \in Key, NEW at, Written(at, {}, {k}), agents'[k].identity = k PROVE L!Next
    <2>1. k \notin Registered /\ Registered' = Registered \cup {k}
      BY <1>7, <1>9
    <2>2. \A j \in Registered : agents[j].identity # k
      BY <1>1, <2>1 DEF InTurn, TablesInTurn, RowIsBacked
    <2>3. old[k] = {}
      BY <1>5, <2>2 DEF ActingRows
    <2>4. \A i \in Key : new[i] = old[i] \cup {j \in {k} : k = i}
      BY <1>7, <1>9
    <2>5. new = [old EXCEPT ![k] = {k}]
      <3>1. new[k] = {k}
        BY <2>3, <2>4
      <3>2. ASSUME NEW i \in Key \ {k} PROVE new[i] = old[i]
        <4>1. {j \in {k} : k = i} = {}
          OBVIOUS
        <4> QED BY <2>4, <4>1
      <3> QED BY <1>5, <3>1, <3>2
    <2>6. L!Begin(k)
      BY <1>6, <2>1, <2>5
    <2> QED BY <2>6 DEF L!Next
  <1>10. ASSUME NEW k \in Registered, agents[k].until = None
         PROVE  \E i \in Key : i = agents[k].identity /\ old[i] = {k} /\ \A j \in Key \ {i} : k \notin old[j]
    <2>1. agents[k].identity \in Key
      BY <1>1, RowFields
    <2>2. \A j \in Registered : agents[j].identity = agents[k].identity /\ agents[j].until = None => j = k
      BY <1>1, <1>10 DEF InTurn, TablesInTurn, OneActingKey
    <2> QED BY <1>5, <1>10, <2>1, <2>2 DEF ActingRows
  <1>11. ASSUME NEW k \in Registered, NEW n \in Key, NEW at, Written(at, {k}, {n}),
                agents[k].until = None, agents'[n].identity = agents[k].identity
         PROVE  L!Next
    <2>1. PICK i \in Key : i = agents[k].identity /\ old[i] = {k} /\ \A j \in Key \ {i} : k \notin old[j]
      BY <1>10, <1>11
    <2>2. n \notin Registered /\ Registered' = Registered \cup {n}
      BY <1>7, <1>11
    <2>3. \A j \in Key : new[j] = (old[j] \ {k}) \cup {m \in {n} : i = j}
      BY <1>7, <1>11, <2>1
    <2>4. new[i] = {n} /\ \A j \in Key \ {i} : new[j] = old[j]
      <3>1. new[i] = ({k} \ {k}) \cup {m \in {n} : i = i}
        BY <2>1, <2>3
      <3>2. ASSUME NEW j \in Key \ {i} PROVE new[j] = old[j]
        <4>1. {m \in {n} : i = j} = {} /\ old[j] \ {k} = old[j]
          BY <2>1
        <4> QED BY <2>3, <4>1
      <3> QED BY <3>1, <3>2
    <2>5. old[i] # {} /\ new = [old EXCEPT ![i] = {n}]
      BY <1>5, <2>1, <2>4
    <2>6. L!Rotate(i, n)
      BY <1>6, <2>2, <2>5
    <2> QED BY <2>6 DEF L!Next
  <1>12. ASSUME NEW k \in Registered, NEW at, Written(at, {k}, {}), agents[k].until = None
         PROVE  L!Next
    <2>1. PICK i \in Key : i = agents[k].identity /\ old[i] = {k} /\ \A j \in Key \ {i} : k \notin old[j]
      BY <1>10, <1>12
    <2>2. Registered' = Registered
      BY <1>12 DEF Written
    <2>3. \A j \in Key : new[j] = old[j] \ {k}
      BY <1>7, <1>12
    <2>4. new[i] = {} /\ \A j \in Key \ {i} : new[j] = old[j]
      <3>1. new[i] = {k} \ {k}
        BY <2>1, <2>3
      <3>2. ASSUME NEW j \in Key \ {i} PROVE new[j] = old[j]
        <4>1. old[j] \ {k} = old[j]
          BY <2>1
        <4> QED BY <2>3, <4>1
      <3> QED BY <3>1, <3>2
    <2>5. old[i] # {} /\ new = [old EXCEPT ![i] = {}]
      BY <1>5, <2>1, <2>4
    <2>6. L!Revoke(i)
      BY <1>6, <2>2, <2>5
    <2> QED BY <2>6 DEF L!Next
  <1> QED BY <1>2, <1>8, <1>9, <1>11, <1>12

(* As long as calls take turns and the registry can be relied on, each     *)
(* step of registration, rotation and revocation is one of the lifeline: a *)
(* rotation hands an identity's only acting key to its successor, and a    *)
(* revocation leaves it none (rotate_agent, revoke_agent).                 *)
THEOREM IdentityFollowsLifelineInTurn == Spec => LifelineInTurn
  <1>1. Init => L!Init
    <2> SUFFICES ASSUME Init PROVE L!Init
      OBVIOUS
    <2>1. Registered = {}
      BY DEF Init, Registered
    <2> QED BY <2>1 DEF L!Init
  <1>2. TurnInv /\ TurnInv' /\ ActingAsRecorded /\ ActingAsRecorded' /\ [Next]_vars
          => [overlapped' \/ ~Reliable' \/ L!Next]_(L!vars)
    BY LifelineStep
  <1> QED BY <1>1, <1>2, TurnInvHolds, ActingIsRecorded, PTL DEF Spec, LifelineInTurn
=============================================================================
