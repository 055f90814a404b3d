------------------------------ MODULE Identity ------------------------------
(***************************************************************************)
(* The identity registry of the gate: registration by a delegating key,    *)
(* the bootstrap of the trusted root, rotation and revocation, and the     *)
(* verification of a key from its signed history (src/src/b2a.rs).         *)
(*                                                                         *)
(* A process loads the key file of one signer for a call.  A call checks,  *)
(* takes its time stamp and signs outside any transaction, and writes in   *)
(* one transaction at its end, so it is three actions: check, stamp, and   *)
(* commit or roll back.                                                    *)
(***************************************************************************)
EXTENDS Naturals, Sequences, FiniteSets

CONSTANTS
  Proc,       \* processes that call the registry
  Key,        \* public keys
  Signer,     \* the keys whose key files processes hold
  Charge,     \* [Signer -> SUBSET Key]: the keys its operator rotates or revokes
  TenantOf,   \* [Key -> tenant that its registration's metadata asks for]
  Delegator,  \* keys whose registration asks for can_delegate
  None,       \* no row, no value
  MaxChain,   \* the longest chain of registrars that is followed
  MaxTime     \* bound on the clock

ASSUME IdentityAssumption ==
  /\ IsFiniteSet(Key)
  /\ Signer \subseteq Key
  /\ Charge \in [Signer -> SUBSET Key]
  /\ Delegator \subseteq Key
  /\ None \notin Key
  /\ MaxChain \in Nat /\ MaxTime \in Nat

VARIABLES
  agents,      \* agents: the row of a public key
  events,      \* identity_lifecycle_events, in the order of insertion
  trusted,     \* the public key in trusted_roots
  op,          \* the call a process is inside of
  now,         \* the clock
  overlapped   \* history: have two calls ever been open at once?

tables == <<agents, events, trusted>>
vars == <<tables, op, now, overlapped>>

Tenant == {TenantOf[k] : k \in Key}

Row ==
  [by : Key, identity : Key, tenant : Tenant, delegates : BOOLEAN, from : Nat,
   status : {"active", "rotated", "revoked"}, until : Nat \cup {None}]

Event == [type : {"ROTATE", "REVOKE"}, ends : Key, identity : Key, tenant : Tenant, at : Nat, by : Key]

ASSUME NoneAssumption == None \notin Row \cup Nat

Registered == {k \in Key : agents[k] # None}

-----------------------------------------------------------------------------
(* Verification *)

(* The events that end k's time, and the earliest of them. *)
Endings(k) == {n \in DOMAIN events : events[n].ends = k}

FirstEnding(k) ==
  CHOOSE n \in Endings(k) :
    \A m \in Endings(k) :
      events[n].at < events[m].at \/ (events[n].at = events[m].at /\ n <= m)

(* The row's status and valid_until say what the signed events say. *)
ColumnsMatchEvents(k) ==
  IF Endings(k) = {}
    THEN agents[k].status = "active" /\ agents[k].until = None
    ELSE LET e == events[FirstEnding(k)] IN
         /\ agents[k].until = e.at
         /\ agents[k].status = IF e.type = "ROTATE" THEN "rotated" ELSE "revoked"

InForce(k, t) ==
  /\ agents[k].from <= t
  /\ agents[k].until # None => t < agents[k].until

(* verify_agent_state_at finds a state for k: each event of its identity   *)
(* and its registration were signed by a key that verifies too and was an  *)
(* active delegator in scope at the time, back to the trusted root.  The   *)
(* check of an event's signer starts afresh with `visited`, so a cycle     *)
(* through one never ends in the code; here n, deeper than any evaluation  *)
(* that ends can get, runs out.                                            *)
Verifies[n \in 0..(Cardinality(Key) + 1)] == [k \in Key |-> [visited \in SUBSET Key |->
  LET Backed(by, at, tenant, seen) ==
        /\ Verifies[n - 1][by][seen]
        /\ InForce(by, at)
        /\ agents[by].delegates
        /\ agents[by].tenant \in {"*", tenant}
  IN
  /\ n > 0
  /\ Cardinality(visited) <= MaxChain
  /\ k \notin visited
  /\ agents[k] # None
  /\ \A m \in DOMAIN events :
       events[m].identity = agents[k].identity =>
         Backed(events[m].by, events[m].at, events[m].tenant, {})
  /\ ColumnsMatchEvents(k)
  /\ IF agents[k].by = k
       THEN trusted = k
       ELSE Backed(agents[k].by, agents[k].from, agents[k].tenant, visited \cup {k})]]

Verified(k) == Verifies[Cardinality(Key) + 1][k][{}]

ActiveAt(k, t) == k \in Registered /\ Verified(k) /\ InForce(k, t)

(* gate_identity: the signer may act for the gate. *)
MayDelegate(s) == ActiveAt(s, now) /\ agents[s].delegates

-----------------------------------------------------------------------------
(* Calls *)

Idle == [step |-> "idle"]

Call ==
  [call : {"register"}, by : Signer, key : Key, first : BOOLEAN]
    \cup [call : {"rotate"}, by : Signer, key : Key, new : Key]
    \cup [call : {"revoke"}, by : Signer, key : Key]

Calls ==
  {Idle}
    \cup [step : {"checked"}, do : Call]
    \cup [step : {"stamped"}, do : Call, at : Nat]

Enter(p, c) ==
  /\ op' = [op EXCEPT ![p] = [step |-> "checked", do |-> c]]
  /\ overlapped' = (overlapped \/ \E q \in Proc \ {p} : op[q] # Idle)
  /\ UNCHANGED <<tables, now>>

(* Each call signs after it has checked; then its time stamp is fixed. *)
Stamp(p) ==
  /\ op[p].step = "checked"
  /\ op' = [op EXCEPT ![p] = [step |-> "stamped", do |-> op[p].do, at |-> now]]
  /\ UNCHANGED <<tables, now, overlapped>>

Ready(p, call) == op[p].step = "stamped" /\ op[p].do.call = call

Return(p) == op' = [op EXCEPT ![p] = Idle] /\ UNCHANGED overlapped

(* A transaction writes to disk (synchronous = FULL): the clock moves on. *)
Transaction == now < MaxTime /\ now' = now + 1

Init ==
  /\ agents = [k \in Key |-> None]
  /\ events = <<>>
  /\ trusted = None
  /\ op = [p \in Proc |-> Idle]
  /\ now = 0
  /\ overlapped = FALSE

-----------------------------------------------------------------------------
(* register_agent *)

(* The first registration is the signer's own and needs nobody. *)
RegisterCheck(p, s, k) ==
  LET first == Registered = {} IN
  /\ op[p] = Idle
  /\ k \notin Registered
  /\ IF first
       THEN k = s
       ELSE MayDelegate(s) /\ agents[s].tenant \in {"*", TenantOf[k]}
  /\ Enter(p, [call |-> "register", by |-> s, key |-> k, first |-> first])

(* Mutant of RegisterInsert: valid_from is left empty. *)
RegisterUndated(p) ==
  LET c == op[p].do IN
  /\ Ready(p, "register")
  /\ c.key \notin Registered
  /\ Transaction
  /\ agents' = [agents EXCEPT ![c.key] =
       [by |-> c.by, identity |-> c.key, tenant |-> TenantOf[c.key],
        delegates |-> c.first \/ c.key \in Delegator,
        from |-> None, status |-> "active", until |-> None]]
  /\ trusted' = IF c.first THEN c.key ELSE trusted
  /\ Return(p)
  /\ UNCHANGED events

RegisterInsert(p) ==
  LET c == op[p].do IN
  /\ Ready(p, "register")
  /\ c.key \notin Registered
  /\ Transaction
  /\ agents' = [agents EXCEPT ![c.key] =
       [by |-> c.by, identity |-> c.key, tenant |-> TenantOf[c.key],
        delegates |-> c.first \/ c.key \in Delegator,
        from |-> op[p].at, status |-> "active", until |-> None]]
  /\ trusted' = IF c.first THEN c.key ELSE trusted
  /\ Return(p)
  /\ UNCHANGED events

RegisterRollback(p) ==
  /\ Ready(p, "register")
  /\ op[p].do.key \in Registered
  /\ Return(p)
  /\ UNCHANGED <<tables, now>>

-----------------------------------------------------------------------------
(* rotate_agent *)

RotateCheck(p, s, k, new) ==
  /\ op[p] = Idle
  /\ k \in Charge[s] \ {s}
  /\ new \notin Registered
  /\ ActiveAt(k, now)
  /\ MayDelegate(s)
  /\ agents[s].tenant \in {"*", agents[k].tenant}
  /\ Enter(p, [call |-> "rotate", by |-> s, key |-> k, new |-> new])

(* Mutant of RotateCommit: the event names the new key as the retired one. *)
RotateCommitSwapped(p) ==
  LET c == op[p].do
      r == agents[c.key]
      retired == IF r.status = "active" THEN [r EXCEPT !.status = "rotated", !.until = op[p].at] ELSE r
  IN
  /\ Ready(p, "rotate")
  /\ c.new \notin Registered
  /\ Transaction
  /\ agents' = [agents EXCEPT
       ![c.key] = retired,
       ![c.new] = [by |-> c.by, identity |-> r.identity, tenant |-> r.tenant,
                   delegates |-> r.delegates, from |-> op[p].at,
                   status |-> "active", until |-> None]]
  /\ events' = Append(events, [type |-> "ROTATE", ends |-> c.new, identity |-> r.identity,
                               tenant |-> r.tenant, at |-> op[p].at, by |-> c.by])
  /\ Return(p)
  /\ UNCHANGED trusted

(* The update only touches a row that is still 'active'; the new row and   *)
(* the event are inserted either way.                                      *)
RotateCommit(p) ==
  LET c == op[p].do
      r == agents[c.key]
      retired == IF r.status = "active" THEN [r EXCEPT !.status = "rotated", !.until = op[p].at] ELSE r
  IN
  /\ Ready(p, "rotate")
  /\ c.new \notin Registered
  /\ Transaction
  /\ agents' = [agents EXCEPT
       ![c.key] = retired,
       ![c.new] = [by |-> c.by, identity |-> r.identity, tenant |-> r.tenant,
                   delegates |-> r.delegates, from |-> op[p].at,
                   status |-> "active", until |-> None]]
  /\ events' = Append(events, [type |-> "ROTATE", ends |-> c.key, identity |-> r.identity,
                               tenant |-> r.tenant, at |-> op[p].at, by |-> c.by])
  /\ Return(p)
  /\ UNCHANGED trusted

RotateRollback(p) ==
  /\ Ready(p, "rotate")
  /\ op[p].do.new \in Registered
  /\ Return(p)
  /\ UNCHANGED <<tables, now>>

-----------------------------------------------------------------------------
(* revoke_agent; its effect on permits is part of Gate.tla *)

(* Unlike rotate_agent, it does not compare the tenants. *)
RevokeCheck(p, s, k) ==
  /\ op[p] = Idle
  /\ k \in Charge[s] \ {s}
  /\ ActiveAt(k, now)
  /\ MayDelegate(s)
  /\ Enter(p, [call |-> "revoke", by |-> s, key |-> k])

(* Mutants of RevokeCommit: the row gets the time of the write, not of the *)
(* event; the update has no status = 'active'.                             *)
RevokeCommitRestamped(p) ==
  LET c == op[p].do
      r == agents[c.key]
  IN
  /\ Ready(p, "revoke")
  /\ Transaction
  /\ agents' = IF r.status = "active"
                 THEN [agents EXCEPT ![c.key].status = "revoked", ![c.key].until = now]
                 ELSE agents
  /\ events' = Append(events, [type |-> "REVOKE", ends |-> c.key, identity |-> r.identity,
                               tenant |-> r.tenant, at |-> op[p].at, by |-> c.by])
  /\ Return(p)
  /\ UNCHANGED trusted

RevokeCommitUnguarded(p) ==
  LET c == op[p].do
      r == agents[c.key]
  IN
  /\ Ready(p, "revoke")
  /\ Transaction
  /\ agents' = [agents EXCEPT ![c.key].status = "revoked", ![c.key].until = op[p].at]
  /\ events' = Append(events, [type |-> "REVOKE", ends |-> c.key, identity |-> r.identity,
                               tenant |-> r.tenant, at |-> op[p].at, by |-> c.by])
  /\ Return(p)
  /\ UNCHANGED trusted

RevokeCommit(p) ==
  LET c == op[p].do
      r == agents[c.key]
  IN
  /\ Ready(p, "revoke")
  /\ Transaction
  /\ agents' = IF r.status = "active"
                 THEN [agents EXCEPT ![c.key].status = "revoked", ![c.key].until = op[p].at]
                 ELSE agents
  /\ events' = Append(events, [type |-> "REVOKE", ends |-> c.key, identity |-> r.identity,
                               tenant |-> r.tenant, at |-> op[p].at, by |-> c.by])
  /\ Return(p)
  /\ UNCHANGED trusted

-----------------------------------------------------------------------------
(* A process dies inside a call: an open transaction is rolled back. *)
Crash(p) ==
  /\ op[p] # Idle
  /\ Return(p)
  /\ UNCHANGED <<tables, now>>

Tick ==
  /\ now < MaxTime
  /\ now' = now + 1
  /\ UNCHANGED <<tables, op, overlapped>>

Next ==
  \/ \E p \in Proc :
       \/ \E s \in Signer, k \in Key :
            \/ RegisterCheck(p, s, k)
            \/ RevokeCheck(p, s, k)
            \/ \E new \in Key : RotateCheck(p, s, k, new)
       \/ Stamp(p)
       \/ RegisterInsert(p) \/ RegisterRollback(p)
       \/ RotateCommit(p) \/ RotateRollback(p)
       \/ RevokeCommit(p)
       \/ Crash(p)
  \/ Tick

Spec == Init /\ [][Next]_vars

-----------------------------------------------------------------------------
TypeOK ==
  /\ agents \in [Key -> Row \cup {None}]
  /\ events \in Seq(Event)
  /\ trusted \in Key \cup {None}
  /\ op \in [Proc -> Calls]
  /\ now \in Nat
  /\ overlapped \in BOOLEAN

(* The registry can be relied on: each revocation was signed within the    *)
(* tenant, whoever registered a key or signed an event of its identity     *)
(* stands above it, and no chain of registrars is longer than is followed. *)
RevocationsInScope ==
  \A m \in DOMAIN events :
    events[m].type = "REVOKE" => agents[events[m].by].tenant \in {"*", events[m].tenant}

AuthorityIsRanked ==
  \E rank \in [Key -> 0..Cardinality(Key)] :
    \A k \in Registered :
      /\ agents[k].by # k => rank[agents[k].by] < rank[k]
      /\ \A m \in DOMAIN events :
           events[m].identity = agents[k].identity => rank[events[m].by] < rank[k]

ChainsAreShort ==
  \E depth \in [Key -> 0..MaxChain] :
    \A k \in Registered : agents[k].by # k => depth[agents[k].by] < depth[k]

Reliable == RevocationsInScope /\ AuthorityIsRanked /\ ChainsAreShort

(* What was once registered verifies for ever (COMPATIBILITY.md: "rotation *)
(* or revocation does not erase earlier verification evidence").           *)
EveryKeyVerifies == \A k \in Registered : Verified(k)

(* It does as long as calls take turns and the registry can be relied on.  *)
EveryKeyVerifiesInTurn == ~overlapped /\ Reliable => EveryKeyVerifies

(* Also when calls overlap, a row keeps who registered it, as what and     *)
(* from when, and the end of its time, once set, is not moved.             *)
RecordsAreKept ==
  [][\A k \in Registered :
       /\ agents'[k] # None
       /\ \A f \in {"by", "identity", "tenant", "delegates", "from"} : agents'[k][f] = agents[k][f]
       /\ agents[k].status # "active" => agents'[k] = agents[k]]_vars

(* As long as calls take turns and the registry can be relied on, an       *)
(* identity has one acting key at a time and none after its revocation     *)
(* (rotate_agent, revoke_agent).                                           *)
L == INSTANCE Lifeline WITH
       used <- Registered,
       acting <- [i \in Key |-> {k \in Registered : agents[k].identity = i /\ ActiveAt(k, now)}]

LifelineInTurn == L!Init /\ [][overlapped' \/ ~Reliable' \/ L!Next]_(L!vars)
=============================================================================
