------------------------------ MODULE Executor ------------------------------
(***************************************************************************)
(* The mediated executor: worker processes that verify and consume a       *)
(* permit, let an adapter perform the external effect and store a signed   *)
(* outcome, over one shared executor database (src/src/executor.rs and     *)
(* src/python/tempus_ddb/executor_runtime.py with its adapters).           *)
(*                                                                         *)
(* A worker is a thread of control inside ExecutorRuntime.execute_permit;  *)
(* each action below ends where the code touches the shared database or    *)
(* the network again, so every interleaving of two calls is a behaviour.   *)
(***************************************************************************)
EXTENDS Naturals, FiniteSets

CONSTANTS
  Permit,       \* authorization ids of ALLOWED permits of the trusted gate
  ActionOf,     \* [Permit -> action id]; two permits may name one action
  NoPermit,     \* what an idle worker holds
  Worker,       \* threads and processes that run execute_permit
  Operator,     \* processes that call recover_incomplete
  Adapter,      \* which ActionAdapter the workers are given
  Supported,    \* the permits whose action_type the adapter supports
  GateDb,       \* is the executor configured with a gate_db?
  LocalFaults,  \* may signing or the database fail after consumption?
  OlderThan,    \* argument older_than_seconds of recover_incomplete
  ExpiresAt,    \* [Permit -> Nat], the expires_at of a permit
  MaxTime       \* bound on the clock

AdapterKind == {"github", "http", "slack", "payment"}

ASSUME ExecutorAssumption ==
  /\ NoPermit \notin Permit
  /\ Adapter \in AdapterKind
  /\ Supported \subseteq Permit
  /\ \A p, q \in Permit : ActionOf[p] = ActionOf[q] => (p \in Supported <=> q \in Supported)
  /\ GateDb \in BOOLEAN /\ LocalFaults \in BOOLEAN
  /\ OlderThan \in Nat /\ MaxTime \in Nat
  /\ ExpiresAt \in [Permit -> Nat]

VARIABLES
  row,        \* consumed_permits.status, "ABSENT" when there is no row
  startedAt,  \* consumed_permits.started_at
  pc,         \* where a worker is inside execute_permit
  held,       \* the permit a worker was called with
  verdict,    \* the status it is about to record
  handling,   \* is it inside an except clause of execute_permit?
  pending,    \* rows a recovery pass has listed and not handled yet
  request,    \* the request to the external service, per permit
  effects,    \* how often the external effect has happened
  receipts,   \* statuses of which a signed outcome was stored or handed out
  blocked,    \* permits the gate database shows as revoked or consumed
  now         \* the clock

rows       == <<row, startedAt>>
workers    == <<pc, held, verdict, handling>>
service    == <<request, effects>>
others     == <<blocked, now>>
vars == <<rows, workers, pending, service, receipts, others>>

Settled   == {"SUCCEEDED", "FAILED", "UNKNOWN"}
RowStatus == {"ABSENT", "STARTED"} \cup Settled
Location  == {"idle", "checked", "consumed", "sent", "settling", "writing"}
ReqStatus == {"none", "inflight", "applied", "refused"}

(* The row is unique by authorization_id and by action_id. *)
Siblings(p) == {q \in Permit : ActionOf[q] = ActionOf[p]}

(***************************************************************************)
(* The external service and what a worker may hear from it.  A timeout or  *)
(* a 5xx may come whatever has become of the request; an answer whose body *)
(* cannot be read comes from a service that has accepted it.               *)
(***************************************************************************)
AnswersFor(status) ==
  {"no_answer", "server_error"}
    \cup (IF status = "applied" THEN {"ok", "garbled"} ELSE {})
    \cup (IF status = "refused" THEN {"rejected"} ELSE {})

(* Mutants of Classify: a time-out taken for a failure, an HTTP 4xx taken  *)
(* for success, and a status that no contract knows.                       *)
ClassifyTimeoutAsFailed(kind, answer) ==
  CASE answer = "ok" -> "SUCCEEDED"
    [] answer \in {"rejected", "no_answer"} -> "FAILED"
    [] answer \in {"server_error", "garbled"} -> "UNKNOWN"

ClassifyAnyAnswerAsSuccess(kind, answer) ==
  IF answer \in {"ok", "rejected", "garbled"} THEN "SUCCEEDED" ELSE "UNKNOWN"

ClassifyByTransport(kind, answer) ==
  IF answer = "no_answer" THEN "TIMED_OUT" ELSE "UNKNOWN"

(* The adapters' try/except around the transport: GitHub takes every       *)
(* exception but an HTTP status below 500 as ambiguous, HTTP only a 5xx    *)
(* (it accepts a body that is not JSON), Slack and payments none at all.   *)
Classify(kind, answer) ==
  CASE answer = "ok" -> "SUCCEEDED"
    [] answer = "rejected" -> "FAILED"
    [] answer = "server_error" -> IF kind \in {"github", "http"} THEN "UNKNOWN" ELSE "FAILED"
    [] answer = "no_answer" -> IF kind = "github" THEN "UNKNOWN" ELSE "FAILED"
    [] answer = "garbled" -> IF kind = "github" THEN "UNKNOWN"
                             ELSE IF kind = "http" THEN "SUCCEEDED" ELSE "FAILED"

Init ==
  /\ row = [p \in Permit |-> "ABSENT"]
  /\ startedAt = [p \in Permit |-> 0]
  /\ pc = [w \in Worker |-> "idle"]
  /\ held = [w \in Worker |-> NoPermit]
  /\ verdict = [w \in Worker |-> "FAILED"]
  /\ handling = [w \in Worker |-> FALSE]
  /\ pending = [o \in Operator |-> {}]
  /\ request = [p \in Permit |-> "none"]
  /\ effects = [p \in Permit |-> 0]
  /\ receipts = [p \in Permit |-> {}]
  /\ blocked = {}
  /\ now = 0

-----------------------------------------------------------------------------
(* Worker steps *)

Goto(w, l) == pc' = [pc EXCEPT ![w] = l]

(* execute_permit returns or raises, or the process is gone. *)
Leave(w) ==
  /\ Goto(w, "idle")
  /\ held' = [held EXCEPT ![w] = NoPermit]
  /\ verdict' = [verdict EXCEPT ![w] = "FAILED"]
  /\ handling' = [handling EXCEPT ![w] = FALSE]

(* The worker goes on to complete_execution or mark_unknown. *)
Settling(w, s, inHandler) ==
  /\ Goto(w, "settling")
  /\ verdict' = [verdict EXCEPT ![w] = s]
  /\ handling' = [handling EXCEPT ![w] = inHandler]
  /\ UNCHANGED held

(* An exception: inside an except clause it leaves execute_permit, in the  *)
(* try block the handler records s.                                        *)
Raise(w, s) == IF handling[w] THEN Leave(w) ELSE Settling(w, s, TRUE)

(* Mutant of VerifyPermit: expires_at is only compared at issuance. *)
VerifyPermitUndated(w, p) ==
  /\ pc[w] = "idle"
  /\ GateDb => p \notin blocked
  /\ Goto(w, "checked")
  /\ held' = [held EXCEPT ![w] = p]
  /\ UNCHANGED <<rows, verdict, handling, pending, service, receipts, others>>

(* verify_and_consume_permit up to the signing of the STARTED observation. *)
(* A permit that fails a check changes nothing.                            *)
VerifyPermit(w, p) ==
  /\ pc[w] = "idle"
  /\ now <= ExpiresAt[p]
  /\ GateDb => p \notin blocked
  /\ Goto(w, "checked")
  /\ held' = [held EXCEPT ![w] = p]
  /\ UNCHANGED <<rows, verdict, handling, pending, service, receipts, others>>

(* Mutant of StartConsumption: action_id is not a unique column. *)
StartConsumptionByPermit(w) ==
  LET p == held[w] IN
  /\ pc[w] = "checked"
  /\ row[p] = "ABSENT"
  /\ row' = [row EXCEPT ![p] = "STARTED"]
  /\ startedAt' = [startedAt EXCEPT ![p] = now]
  /\ Goto(w, "consumed")
  /\ UNCHANGED <<held, verdict, handling, pending, service, receipts, others>>

StartConsumption(w) ==
  LET p == held[w] IN
  /\ pc[w] = "checked"
  /\ \A q \in Siblings(p) : row[q] = "ABSENT"
  /\ row' = [row EXCEPT ![p] = "STARTED"]
  /\ startedAt' = [startedAt EXCEPT ![p] = now]
  /\ Goto(w, "consumed")
  /\ UNCHANGED <<held, verdict, handling, pending, service, receipts, others>>

(* The insert meets a unique constraint: "Permit already consumed". *)
StartRefused(w) ==
  /\ pc[w] = "checked"
  /\ \E q \in Siblings(held[w]) : row[q] # "ABSENT"
  /\ Leave(w)
  /\ UNCHANGED <<rows, pending, service, receipts, others>>

(* The action_type is not one of adapter.supported_actions. *)
RejectUnsupported(w) ==
  /\ pc[w] = "consumed"
  /\ held[w] \notin Supported
  /\ Settling(w, "FAILED", FALSE)
  /\ UNCHANGED <<rows, pending, service, receipts, others>>

(* The adapter refuses the intent before it sends anything.  GitHub        *)
(* returns FAILED; the others raise, and the handler reads the exception's *)
(* text ("500", "timeout", ...) to choose between UNKNOWN and FAILED.      *)
RejectBinding(w) ==
  /\ pc[w] = "consumed"
  /\ held[w] \in Supported
  /\ IF Adapter = "github"
       THEN Settling(w, "FAILED", FALSE)
       ELSE \E s \in {"FAILED", "UNKNOWN"} : Settling(w, s, TRUE)
  /\ UNCHANGED <<rows, pending, service, receipts, others>>

SendRequest(w) ==
  /\ pc[w] = "consumed"
  /\ held[w] \in Supported
  /\ request' = [request EXCEPT ![held[w]] = "inflight"]
  /\ Goto(w, "sent")
  /\ UNCHANGED <<rows, held, verdict, handling, pending, effects, receipts, others>>

(* Mutant of TakeAnswer: a request that got no answer is sent again. *)
TakeAnswerOrRetry(w) ==
  LET p == held[w] IN
  /\ pc[w] = "sent"
  /\ \/ /\ request' = [request EXCEPT ![p] = "inflight"]
        /\ UNCHANGED workers
     \/ /\ \E a \in AnswersFor(request[p]) \ {"no_answer"} :
             LET s == Classify(Adapter, a) IN Settling(w, s, s = "UNKNOWN")
        /\ UNCHANGED request
  /\ UNCHANGED <<rows, pending, effects, receipts, others>>

(* The adapter returns a result, or raises AmbiguousTransportError, whose  *)
(* handler calls mark_unknown.                                             *)
TakeAnswer(w) ==
  /\ pc[w] = "sent"
  /\ \E a \in AnswersFor(request[held[w]]) :
       LET s == Classify(Adapter, a) IN Settling(w, s, s = "UNKNOWN")
  /\ UNCHANGED <<rows, pending, service, receipts, others>>

(* complete_execution and mark_unknown first read the row and sign. *)
ReadState(w) ==
  /\ pc[w] = "settling"
  /\ IF row[held[w]] = "STARTED"
       THEN Goto(w, "writing") /\ UNCHANGED <<held, verdict, handling>>
       ELSE Raise(w, "FAILED")
  /\ UNCHANGED <<rows, pending, service, receipts, others>>

(* Mutant of WriteOutcome: the UPDATE has no status = 'STARTED'. *)
WriteOutcomeUnguarded(w) ==
  LET p == held[w] IN
  /\ pc[w] = "writing"
  /\ row' = [row EXCEPT ![p] = verdict[w]]
  /\ receipts' = [receipts EXCEPT ![p] = @ \cup {verdict[w]}]
  /\ Leave(w)
  /\ UNCHANGED <<startedAt, pending, service, others>>

(* UPDATE consumed_permits ... WHERE status = 'STARTED'; the caller gets   *)
(* the outcome, or the UNKNOWN observation inside UnknownExecutionError.   *)
WriteOutcome(w) ==
  LET p == held[w] IN
  /\ pc[w] = "writing"
  /\ row[p] = "STARTED"
  /\ row' = [row EXCEPT ![p] = verdict[w]]
  /\ receipts' = [receipts EXCEPT ![p] = @ \cup {verdict[w]}]
  /\ Leave(w)
  /\ UNCHANGED <<startedAt, pending, service, others>>

(* No row was updated. *)
WriteRefused(w) ==
  /\ pc[w] = "writing"
  /\ row[held[w]] # "STARTED"
  /\ Raise(w, "FAILED")
  /\ UNCHANGED <<rows, pending, service, receipts, others>>

(* Signing or the database fails while an outcome is recorded. *)
LocalFault(w) ==
  /\ LocalFaults
  /\ pc[w] \in {"settling", "writing"}
  /\ \E s \in {"FAILED", "UNKNOWN"} : Raise(w, s)
  /\ UNCHANGED <<rows, pending, service, receipts, others>>

(* The process dies and is started again; its database and any request it  *)
(* has sent are not undone.                                                *)
Crash(w) ==
  /\ pc[w] # "idle"
  /\ Leave(w)
  /\ UNCHANGED <<rows, pending, service, receipts, others>>

-----------------------------------------------------------------------------
(* recover_incomplete *)

(* list_started_before; the clock is past the epoch, so the subtraction of *)
(* older_than never saturates.                                             *)
Abandoned == {p \in Permit : row[p] = "STARTED" /\ startedAt[p] + OlderThan <= now}

ListAbandoned(o) ==
  /\ pending[o] = {}
  /\ Abandoned # {}
  /\ pending' = [pending EXCEPT ![o] = Abandoned]
  /\ UNCHANGED <<rows, workers, service, receipts, others>>

(* The rows are taken oldest first. *)
Oldest(P) == {p \in P : \A q \in P : startedAt[p] <= startedAt[q]}

(* Mutant of MarkAbandoned: a row that was listed is marked in any case. *)
MarkListed(o) ==
  \E p \in Oldest(pending[o]) :
    /\ row' = [row EXCEPT ![p] = "UNKNOWN"]
    /\ receipts' = [receipts EXCEPT ![p] = @ \cup {"UNKNOWN"}]
    /\ pending' = [pending EXCEPT ![o] = @ \ {p}]
    /\ UNCHANGED <<startedAt, workers, service, others>>

MarkAbandoned(o) ==
  \E p \in Oldest(pending[o]) :
    /\ row[p] = "STARTED"
    /\ row' = [row EXCEPT ![p] = "UNKNOWN"]
    /\ receipts' = [receipts EXCEPT ![p] = @ \cup {"UNKNOWN"}]
    /\ pending' = [pending EXCEPT ![o] = @ \ {p}]
    /\ UNCHANGED <<startedAt, workers, service, others>>

(* Mutant of AbandonPass: the pass tries the settled row again. *)
InsistOnRow(o) ==
  /\ \E p \in Oldest(pending[o]) : row[p] # "STARTED"
  /\ UNCHANGED vars

(* The row was settled since it was listed: the `?` gives up the whole     *)
(* pass, the rows behind it included.                                      *)
AbandonPass(o) ==
  /\ \E p \in Oldest(pending[o]) : row[p] # "STARTED"
  /\ pending' = [pending EXCEPT ![o] = {}]
  /\ UNCHANGED <<rows, workers, service, receipts, others>>

(* The pass dies, or signing or the database fails. *)
RecoveryFails(o) ==
  /\ pending[o] # {}
  /\ pending' = [pending EXCEPT ![o] = {}]
  /\ UNCHANGED <<rows, workers, service, receipts, others>>

-----------------------------------------------------------------------------
(* The world outside *)

ApplyEffect(p) ==
  /\ request[p] = "inflight"
  /\ request' = [request EXCEPT ![p] = "applied"]
  /\ effects' = [effects EXCEPT ![p] = @ + 1]
  /\ UNCHANGED <<rows, workers, pending, receipts, others>>

RefuseEffect(p) ==
  /\ request[p] = "inflight"
  /\ request' = [request EXCEPT ![p] = "refused"]
  /\ UNCHANGED <<rows, workers, pending, effects, receipts, others>>

(* The gate revokes the permit or its agent, or takes an outcome for it.   *)
GateBlocks(p) ==
  /\ GateDb
  /\ p \notin blocked
  /\ blocked' = blocked \cup {p}
  /\ UNCHANGED <<rows, workers, pending, service, receipts, now>>

Tick ==
  /\ now < MaxTime
  /\ now' = now + 1
  /\ UNCHANGED <<rows, workers, pending, service, receipts, blocked>>

-----------------------------------------------------------------------------
WorkerStep(w) ==
  \/ StartConsumption(w) \/ StartRefused(w)
  \/ RejectUnsupported(w) \/ RejectBinding(w) \/ SendRequest(w)
  \/ TakeAnswer(w) \/ ReadState(w) \/ WriteOutcome(w) \/ WriteRefused(w)

RecoveryStep(o) == MarkAbandoned(o) \/ AbandonPass(o)

Next ==
  \/ \E w \in Worker :
       \/ \E p \in Permit : VerifyPermit(w, p)
       \/ WorkerStep(w)
       \/ LocalFault(w)
       \/ Crash(w)
  \/ \E o \in Operator : ListAbandoned(o) \/ RecoveryStep(o) \/ RecoveryFails(o)
  \/ \E p \in Permit : ApplyEffect(p) \/ RefuseEffect(p) \/ GateBlocks(p)
  \/ Tick

Spec == Init /\ [][Next]_vars

(* The operator runs recover_incomplete again and again, and not every     *)
(* pass dies before its next row.  Workers may crash or stop anywhere.     *)
RecoveryFairness ==
  \A o \in Operator : WF_vars(ListAbandoned(o)) /\ SF_vars(RecoveryStep(o))

RecoveredSpec == Spec /\ RecoveryFairness

-----------------------------------------------------------------------------
TypeOK ==
  /\ row \in [Permit -> RowStatus]
  /\ startedAt \in [Permit -> Nat]
  /\ pc \in [Worker -> Location]
  /\ held \in [Worker -> Permit \cup {NoPermit}]
  /\ verdict \in [Worker -> Settled]
  /\ handling \in [Worker -> BOOLEAN]
  /\ pending \in [Operator -> SUBSET Permit]
  /\ request \in [Permit -> ReqStatus]
  /\ effects \in [Permit -> Nat]
  /\ receipts \in [Permit -> SUBSET Settled]
  /\ blocked \subseteq Permit
  /\ now \in Nat

(* No action has its effect twice: not by two workers that present one     *)
(* permit, not by two permits for one action, not after a crash, a timeout *)
(* or a recovery pass.  (start_consumption's unique keys, no retry.)       *)
AtMostOneEffect ==
  \A p \in Permit :
    /\ effects[p] <= 1
    /\ \A q \in Siblings(p) \ {p} : effects[p] = 1 => effects[q] = 0

(* A stored SUCCEEDED is true of the world, whatever else was running.     *)
SucceededIsTrue == \A p \in Permit : row[p] = "SUCCEEDED" => effects[p] = 1

(* A stored FAILED says that nothing happened or will happen (SPEC-001:    *)
(* "Network timeout / unhandled exception -> UNKNOWN").  It depends on the *)
(* adapter, and on complete_execution not failing.                         *)
FailedIsTrue ==
  \A p \in Permit :
    row[p] = "FAILED" => effects[p] = 0 /\ request[p] # "inflight"

(* A signed outcome, handed to a caller or read from the database, is the  *)
(* status the row keeps, also when a worker and a recovery pass settle the *)
(* same row (the guarded UPDATE).                                          *)
ReceiptsMatchRow == \A p \in Permit : receipts[p] \subseteq {row[p]}

(* A settled row never changes again, a started one never goes away and a  *)
(* row's started_at is written once.                                       *)
SettledIsFinal ==
  [][\A p \in Permit :
       /\ row[p] \in Settled => row'[p] = row[p]
       /\ row[p] # "ABSENT" => row'[p] # "ABSENT" /\ startedAt'[p] = startedAt[p]]_vars

(* A permit that has expired or that the gate has blocked, and that no     *)
(* worker has already verified, will never be consumed.  (Between the      *)
(* verification and the insert a revocation goes unnoticed.)               *)
Dead(p) ==
  /\ now > ExpiresAt[p] \/ (GateDb /\ p \in blocked)
  /\ row[p] = "ABSENT"
  /\ \A w \in Worker : held[w] # p

DeadStaysDead == [][\A p \in Permit : Dead(p) => Dead(p)']_vars

(* Every consumption that the recovery passes can see gets a signed status *)
(* in the end, although a pass gives up at the first row it finds settled  *)
(* and workers may die at any point.                                       *)
StartedIsSettled == \A p \in Permit : row[p] = "STARTED" ~> row[p] \in Settled

(* The promise of Consumption.tla. *)
C == INSTANCE Consumption
ConsumptionSpec == C!Spec

-----------------------------------------------------------------------------
(* The inductive invariant behind these properties, for every adapter and  *)
(* with local faults.                                                      *)

(* w is between the consumption of p and the end of its call. *)
Owns(w, p) == held[w] = p /\ pc[w] \in {"consumed", "sent", "settling", "writing"}

HoldsPermit == \A w \in Worker : pc[w] # "idle" => held[w] \in Permit

(* A permit's row is taken by one worker's call, and an action by one permit. *)
OneOwner ==
  /\ \A w \in Worker, p \in Permit : Owns(w, p) => row[p] # "ABSENT"
  /\ \A v, w \in Worker, p \in Permit : Owns(v, p) /\ Owns(w, p) => v = w
  /\ \A p, q \in Permit :
       ActionOf[p] = ActionOf[q] /\ row[p] # "ABSENT" /\ row[q] # "ABSENT" => p = q

(* The request is the owner's: none before it sends, and one effect at     *)
(* most comes of it.                                                       *)
RequestIsOwned ==
  /\ \A p \in Permit : row[p] = "ABSENT" => request[p] = "none"
  /\ \A w \in Worker : pc[w] = "consumed" => request[held[w]] = "none"
  /\ \A p \in Permit : effects[p] = IF request[p] = "applied" THEN 1 ELSE 0

(* SUCCEEDED is only ever about to be recorded for an effect that is there. *)
SuccessIsEarned ==
  /\ \A w \in Worker :
       pc[w] \in {"settling", "writing"} /\ verdict[w] = "SUCCEEDED" => request[held[w]] = "applied"
  /\ \A p \in Permit : row[p] = "SUCCEEDED" => request[p] = "applied"

ConsumptionInv == TypeOK /\ HoldsPermit /\ OneOwner /\ RequestIsOwned /\ SuccessIsEarned

(* In addition, where a FAILED is true of the world: a worker that would   *)
(* still find its row STARTED holds no FAILED for a request that is out.   *)
FailureIsEarned ==
  /\ \A w \in Worker :
       /\ pc[w] \in {"settling", "writing"}
       /\ verdict[w] = "FAILED"
       /\ row[held[w]] = "STARTED"
       => request[held[w]] \in {"none", "refused"}
  /\ \A p \in Permit :
       row[p] \in {"SUCCEEDED", "FAILED"} => \A w \in Worker : ~Owns(w, p)
  /\ \A p \in Permit : row[p] = "FAILED" => request[p] \in {"none", "refused"}
=============================================================================
