# A TLA+ verification project for Tempus DDB

Tempus DDB lets an AI agent ask for permission before it acts. A *gate* signs a
permit for one canonical intent, an *executor* that holds the credentials
consumes the permit, performs the external effect and signs an observation of
it, and the gate takes the outcome and signs a receipt. Everything is kept in
SQLite databases that several processes (command line calls, MCP servers,
embedding programs) open at once. This directory models the code under `src/`
(Rust) and `python/tempus_ddb/` of the repository, checks the models with TLC
and proves most of what is checked, for every value of the constants, with
TLAPS.

## 1. Inventory

| Component | State it keeps | Operations | What is hard about it |
|---|---|---|---|
| Mediated executor (`src/executor.rs`, `python/tempus_ddb/executor_runtime.py`) | `consumed_permits`: one row per permit and per action, with status, start time, signed observation | `verify_and_consume_permit`, `execute_permit`, `complete_execution`, `mark_unknown`, `recover_incomplete`, `get_execution_state` | two workers on one permit, a worker and a recovery pass on one row, crashes after the effect, time-outs |
| Adapters (`github_`, `http_`, `slack_`, `payment_executor.py`) | none | bind an intent to a request, send it, turn the answer into a status or an exception | what a time-out, a 5xx or an unreadable body is taken for |
| B2A gate (`src/b2a.rs`) | `action_authorizations`, `action_outcomes`, `revoked_authorizations` | `request_action_signed`, `commit_outcome_signed`, `verify_authorization`, `verify_execution`, `get_trace`, `verify_trace` | every call reads outside the transaction it writes in; retries; permits that must verify again later |
| Identity (`src/b2a.rs`) | `agents`, `identity_lifecycle_events` | `register_agent`, `rotate_agent`, `revoke_agent`, `verify_agent_state_at` | validity is a question about a past instant, and recursive over registrars; revocation races with everything |
| Policy bundles (`src/phase3.rs`) | `policy_bundles`, `active_policy_attestations` | `install_policy`, `ensure_default_policy`, `active_policy`, `evaluate_policy` | fallback to the wildcard tenant, re-attestation of the default, amounts in minor units |
| Event stream (`src/events.rs`) | `event_stream`, `checkpoints` | `record_event`, `create_checkpoint`, `export_event_stream`, `verify_checkpoint_stream` | a hash chain per tenant, written in other calls' transactions; limited exports |
| Decision ledger (`src/lib.rs`) | `decisions` | `record`, `record_batch`, `validate`, `get_latest_hash` | causal depth, clocks that step back, several recorders |
| Signers (`src/phase3.rs`) | a key file, or none | local Ed25519, Vault transit by a child process | a failure can come between any two steps |
| Command lines, MCP server, bindings | none | one call each of the above | - |

How they interact: an agent calls the gate; the gate consults Identity and
Policy, appends to the event stream inside its own transaction, and returns a
permit as a document. The executor shares nothing with the gate but that
document and, when it is configured with `gate_db`, a read-only look at the
gate's database. The outcome the executor signs is again a document, which a
caller hands to `commit_outcome_signed`. Recovery is not a background task:
somebody calls `recover_incomplete`. (`SPEC-001-executor-runtime.md:35` and
`THREAT_MODEL.md:80` speak of recovery on restart; no start of an executor calls
it.)

What makes each component correct, in a sentence each:

* executor: one effect per action at most; a status, once settled, is final,
  agrees with every receipt handed out and is true of the world; whatever was
  consumed is settled in the end;
* gate: what is stored is never replaced, was permitted, verifies for ever, and
  is told of exactly once in the event stream; what is revoked or expired is
  not consumed;
* identity: a key acts only while its signed history says that it is active; a
  revoked identity does not come back;
* policy: each tenant has one attested policy, and what is attested stays
  readable;
* event stream: an unbroken chain, and a checkpoint that recognises exactly the
  streams that contain it;
* ledger: a chain in which each decision has one place.

The list of hazards, each at its line, is in `PROJECT.json`.

## 2. The modules

    Consumption  <--- implements ---  Executor  <--- MCExecutor, ExecutorProofs
    Lifeline     <--- implements ---  Identity  <--- MCIdentity, IdentityProofs
    Authority    <--- implements ---  Gate      <--- MCGate, GateProofs <--- GateTurnsProofs
    Evaluation   <--- Policy  <--- MCPolicy, PolicyProofs
    Ledger, Checkpoints <--- Storage  <--- MCStorage, LedgerProofs <--- CheckpointsProofs
    InductionProofs <--- IdentityProofs, PolicyProofs

An unlabelled arrow is `EXTENDS`.

### `Executor.tla`: permit consumption, effect, outcome, recovery

A `Worker` is a thread of control inside `ExecutorRuntime.execute_permit`; an
`Operator` one inside `recover_incomplete`. Steps end where the code touches the
shared database or the network again:

| Action | Code |
|---|---|
| `VerifyPermit` | `verify_and_consume_permit` up to the signing of `STARTED`: signatures, expiry, the look at `gate_db` |
| `StartConsumption`, `StartRefused` | the `INSERT` of `start_consumption`, or its unique-key error |
| `RejectUnsupported`, `RejectBinding`, `SendRequest`, `TakeAnswer` | the body of the `try` block and the adapter's `execute_action` |
| `ReadState`, `WriteOutcome`, `WriteRefused` | `complete_execution` and `mark_unknown`: read the row, sign, `UPDATE ... WHERE status = 'STARTED'` |
| `Raise` (in these) | the `except` clauses, which settle the row themselves, once |
| `LocalFault`, `Crash` | signing or the database fails; the process dies |
| `ListAbandoned`, `MarkAbandoned`, `AbandonPass`, `RecoveryFails` | `recover_incomplete`: the list, each row, the `?` that gives up the pass, its death |
| `ApplyEffect`, `RefuseEffect`, `GateBlocks`, `Tick` | the service, the gate's database and the clock |

`row` is the `status` column with `"ABSENT"` for no row; `request` and `effects`
are the state of the external service, which no code of the repository sees;
`receipts` collects the statuses of which a signed observation was stored or
handed out. `Classify` is what
each adapter makes of an answer, and the parameter `Adapter` says which one runs.

`Consumption.tla` is the abstract specification: a permit and its action are
consumed at most once, an effect belongs to a consumed permit and comes once at
most, and settling is final. `Executor` implements it under the identity
mapping of `row` and `effects` (`ConsumptionSpec`).

### `Gate.tla`: permits, outcomes and revocation

A `Proc` is a process inside one gate call. The code opens its transaction
(`BEGIN IMMEDIATE`) only to write, so a call is a sequence of read steps and one
write step. There is a step of its own for every look at the database or the
clock whose result can be stale at the next one:

| Call | Steps |
|---|---|
| `request_action_signed` | `RequestAgain` (a stored permit), or `RequestStamp` (`issued_at`), `RequestDecide` (the agent's state, at a later instant), `RequestInsert` or `RequestRollback` |
| `commit_outcome_signed` | `CommitCheck` (the permit and a stored outcome), `CommitTrust` (the executor's state), `CommitStamp` (`completed_at`), `CommitInsert` or `CommitRollback` |
| `register_agent` | `RegisterStamp`, `RegisterInsert` or `RegisterRollback` |
| `revoke_agent` | `RevokeStamp` (`effective_at`), `RevokeCommit` |

`ActiveAt` is `verify_agent_state_at` for keys registered by the root,
`ColumnsMatchEvents` its cross-check of the row against the signed lifecycle
events, `Decision` the decision that both the request and `verify_authorization`
derive. `reply` is the answer of the call that returned last.

`Authority.tla` is the abstract specification, a gate whose calls are
instantaneous: `Decide` allows a permit only to an agent that acts at that
instant, `Use` takes an outcome once, while the agent still acts and from
somebody else who acts and is trusted, and `Retire` is for ever. It knows neither
time stamps nor `revoked_authorizations`: that these two together keep a permit
from being used after its agent's revocation is what the refinement shows. The
mapping (`AuthoritySpec`) takes a key for acting when it has a row and no signed
revocation.

### `Identity.tla`: registration, bootstrap, rotation, revocation

A call loads the key file of one `Signer` and is three actions: a check
(`RegisterCheck`, `RotateCheck`, `RevokeCheck`: what the call reads before it
signs), `Stamp` (`registered_at` or `effective_at`), and the transaction
(`RegisterInsert`, `RotateCommit`, `RevokeCommit`) or its roll back on the
unique public key (`RegisterRollback`, `RotateRollback`). `agents`, `events`
and `trusted` are the tables; `events` keeps the order of insertion, which
decides between events of one `effective_at`.

`Verifies` is `verify_agent_state_at_inner` with `lifecycle_end_for_key`: a key
verifies if the signer of each event of its identity and its registrar verify
too, were active at the time, may delegate and are in scope, back to the
trusted root. It is a recursive function with a budget of one more than the
number of keys. `visited` cuts cycles of registrars; a cycle that goes through
the signer of an event is not cut, because each such check starts with a fresh
set, so the same key is asked for with the same question again and again. An
evaluation that meets a key twice on one path is cut by `visited` or never ends,
hence the budget decides nothing else.

`overlapped` is a history variable: have two calls ever been open at once?
`Charge` is an assumption on operators, which keys each of them rotates or
revokes.

`Reliable` names the three ways in which calls that take turns can still make
keys unverifiable, because the check of a row asks for more than the call that
wrote it:

* `RevocationsInScope`: `revoke_agent`, unlike `rotate_agent`, does not compare
  the tenant of the signer with that of the key (`b2a.rs:1075`), the check of the
  event does;
* `AuthorityIsRanked`: nothing keeps a delegator from ending a key that its own
  registration rests on, and a circle of such authority is never resolved
  (finding 4);
* `ChainsAreShort`: a chain of registrars is followed for `MaxChain` steps
  (`b2a.rs:429`), but `register_agent` counts only from the registrar, so the key
  at the end of a chain that is too long by one is stored and never verifies.

`Lifeline.tla` is the abstract specification: an identity begins with its own
key, has one acting key at a time, and none after its revocation. `acting[i]`
is mapped to the keys of identity `i` that verify and are in force now.
`LifelineInTurn` says that `Identity` implements it until two calls overlap or
the registry is no longer `Reliable`.

### `Policy.tla`: installation, the default policy, the look-up

`install_policy` writes in one transaction; everything before it, and the whole
of `active_policy`, is a sequence of statements that other processes' calls come
between. A process loads one gate key (`Signer`) for a call, and verifies
bundles and attestations with that key.

| Call | Steps |
|---|---|
| `install_policy` | `InstallStamp` (`issued_at`), `InstallLookUp` (the version; an identical bundle is returned, another one is a conflict), `InstallCommit` or `InstallRollback` (the unique version) |
| `register_agent` on an empty registry | `BootstrapStamp`, `BootstrapCommit`: `ensure_default_policy` inside its transaction |
| `active_policy` | `RequestStamp`, `EnsureDefault` (the default is there and attested?), the nested `install_policy` or `AttestDefault`, `QueryTenant`, `CheckHistory`, `QueryWildcard` |

`Publish` is what the installing transaction writes: the bundle, the retirement
of the tenant's earlier one, the attestation and the event. `Resolve` is the
look-up with its verification: no row in force is `not_found`, a row that
another key has signed is `invalid`. `had` is history: did the tenant have a
policy when the request came in? No caller's draft has the version
`tempus.baseline.v1`, and the attestation of the default, whose failure the
code ignores (`let _ =`), never fails here.

`Evaluation.tla` is what a policy says of an intent, as operators:
`ParseMinorUnits` (`parse_minor_units`), `Matches` (the patterns of the lists),
`MoneyVerdict`, `Evaluate`. Names are sequences of segments and amounts are the
digits before and after the point (10 stands for any other character), so that
what the conversion does is kept and characters are not. `EvaluationAssumption`
gives the constants the types that the code reads them with (`as_u64`, `as_str`),
and texts, names and lists any length: what has another JSON type, an unknown
field or the wrong `schema_version` is refused by the code and is not among the
rules and intents. Empty lists, empty patterns, limits out of range, a payment
without currency or amount are (`ValidSpec`, `MoneyVerdict`). `AmountsAreExact` and `VerdictsAreExact` compare them with a
reference that scales by the length of the fraction and states the verdict as a
formula; the run asks for both (`RulesAreExact`) where `active_policy` has
answered with a policy, which is where the code evaluates it.

### `Ledger.tla`, `Checkpoints.tla`, `Storage.tla`: the files that are audited

| Action | Code |
|---|---|
| `RecordGenesis`, `RecordNext` | `insert_decision` and `insert_decision_batch`: `BEGIN IMMEDIATE`, then the last decision is read |
| `RecordInsert` | the same transaction stamps, appends and commits |
| `RecordRefused`, `RecordNothing` | no lock, a second genesis, a missing genesis, a malformed element of a batch, with the roll back; an empty batch |
| `RecordAnswer` | `record` and `record_batch` read the latest hash, after their commit, or fail to and answer `""` (`HashRead`) |
| `RecordEvent` | `record_event` |
| `CreateNumber`, `CreateScan`, `CreateInsert` or `CreateFails` | `create_checkpoint`: the last number, the events, the insert with its unique number |
| `RecorderDies`, `AuditorDies` | a process dies between two of these; an open transaction is rolled back |
| `Backup`, `Restore` | an operator with the recipe of `docs/BACKUP_AND_DISASTER_RECOVERY.md`: a snapshot, and its return to the place of the file while nobody has it open |

`place` is what a recorder that has the write lock has read: the parent and the
depth of what it is about to append. `LedgerIsValid` is `validate_ledger` for rows whose hashes and signatures are
right, `Export` and `Verdict` are `export_event_stream` and
`verify_checkpoint_stream` with its reasons in the code's order. Each reading of
the clock may be any number, also a smaller one than the one before; `wentBack`
remembers whether it ever was. A hash is the value that is hashed: an event's
digest is its body, which holds the digest before it, and a checkpoint's root is
the list of digests. `published` is what has left the database and is not
restored; `covers`, which is no part of the signed document, remembers the
events the hash was taken of. `recorded` and `told` count what was ever
recorded, so that two decisions, or events, never are the same, also after a
restore. `Storage` composes the two parts with the backup of the file they
share. They share no statement, so `MCStorage` has a variable `part` that says
which of the two moves in a behaviour.

### Abstractions

* Signatures, hashes and canonical JSON are perfect: a document that the code
  would refuse because it was altered never gets past `VerifyPermit` or
  `CommitCheck`, so such documents are not modelled. An agent's signature on a
  request may still be wrong (`signed`), because the gate stores that decision.
* Reads that follow each other with no clock or table between them whose change
  could matter are one step.
* A transaction advances the clock: the databases run with
  `PRAGMA synchronous = FULL`, and microseconds pass while it is written. Two
  stamps with no transaction between them may be equal.
* A 4xx answer means that the service has refused the request. A body that
  cannot be read comes from a service that has served it.
* `MCExecutor_github` presents two permits for one action, which one gate
  database never signs: the executor's unique keys are there for a gate that
  was restored from a backup.
* The gate's own key is the trusted root and is not rotated or revoked in
  `Gate`; keys are registered by it. Delegation and rotation are in `Identity`.
  A revocation's effect on permits is in `Gate`, its effect on keys in both.
* Reasons of revocations differ, so two of them never have one event id.
* The clocks of `Executor`, `Gate`, `Identity` and `Policy` never step back, and
  all processes have one clock: what is said there of expiry, of stamps and of
  keys' times presupposes it. Only in `Ledger` may each reading of the clock be
  any number.
* `Draft`s of policies and the rules of `Evaluation` are kept apart: a draft that
  `install_policy` would refuse by its contents changes nothing, and is not
  among them.

## 3. Runs

| Run | Question | Instance | Result |
|---|---|---|---|
| `executor_github` | Is there one effect at most, is every status true, final and equal to the receipts, and does the executor implement `Consumption`? | GitHub adapter, 2 workers, 2 permits for 1 action, 1 recovery pass at a time, a gate database | holds |
| `executor_recovery` | Is everything that was consumed settled in the end, although passes give up and workers die? | Slack adapter, 2 workers, 2 permits for 2 actions of which 1 unsupported, local faults, fair recovery | holds |
| `gate_concurrent` | What survives every interleaving of two gate calls? | 2 processes, 2 intents with 1 idempotency key, 2 outcomes, 1 agent, 1 executor still to be registered | holds |
| `gate_sequential` | What does the gate promise to callers that take turns, and does it then implement `Authority`? | the same with 1 process, 4 outcomes, a longer clock and permits that live one tick longer | holds |
| `identity_turns` | What does the registry promise to callers that take turns, and what also to others? | 2 processes, 3 signers (root, deputy, leaf), 4 keys, 2 of them of one tenant, chains of up to 2; the deputy and the leaf may end the key that registered them | holds |
| `policy_bundles` | Which policy answers a request, and does evaluation compute what it should? | 2 processes with 2 gate keys, a tenant with 2 drafts, 1 draft for the wildcard, 3 transactions; amounts of up to 4 + 3 digits in 12-bit integers, 433 policies, 675 intents | holds |
| `storage_restore` | Is the ledger one chain, and what does a checkpoint verify? | 2 recorders, 4 decisions in batches of up to 2, 3 readings of the clock; 2 tenants, 2 auditors, 3 events, checkpoint numbers up to 3; 1 restore | holds |
| `identity_cycle` | Does a registered key always verify? | the same with 1 process, no restraint on what a deputy ends, one tenant | violated |
| `executor_http_timeout` | Is `FAILED` true with the HTTP adapter? | as `executor_github` with that adapter | violated |
| `gate_retry_expired` | Does an identical retry always get its receipt? | as `gate_sequential` | violated |
| `gate_revoke_race` | Does a revocation reach every unconsumed permit when calls overlap? | as `gate_concurrent` | violated |
| `policy_wildcard` | Does a policy installed for the wildcard answer the tenants without one? | as `policy_bundles`, 1 process and 1 key | violated |

**Why the bounds are enough.** The hazards of the executor are conflicts of two
parties over one row: two workers, a worker and a pass, two permits for one
action. A third worker repeats what the second can do. Two rows are needed to
see a pass give up with a row behind the one it stumbles over
(`executor_recovery`). One tick separates a permit that has expired (`p1`) from
one that has not (`p2`) and a row that is young from one that is old. In `Gate`
the conflicts are again of two calls; two intents with one idempotency key give
every answer of `RequestAgain`, `requested_at` 0 and 3 with a window of 2 and 1
give a stale and a future request, and the clock is long enough for
register, request, commit and revoke with a tick to spare (each transaction
takes one). In `Identity` four keys are a root, a delegator, somebody it may end
and a key to rotate to, and five transactions are enough to bootstrap, to build
the chain and to end two of its keys. `MaxChain` is 2 in `identity_turns`, where
a chain of four keys is one too long, and the code's 16, which four keys do not
reach, in `identity_cycle`. Each part of `Reliable` is needed in
`identity_turns`: without any one of them TLC finds a key that does not verify. In `Policy` three transactions are the default, a policy and
its successor, or a policy for the wildcard and its loss; two keys give every
answer `invalid`. Amounts have a digit more before the point than the largest
integer allows and a digit more after it than the format allows, so that
overflow of the multiplication and a fraction that is too long both happen. In
`Storage` four decisions are two batches that follow each other in either order,
three readings of the clock give equal, rising and falling stamps within one
batch, and two recorders wait for one lock; three events and one restore give a checkpoint whose events are lost and
replaced by others of the same numbers. `MaxTime` (and in `Storage` the bounds
on decisions, events and restores) cut behaviours short: once reached, no
further transaction is possible. Deadlock is not checked because the systems may stop: every caller
may have gone home when the last permit has expired.

**Fairness** is assumed in `executor_recovery` only. Nothing schedules
`recover_incomplete` in the repository; `docs/` and the CLI leave it to an
operator, and `RecoveryFairness` says that this operator exists: a pass that
would find a row is run again and again (weak fairness of `ListAbandoned`), and
not every pass dies before its next row (strong fairness of `RecoveryStep`,
since a pass that dies disables it). Workers get no fairness at all: they may
stop anywhere.

**Findings**, each a run of its own:

1. `executor_http_timeout`. `SPEC-001-executor-runtime.md:72` wants a time-out
   recorded as `UNKNOWN`. The HTTP adapter returns `FAILED` for any exception
   but a 5xx (`http_executor.py:174`), also when the request is still being
   served. (Slack and payments do the same, for 5xx too; GitHub does it right,
   and `GitHubFailureIsTrue` proves that.)
2. `gate_retry_expired`. `THREAT_MODEL.md:76` promises the existing receipt to
   an identical retry; `commit_outcome_signed` compares `expires_at` with the
   clock before it looks for the stored outcome. `RetryInTimeGetsReceipt` is
   what holds.
3. `gate_revoke_race`. `revoke_agent` invalidates the permits it finds. A
   request decided before and inserted after leaves one that no revocation
   names. `RevokedStaysOut` is what holds: after the requests already decided,
   none of the key's is allowed any more.
4. `identity_cycle`. `COMPATIBILITY.md:29` wants earlier evidence to survive
   rotation and revocation. A deputy that revokes the key that registered it
   makes both unverifiable: the check of either asks for the other, and
   `lifecycle_end_for_key` starts each time with a fresh `visited` set.
5. `policy_wildcard`. The comment on `install_policy` (`lib.rs:620`) says
   "Install and activate". A policy installed for tenant `*` takes the
   attestation from the default and retires it; the next request of anybody
   makes `ensure_default_policy` (`phase3.rs:186`) attest the retired default
   again, after which tenants without a policy of their own are refused with
   `TEMPUS_POLICY_NOT_FOUND`. Where there is no default yet, the default is
   installed over the operator's policy instead, as `MIGRATION_0.4.md` says of a
   ledger without policies. `RefusalIsExplained` is what holds.

When registry calls overlap, `EveryKeyVerifies` and `Lifeline` fail without any
cycle (two bootstraps, two revocations that commit in the opposite order of
their time stamps, two rotations of one key); what remains is `RecordsAreKept`.

Met while modelling, and no contradiction of a document:

* `checkpoint export` stops at 1000 events unless told otherwise, and goes on to
  events recorded after the checkpoint. Either file is refused by the
  verification as `ERR_ROLLBACK_DETECTED`, which is what `VerdictIsExact` asks
  for, although nothing was rolled back. An export that does not begin with the
  checkpoint's first event is a `ERR_SEQUENCE_GAP`.
* After a restore the numbers of lost checkpoints are issued a second time; the
  published ones do not verify the stream's new course. The `created_at` of
  checkpoints need not grow with their numbers.
* A caller of `record` or `record_batch` (and of the command line, `main.rs:198`)
  whose query for the hash fails after the commit is told `"success"` with an
  empty hash: `unwrap_or_default()`. `AnswerIsOwnOrLater` therefore says of an
  answer that the caller's decision is in the ledger, and of its hash that it is
  the caller's or a later one, or empty.
* `THREAT_MODEL.md:66` says that repeating the same request returns the original
  authorization. A repetition that overlaps the first call may lose the unique
  key and get an error (`RequestRollback`), and the original when it asks again;
  `RequestsAreIdempotent` is about calls that take turns.
* The comment at `lib.rs:703` that `--genesis` "forces a new root" is followed by
  the check that refuses one.
* `validate_ledger` does not look for forks. None arises (`LedgerIsAChain`).
* A clock that steps back makes an untouched ledger invalid
  (`OnlyTheClockInvalidates` has the hypothesis `~wentBack`), and nothing in the
  code prevents the append.

With two processes `StoredPermitsVerify`, `StoredReceiptsVerify` and
`RevokedIsUnconsumed` fail as well (a registration between `issued_at` and the
look at the key, a revocation between the look at the executor and
`completed_at`, a revocation between `CommitCheck` and `CommitInsert`): no
document of the repository promises them for overlapping calls, so they are
checked in `gate_sequential` and not listed as findings.

## 4. Proofs

`ExecutorProofs.tla` proves, for all values of the constants that satisfy
`ExecutorAssumption`:

| Theorem | Statement |
|---|---|
| `TypeCorrect` | `Spec => []TypeOK` |
| `ConsumptionInvariant` | `Spec => []ConsumptionInv` |
| `AtMostOnce` | `Spec => []AtMostOneEffect` |
| `SuccessIsTrue` | `Spec => []SucceededIsTrue` |
| `ReceiptsAgree` | `Spec => []ReceiptsMatchRow` |
| `SettledForGood` | `Spec => SettledIsFinal` |
| `DeadForGood` | `Spec => DeadStaysDead` |
| `ImplementsConsumption` | `Spec => ConsumptionSpec` |
| `GitHubFailureIsEarned` | `Spec => []FailureIsEarned` if `Adapter = "github"` and `~LocalFaults` |
| `GitHubFailureIsTrue` | `Spec => []FailedIsTrue` if `Adapter = "github"` and `~LocalFaults` |

The assumption asks that `NoPermit` is no permit, that the clock and
`ExpiresAt` are natural numbers, and that permits for one action have one
action type. Workers, permits, operators and the clock are unbounded.

The argument: `AtMostOneEffect` is not inductive, because nothing in it says
that a worker about to send is the only one to do so. `ConsumptionInv` adds
that (`OneOwner`): between the insert and the end of the call a worker owns its
permit, the row is there, nobody else owns it, and no other permit of the
action has a row. From it follows that a request is sent once
(`RequestIsOwned`), and that whoever is about to record `SUCCEEDED` has a
request that was applied (`SuccessIsEarned`). The proof has a lemma per
conjunct (`TypeStep`, `OwnerStep`, `RequestStep`, `SuccessStep`) and in each a
step per action. The refinement needs the same invariant: `StartConsumption`
maps to `Consume`, `ApplyEffect` to `Effect`, the two writers of the row to
`Settle`, everything else to a stutter. `FailureIsEarned` is the further
invariant for a truthful `FAILED`; it needs `AnswerLemma`, what each answer of
the service says about the request, and it does break without `~LocalFaults`:
an exception after the effect is recorded as `FAILED`.

`GateProofs.tla` proves, for all values of the constants that satisfy
`GateAssumption` and `NoneAssumption`, and without assuming that calls do not
overlap:

| Theorem | Statement |
|---|---|
| `TypeCorrect` | `Spec => []TypeOK` |
| `GateInvariant` | `Spec => []GateInv` |
| `PermittedOutcomes` | `Spec => []OutcomeIsPermitted` |
| `FinalRecords` | `Spec => RecordsAreFinal` |
| `DeadPermits` | `Spec => DeadPermitStaysDead` |
| `RevokedKeys` | `Spec => RevokedStaysOut` |
| `StreamTells` | `Spec => []StreamMatchesTables` |

The assumptions give the constants their types, make the lifetime of a permit
positive and keep `None` apart from every row. `GateInv` says what a call in
progress still knows after it has let go of the database: its stamps are not
later than the clock (`StampsArePast`), a commit between its checks and its
insert holds an `ALLOWED` permit issued before its own stamp and an executor it
found trusted (`CommitsArePermitted`), a revocation concerns a key that is
there (`RevokedIsKnown`; without it not even the types are inductive). Two
lemmas carry the proofs: `FinalStep`, what no step takes away, and `NextCall`,
how a call can have come to what it knows. `RevokedKeys` also needs
`RevokedIsInactive`: a row whose columns match its signed events ends at a
revocation that lies in the past.

`GateTurnsProofs.tla` proves what overlapping calls break, under the hypothesis
`InTurns`, that there is one caller (`\A p, q \in Proc : p = q`), and again for
all values of the other constants:

| Theorem | Statement |
|---|---|
| `PermitsVerifyForEver` | `Spec => []StoredPermitsVerify` |
| `ReceiptsVerifyForEver` | `Spec => []StoredReceiptsVerify` |
| `RevocationReachesAll` | `Spec => []RevocationIsComplete` |
| `RevokedStaysUnconsumed` | `Spec => []RevokedIsUnconsumed` |
| `RepeatsGetTheOriginal` | `Spec => []RequestsAreIdempotent` |
| `RetriesGetTheReceipt` | `Spec => []RetryInTimeGetsReceipt` |
| `GateKeepsAuthority` | `Spec => AuthoritySpec` |

The invariant is `TurnsInv`: what a call has found out is still so at its next
step (`CallInTurn`), and the columns of a key match its signed revocations
(`KeysMatch`). The lemma everything rests on is `ActiveIsAlive`: at a time after
which no key begins or ends (`KeysBefore`), "active at that time" is "never
revoked", so the state that `request_action_signed` reads later than `issued_at`
is the state that the verification computes for `issued_at`. A registration or
revocation comes later than every stored row (`RowsBefore`), hence `StillVerify`.
Each of the steps that use `InTurns` is one where `gate_revoke_race` and the
other races strike.

The refinement has one lemma for each of the four transactions
(`RequestIsDecide`, `CommitIsUse`, `RegisterIsEnrol`, `RevokeIsRetire`); every
other step is a stutter. `CommitIsUse` needs more than `TurnsInv`, since nothing
in `commit_outcome_signed` looks at the agent's key as it is now
(`AuthorityInv`): a revocation is over before anybody sees it (`EndsArePast`),
hence a permit that is still in its time when its agent has been revoked is one
that the revocation names (`UsableIsAlive`), and the agent stays alive until the
commit has inserted its outcome (`CommitsHaveAgents`).

`IdentityProofs.tla` proves, for any processes, keys, signers, tenants and
charges:

| Theorem | Statement |
|---|---|
| `TypeCorrect` | `Spec => []TypeOK` |
| `RecordsAreAlwaysKept` | `Spec => RecordsAreKept` |
| `EveryKeyAlwaysVerifiesInTurn` | `Spec => []EveryKeyVerifiesInTurn` |
| `IdentityFollowsLifelineInTurn` | `Spec => LifelineInTurn` |

The first two hold with any overlap of calls. The types are not inductive alone,
since a rotation copies fields of the row it ends; `CallsFound` adds that the
check has found that row, and it stays.

The other two need the invariant `TurnInv`: as long as no two calls have been
open at once (`InTurn`), every registration and every event was signed by a key
that was in force at that instant, may delegate and was in scope
(`RowIsBacked`, `EventIsBacked`), a key's time is ended by one event at most,
which its row repeats (`EndsOnce`), an identity has one acting key
(`OneActingKey`), no stamp in the tables is as late as the clock
(`TablesBefore`), and what a call has checked still holds when it commits
(`CallInTurn`). Nothing in it speaks of verification, which is why it is
inductive. `Written` describes what the three transactions have in common: a
stamp later than all others, the keys whose time ends at it and those whose time
begins. What was backed before stays backed (`BackingStays`,
`RowStaysBacked`, `EventStaysBacked`), because nothing earlier than the stamp is
touched.

`BackedKeysVerify` leads from there to the recursive check: if everything is
backed and the registry is `Reliable`, every key verifies. `VerifiesUnfolds`
first shows that the recursive definition defines a function at all. Then, by
induction over the budget, a key of rank `r` verifies with a budget above `r`,
for each set of visited keys that it stands below; `AuthorityIsRanked` gives the
rank and `ChainsAreShort` keeps `visited` within its limit.

For the refinement `ActingIsRecorded` says that the keys that verify and are in
force now are those whose rows have no end, so that a registration maps to
`Begin`, a rotation to `Rotate`, a revocation to `Revoke` and all else to a
stutter (`LifelineStep`). `ReliableBefore` is needed since `Reliable` can be
lost, but not regained.

`InductionProofs.tla` has what these proofs and those of `PolicyProofs` need of
the natural numbers: `Induction`, and `Recursion`, that a recursive equation has
a solution. The library states both for an operator, which the provers cannot
instantiate; here they are stated for sets and functions and follow from
`WFMin`, that a well-founded relation has minimal members in each set.

`PolicyProofs.tla` proves, for any processes, keys, tenants and drafts:

| Theorem | Statement |
|---|---|
| `TypeCorrect` | `Spec => []TypeOK` |
| `OneIsAlwaysInForce` | `Spec => []OnePolicyInForce` |
| `OwnPolicyAlwaysAnswers` | `Spec => []OwnPolicyAnswers` |
| `RefusalIsAlwaysExplained` | `Spec => []RefusalIsExplained` |
| `BundlesAreAlwaysKept` | `Spec => BundlesAreKept` |
| `EveryAmountIsExact` | `ParseMinorUnits` of any text is exact, or refuses |
| `RulesAreAlwaysExact` | `Spec => []RulesAreExact` |

`PolicyInv` adds to these that an attestation names an installed bundle of its
holder (`AttestedRows`), why the wildcard's may be retired (`WildcardRows`: only
if an operator has installed one), and what a call inside of `active_policy`
knows for ever (`CallOK`): once it has passed `CheckHistory` the tenant had no
policy when it came in.

The last two are about evaluation and hold for texts, names and lists of any
length. `Value` is recursive over its digits: `ValueIs` says that there is one
function that satisfies its equation (`UpToExists`, `UpToUnique`), from which
`ValueAppend` follows, and `ValueConcat` for the fractions of up to two digits
that the code accepts. `Units` then computes what `parse_minor_units` returns,
and the reference's number times the scale is the same. `MatchesAdmits` and
`AmountWithinLimit` compare the two ways to state a pattern and a limit, and
`VerdictsHold` puts them together, reason by reason.

`LedgerProofs.tla` and `CheckpointsProofs.tla` prove, about `Storage`'s
specification, restores included:

| Theorem | Statement |
|---|---|
| `LedgerIsAlwaysAChain` | `Spec => []LedgerIsAChain` |
| `OnlyTheClockCanInvalidate` | `Spec => []OnlyTheClockInvalidates` |
| `AnswerIsAlwaysOwnOrLater` | `Spec => []AnswerIsOwnOrLater` |
| `StreamsAreChains` | `Spec => []CheckpointsTypeOK` |
| `CheckpointsAlwaysGrow` | `Spec => []CheckpointsGrow` |
| `OnlyTheCoveredFileVerifies` | a document taken of a tenant's events from number 1 on verifies a file of rows if and only if the file is these events |
| `VerdictIsAlwaysExact` | `Spec => []VerdictIsExactForAll` |
| `CheckpointsVerifyTheirEventsOnly` | `Spec => []VerdictIsExact` |
| `TypeCorrect` | `Spec => []TypeOK` |

`LedgerInv` says of the table, and of the backup, that it is a chain whose
depths have no hole and whose identities were issued (`Sound`), and, while the
clock has not stepped back, that stamps follow depths (`Ordered`), which is why
`LastDecision` is the end of the chain whatever the clock did. `PlacesHold` adds
that what a recorder has read in its transaction is still the end of the chain
when it inserts, since nobody else has the write lock. A decision whose recorder
has still to be answered keeps its row because nobody restores while it waits.
`VerdictIsExact` compares with the files an export or one of four kinds of
alteration can make; `VerdictIsExactForAll` with every sequence of rows. It
follows from `OnlyTheCoveredFileVerifies`. That one needs no induction over the
file: a file without fault has the body of each event in its digest, so equal digests
are equal events. `VerdictIsExact` then needs only that exports
(`ExportHasRows`) and altered files (`AlteredHasRows`) are sequences of rows. The
invariant there is `\E S : CheckpointsInv(S)`, with `S`
the set of rows that streams, backup and documents are made of, because the rows
themselves nest (the digest of one is inside the next) and form no set that could
be named beforehand.

The theorems assume the `ASSUME`s of the modules (types of the constants, `None`
no row) and nothing else, beyond the hypotheses named above.

Only model-checked: `StartedIsSettled`, since liveness under fairness is beyond
the prover. Every other property of the passing runs is a theorem. The theorems
that have `InTurns`, `~overlapped` or `Reliable` as a hypothesis are false
without it: the violated runs, and the examples in section 3, show it.

## 5. Plan, and what is not modelled

Done: all the modules and proofs above. Left, in this order:

1. `Mediation`: the composition of `Gate` and `Executor` along the documents
   they exchange. A permit is consumed by the executor, the outcome is committed
   to the gate or never gets there (an `UNKNOWN` outcome is outside its
   contract, an expired permit cannot be committed). Properties: a gate receipt
   implies a settled execution with that status; a revocation stops executions
   that have not been verified; which effects stay without a receipt. Each half
   is modelled and `Executor` has the gate's side as `GateBlocks`; the states of
   the two together are too many for an instance with a revocation and a crash,
   so this wants a coarser `Gate` that `Gate` implements.
2. The policy inside the gate's decision: `Gate` has `Permitted` as a constant,
   `Policy` has the look-up. A policy that is retired between the look-up and
   the insert is embedded in a permit issued after its retirement.

Not modelled:

* the signers (local keys, Vault transit): cryptography and one child process;
  their failures are `LocalFault` in `Executor`;
* the command lines, the MCP server and the Python bindings: parsing and
  formatting around one call each, without state between calls;
* the bindings of intents to HTTP requests in the adapters, the Web3 adapter (a
  stub) and the adapter test harness;
* the reads `get_trace`, `verify_trace`, `export_ledger`, `list_decisions` and
  `count_decisions`, which change nothing and are one or a few queries;
* migrations of databases from before 0.3 and their rows that were never signed.

## 6. Running

    tlc -workers 2 -config MCExecutor_github.cfg MCExecutor
    tlc -workers 2 -config MCGate_concurrent.cfg MCGate
    tlc -workers 2 -config MCIdentity_turns.cfg MCIdentity
    tlc -workers 2 -config MCPolicy_bundles.cfg MCPolicy      # about a minute
    tlc -workers 2 -config MCStorage_restore.cfg MCStorage    # about a minute and a half
    tlapm ExecutorProofs.tla

and `tlapm` likewise with `GateProofs`, `GateTurnsProofs`, `InductionProofs`,
`IdentityProofs`, `PolicyProofs`, `LedgerProofs` and `CheckpointsProofs`.

Operators marked "Mutant of" in the modules are single-fault variants of the
definition that follows them. `PROJECT.json` pairs each property with one that
breaks it; no specification uses them.
