------------------------------- MODULE Policy -------------------------------
(***************************************************************************)
(* Policy bundles: their installation, the default of the wildcard tenant  *)
(* and the look-up of the policy that applies to a request                 *)
(* (src/src/phase3.rs).                                                    *)
(*                                                                         *)
(* install_policy writes in one transaction; everything before it, and the *)
(* whole of active_policy, is a sequence of statements of their own that   *)
(* other processes' calls come between.  active_policy begins by ensuring  *)
(* the default policy and may install or attest it, for any caller.        *)
(***************************************************************************)
EXTENDS Naturals, Sequences, Evaluation

CONSTANTS
  Proc,        \* processes that install policies or request actions
  Signer,      \* the gate keys whose key files they load
  Tenant,      \* tenants of requests
  Draft,       \* policy specifications that callers present
  Baseline,    \* the compatibility default, "tempus.baseline.v1"
  Version,     \* policy versions
  VersionOf,   \* [Draft \cup {Baseline} -> Version]
  TenantOf,    \* [Draft \cup {Baseline} -> Tenant \cup {"*"}]
  None,        \* no row, no value
  MaxTime      \* bound on the clock

Holder == Tenant \cup {"*"}
AnyDraft == Draft \cup {Baseline}

ASSUME PolicyAssumption ==
  /\ VersionOf \in [AnyDraft -> Version]
  /\ TenantOf \in [AnyDraft -> Holder]
  /\ TenantOf[Baseline] = "*"
  /\ \A s \in Draft : VersionOf[s] # VersionOf[Baseline]
  /\ "*" \notin Tenant
  /\ None \notin Holder
  /\ MaxTime \in Nat

VARIABLES
  bundles,     \* policy_bundles: the row of a version
  active,      \* active_policy_attestations: the row of a tenant
  stream,      \* the policy.published events of each tenant's event_stream
  registered,  \* is there an agent yet?
  op,          \* the call a process is inside of
  reply,       \* the answer of the call that returned in the last step
  now          \* the clock

tables == <<bundles, active, stream, registered>>
vars == <<tables, op, reply, now>>

(* What a policy_digest identifies: it covers the specification, the       *)
(* signer and the time of issue.                                           *)
Digest == [draft : AnyDraft, by : Signer, at : Nat]

Bundle == [digest : Digest, retired : Nat \cup {None}]
Attestation == [digest : Digest, by : Signer]

ASSUME NoneAssumption == None \notin Bundle \cup Attestation \cup Digest \cup Nat

Installed == {v \in Version : bundles[v] # None}
Held(h) == {v \in Installed : TenantOf[bundles[v].digest.draft] = h}
InForce(h) == {v \in Held(h) : bundles[v].retired = None}

-----------------------------------------------------------------------------
(* Calls *)

Idle == [step |-> "idle"]

(* Inside of install_policy `tenant` is None for a caller's own            *)
(* installation; otherwise the request of that tenant waits for it.        *)
(* `had`: did the tenant have a policy when the request came in?           *)
Calls ==
  {Idle} \cup
  [step : {"bootstrapping", "ensuring", "attesting", "querying", "missing", "falling_back", "signing", "signed"},
   draft : AnyDraft, by : Signer, at : Nat, tenant : Holder \cup {None}, had : BOOLEAN]

NoReply == [call |-> "none"]

Continue(p, step) ==
  LET c == op[p] IN
  /\ op' = [op EXCEPT ![p] = [step |-> step, draft |-> c.draft, by |-> c.by, at |-> c.at,
                              tenant |-> c.tenant, had |-> c.had]]
  /\ reply' = NoReply

Return(p, r) ==
  /\ op' = [op EXCEPT ![p] = Idle]
  /\ reply' = r

NoPolicy == [result |-> "not_found", digest |-> None]
Invalid == [result |-> "invalid", digest |-> None]
Applies(d) == [result |-> "policy", digest |-> d]
Fails(why) == [result |-> why, digest |-> None]

(* `tenant` is None in the reply to an installation. *)
Answer(p, a) ==
  Return(p, [call |-> "answer", tenant |-> op[p].tenant, by |-> op[p].by, had |-> op[p].had,
             result |-> a.result, digest |-> a.digest])

(* A transaction writes to disk (synchronous = FULL): the clock moves on. *)
Transaction == now < MaxTime /\ now' = now + 1

Init ==
  /\ bundles = [v \in Version |-> None]
  /\ active = [h \in Holder |-> None]
  /\ stream = [h \in Holder |-> <<>>]
  /\ registered \in BOOLEAN  \* TRUE: a ledger from before there were policies
  /\ op = [p \in Proc |-> Idle]
  /\ reply = NoReply
  /\ now = 0

-----------------------------------------------------------------------------
(* install_policy *)

(* Mutant of Publish: the previous policy of the tenant stays in force. *)
PublishWithoutRetiring(d) ==
  LET h == TenantOf[d.draft] IN
  /\ bundles' = [bundles EXCEPT ![VersionOf[d.draft]] = [digest |-> d, retired |-> None]]
  /\ active' = [active EXCEPT ![h] = [digest |-> d, by |-> d.by]]
  /\ stream' = [stream EXCEPT ![h] = Append(@, d)]

(* Mutant of Publish: INSERT OR IGNORE of the attestation. *)
PublishKeepingAttestation(d) ==
  LET h == TenantOf[d.draft] IN
  /\ bundles' = [v \in Version |->
                   IF v = VersionOf[d.draft] THEN [digest |-> d, retired |-> None]
                   ELSE IF v \in InForce(h) THEN [digest |-> bundles[v].digest, retired |-> d.at]
                   ELSE bundles[v]]
  /\ active' = [active EXCEPT ![h] = IF @ = None THEN [digest |-> d, by |-> d.by] ELSE @]
  /\ stream' = [stream EXCEPT ![h] = Append(@, d)]

(* Mutant of Publish: the row of the tenant's policy is updated in place. *)
PublishInPlace(d) ==
  LET h == TenantOf[d.draft] IN
  /\ bundles' = [v \in Version |->
                   IF (v = VersionOf[d.draft] /\ InForce(h) = {}) \/ v \in InForce(h)
                     THEN [digest |-> d, retired |-> None]
                   ELSE bundles[v]]
  /\ active' = [active EXCEPT ![h] = [digest |-> d, by |-> d.by]]
  /\ stream' = [stream EXCEPT ![h] = Append(@, d)]

(* The writes of the installation's transaction, for the bundle d.         *)
Publish(d) ==
  LET h == TenantOf[d.draft] IN
  /\ bundles' = [v \in Version |->
                   IF v = VersionOf[d.draft] THEN [digest |-> d, retired |-> None]
                   ELSE IF v \in InForce(h) THEN [digest |-> bundles[v].digest, retired |-> d.at]
                   ELSE bundles[v]]
  /\ active' = [active EXCEPT ![h] = [digest |-> d, by |-> d.by]]
  /\ stream' = [stream EXCEPT ![h] = Append(@, d)]

DigestOf(c) == [draft |-> c.draft, by |-> c.by, at |-> c.at]

(* An installation that was nested in a request lets it go on. *)
Done(p, d) ==
  IF op[p].tenant = None THEN Answer(p, Applies(d)) ELSE Continue(p, "querying")

(* issued_at is taken; the bundle is signed with it ... *)
InstallStamp(p, s, k) ==
  /\ op[p] = Idle
  /\ op' = [op EXCEPT ![p] = [step |-> "signing", draft |-> s, by |-> k, at |-> now,
                              tenant |-> None, had |-> FALSE]]
  /\ reply' = NoReply
  /\ UNCHANGED <<tables, now>>

(* ... before the version is looked up ... *)
InstallLookUp(p) ==
  LET c == op[p]
      v == VersionOf[c.draft]
  IN
  /\ c.step = "signing"
  /\ IF v \notin Installed THEN Continue(p, "signed")
     ELSE IF bundles[v].digest = DigestOf(c) THEN Done(p, bundles[v].digest)
     ELSE Answer(p, Fails("conflict"))
  /\ UNCHANGED <<tables, now>>

(* Mutant of InstallCommit: INSERT OR REPLACE of the bundle. *)
InstallReplacing(p) ==
  LET c == op[p] IN
  /\ c.step = "signed"
  /\ Transaction
  /\ Publish(DigestOf(c))
  /\ Done(p, DigestOf(c))
  /\ UNCHANGED registered

(* ... and that before the transaction, where the version is unique. *)
InstallCommit(p) ==
  LET c == op[p] IN
  /\ c.step = "signed"
  /\ VersionOf[c.draft] \notin Installed
  /\ Transaction
  /\ Publish(DigestOf(c))
  /\ Done(p, DigestOf(c))
  /\ UNCHANGED registered

InstallRollback(p) ==
  LET c == op[p] IN
  /\ c.step = "signed"
  /\ VersionOf[c.draft] \in Installed
  /\ Answer(p, Fails("failed"))
  /\ UNCHANGED <<tables, now>>

-----------------------------------------------------------------------------
(* ensure_default_policy *)

DefaultIsAttested ==
  active["*"] # None /\ VersionOf[active["*"].digest.draft] = VersionOf[Baseline]

Attest(k) ==
  active' = [active EXCEPT !["*"] = [digest |-> bundles[VersionOf[Baseline]].digest, by |-> k]]

(* register_agent finds no agent yet ... *)
BootstrapStamp(p, k) ==
  /\ op[p] = Idle
  /\ ~registered
  /\ op' = [op EXCEPT ![p] = [step |-> "bootstrapping", draft |-> Baseline, by |-> k, at |-> now,
                              tenant |-> None, had |-> FALSE]]
  /\ reply' = NoReply
  /\ UNCHANGED <<tables, now>>

(* ... and ensures the default in its transaction, which may not be the    *)
(* first one any more.                                                     *)
BootstrapCommit(p) ==
  LET c == op[p] IN
  /\ c.step = "bootstrapping"
  /\ Transaction
  /\ registered' = TRUE
  /\ IF VersionOf[Baseline] \notin Installed THEN Publish(DigestOf(c))
     ELSE /\ IF DefaultIsAttested THEN UNCHANGED active ELSE Attest(c.by)
          /\ UNCHANGED <<bundles, stream>>
  /\ Return(p, NoReply)

(* active_policy is called once the gate knows its own key. *)
RequestStamp(p, h, k) ==
  /\ op[p] = Idle
  /\ registered
  /\ op' = [op EXCEPT ![p] = [step |-> "ensuring", draft |-> Baseline, by |-> k, at |-> now,
                              tenant |-> h, had |-> Held(h) # {}]]
  /\ reply' = NoReply
  /\ UNCHANGED <<tables, now>>

(* Mutant of EnsureDefault: only the first registration ensures a default. *)
EnsureNothing(p) ==
  /\ op[p].step = "ensuring"
  /\ Continue(p, "querying")
  /\ UNCHANGED <<tables, now>>

EnsureDefault(p) ==
  /\ op[p].step = "ensuring"
  /\ Continue(p, IF VersionOf[Baseline] \notin Installed THEN "signing"
                 ELSE IF DefaultIsAttested THEN "querying"
                 ELSE "attesting")
  /\ UNCHANGED <<tables, now>>

(* The default is attested again, in force or not. *)
AttestDefault(p) ==
  /\ op[p].step = "attesting"
  /\ Transaction
  /\ Attest(op[p].by)
  /\ Continue(p, "querying")
  /\ UNCHANGED <<bundles, stream, registered>>

-----------------------------------------------------------------------------
(* active_policy *)

(* The attested bundle of h, if it is in force, as a call that runs with   *)
(* the key k sees it.                                                      *)
Resolve(h, k) ==
  LET a == active[h]
      b == bundles[VersionOf[a.digest.draft]]
  IN
  IF a = None THEN NoPolicy
  ELSE IF b = None THEN NoPolicy
  ELSE IF b.retired # None THEN NoPolicy
  ELSE IF a.by # k \/ b.digest.by # k \/ b.digest # a.digest THEN Invalid
  ELSE Applies(b.digest)

QueryTenant(p) ==
  LET found == Resolve(op[p].tenant, op[p].by) IN
  /\ op[p].step = "querying"
  /\ IF found # NoPolicy THEN Answer(p, found)
     ELSE Continue(p, IF op[p].tenant = "*" THEN "falling_back" ELSE "missing")
  /\ UNCHANGED <<tables, now>>

(* A tenant that ever had a policy is refused. *)
CheckHistory(p) ==
  /\ op[p].step = "missing"
  /\ IF Held(op[p].tenant) # {} THEN Answer(p, NoPolicy) ELSE Continue(p, "falling_back")
  /\ UNCHANGED <<tables, now>>

QueryWildcard(p) ==
  /\ op[p].step = "falling_back"
  /\ Answer(p, Resolve("*", op[p].by))
  /\ UNCHANGED <<tables, now>>

-----------------------------------------------------------------------------
(* A process dies inside a call; an open transaction is rolled back. *)
Crash(p) ==
  /\ op[p] # Idle
  /\ Return(p, NoReply)
  /\ UNCHANGED <<tables, now>>

Next ==
  \E p \in Proc :
    \/ \E k \in Signer :
         \/ \E s \in Draft : InstallStamp(p, s, k)
         \/ \E h \in Holder : RequestStamp(p, h, k)
         \/ BootstrapStamp(p, k)
    \/ InstallLookUp(p) \/ InstallCommit(p) \/ InstallRollback(p)
    \/ BootstrapCommit(p) \/ EnsureDefault(p) \/ AttestDefault(p)
    \/ QueryTenant(p) \/ CheckHistory(p) \/ QueryWildcard(p)
    \/ Crash(p)

Spec == Init /\ [][Next]_vars

-----------------------------------------------------------------------------
(* Properties *)

Reply ==
  {NoReply} \cup
  [call : {"answer"}, tenant : Holder \cup {None}, by : Signer, had : BOOLEAN,
   result : {"not_found", "invalid", "policy", "conflict", "failed"}, digest : Digest \cup {None}]

(* The tables, the calls in progress and the answers have their types, and *)
(* a row is filed under its own version.                                   *)
TypeOK ==
  /\ bundles \in [Version -> Bundle \cup {None}]
  /\ active \in [Holder -> Attestation \cup {None}]
  /\ stream \in [Holder -> Seq(Digest)]
  /\ registered \in BOOLEAN
  /\ op \in [Proc -> Calls]
  /\ reply \in Reply
  /\ now \in Nat
  /\ \A v \in Installed : VersionOf[bundles[v].digest.draft] = v

(* However installations interleave, a tenant that has had a policy has    *)
(* exactly one in force, which is the one its attestation names and the    *)
(* last one its event stream tells of.  (install_policy reads outside its  *)
(* transaction; ensure_default_policy attests outside of any.)             *)
OnePolicyInForce ==
  /\ \A h \in Holder : \A v, w \in InForce(h) : v = w
  /\ \A t \in Tenant :
       Held(t) # {} => \E v \in InForce(t) :
         /\ active[t] # None /\ active[t].digest = bundles[v].digest
         /\ stream[t] # <<>> /\ stream[t][Len(stream[t])] = bundles[v].digest

(* A version identifies the same bytes for ever, and a retired bundle      *)
(* neither comes back nor changes its time of retirement: permits embed    *)
(* the bundle and are verified against it later.                           *)
BundlesAreKept ==
  [][\A v \in Installed :
       /\ bundles'[v] # None /\ bundles'[v].digest = bundles[v].digest
       /\ bundles[v].retired # None => bundles'[v].retired = bundles[v].retired]_vars

(* A request of a tenant that had a policy when the call began is answered *)
(* with a policy of that tenant, or refused because another key signed it: *)
(* never with the wildcard's, and never with "not found", whatever is      *)
(* installed between the statements of active_policy.                      *)
OwnPolicyAnswers ==
  reply.call = "answer" /\ reply.tenant \in Tenant /\ reply.had =>
    \/ reply.result = "policy" /\ TenantOf[reply.digest.draft] = reply.tenant
    \/ reply.result \in {"invalid", "conflict", "failed"}

(* A request is refused for want of a policy only if an operator's policy  *)
(* for the wildcard tenant is there, or the tenant's first policy came     *)
(* between two statements of the call; and as invalid only if another key  *)
(* than the caller's signs policies in this database.                      *)
RefusalIsExplained ==
  reply.call = "answer" /\ reply.tenant # None =>
    /\ reply.result = "not_found" =>
         \/ \E v \in Held("*") : bundles[v].digest.draft # Baseline
         \/ ~reply.had /\ Held(reply.tenant) # {}
    /\ reply.result = "invalid" =>
         \E h \in Holder : active[h] # None /\ active[h].by # reply.by
    /\ reply.result \in {"conflict", "failed"} => VersionOf[Baseline] \in Installed

(* What the comment on the call says, "Install and activate": a policy an  *)
(* operator installs for the wildcard tenant answers the requests of the   *)
(* tenants without one of their own.                                       *)
WildcardIsActivated ==
  reply.call = "answer" /\ reply.tenant \in Tenant /\ Held(reply.tenant) = {} =>
    \/ reply.result = "policy" /\ reply.digest.draft # Baseline
    \/ \A v \in Held("*") : bundles[v].digest.draft = Baseline

(* evaluate_policy follows active_policy at once, and what the answered    *)
(* policy says may be any Rule: no payment gets past it by the way its     *)
(* amount is written, and no intent by the way a name continues a pattern. *)
RulesAreExact ==
  reply.call = "answer" /\ reply.result = "policy" => AmountsAreExact /\ VerdictsAreExact
=============================================================================
