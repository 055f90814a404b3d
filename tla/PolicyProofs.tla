---------------------------- MODULE PolicyProofs ----------------------------
(***************************************************************************)
(* Policy bundles for any processes, signers, tenants, drafts and times.   *)
(*                                                                         *)
(* The inductive invariant relates the three tables that an installation   *)
(* writes in its transaction to each other, and what a call has found so   *)
(* far to what the tables will still say when it goes on: no row is ever   *)
(* removed, so a tenant that had a policy keeps having one.                *)
(***************************************************************************)
EXTENDS Policy, InductionProofs, SequenceTheorems, TLAPS

CallTypeOK == op \in [Proc -> Calls] /\ reply \in Reply

TablesTypeOK ==
  /\ bundles \in [Version -> Bundle \cup {None}]
  /\ active \in [Holder -> Attestation \cup {None}]
  /\ stream \in [Holder -> Seq(Digest)]
  /\ registered \in BOOLEAN
  /\ now \in Nat
  /\ \A v \in Installed : VersionOf[bundles[v].digest.draft] = v

(* What a process inside of a call remembers of it. *)
LEMMA CallFields ==
  ASSUME CallTypeOK, NEW p \in Proc, op[p] # Idle
  PROVE  /\ op[p].draft \in AnyDraft /\ op[p].by \in Signer /\ op[p].at \in Nat
         /\ op[p].tenant \in Holder \cup {None} /\ op[p].had \in BOOLEAN
         /\ DigestOf(op[p]) \in Digest
  <1>1. op[p] \in [step : {"bootstrapping", "ensuring", "attesting", "querying", "missing",
                           "falling_back", "signing", "signed"},
                   draft : AnyDraft, by : Signer, at : Nat, tenant : Holder \cup {None}, had : BOOLEAN]
    BY DEF CallTypeOK, Calls
  <1> QED BY <1>1 DEF DigestOf, Digest

LEMMA IdleIsDifferent ==
  ASSUME NEW c, c.step # "idle"
  PROVE  c # Idle
  BY DEF Idle

LEMMA ContinueTypes ==
  ASSUME CallTypeOK, NEW p \in Proc, op[p] # Idle,
         NEW step \in {"querying", "missing", "falling_back", "signing", "signed", "attesting"},
         Continue(p, step)
  PROVE  CallTypeOK'
  <1> DEFINE c == op[p]
             d == [step |-> step, draft |-> c.draft, by |-> c.by, at |-> c.at,
                   tenant |-> c.tenant, had |-> c.had]
  <1>1. d \in Calls
    BY CallFields DEF Calls
  <1>2. op' = [op EXCEPT ![p] = d] /\ reply' = NoReply
    BY DEF Continue
  <1> QED BY <1>1, <1>2 DEF CallTypeOK, Reply

LEMMA AnswerTypes ==
  ASSUME CallTypeOK, NEW p \in Proc, op[p] # Idle,
         NEW a \in [result : {"not_found", "invalid", "policy", "conflict", "failed"},
                    digest : Digest \cup {None}],
         Answer(p, a)
  PROVE  CallTypeOK'
  <1> DEFINE r == [call |-> "answer", tenant |-> op[p].tenant, by |-> op[p].by, had |-> op[p].had,
                   result |-> a.result, digest |-> a.digest]
  <1>1. r \in Reply
    BY CallFields DEF Reply
  <1>2. op' = [op EXCEPT ![p] = Idle] /\ reply' = r
    BY DEF Answer, Return
  <1> QED BY <1>1, <1>2 DEF CallTypeOK, Calls

LEMMA ReturnTypes ==
  ASSUME CallTypeOK, NEW p \in Proc, Return(p, NoReply)
  PROVE  CallTypeOK'
  BY DEF CallTypeOK, Return, Calls, Reply

(* What a publication does to each row. *)
LEMMA PublishRows ==
  ASSUME TablesTypeOK, NEW d \in Digest, VersionOf[d.draft] \notin Installed, Publish(d)
  PROVE  /\ VersionOf[d.draft] \in Version /\ TenantOf[d.draft] \in Holder
         /\ bundles'[VersionOf[d.draft]] = [digest |-> d, retired |-> None]
         /\ \A v \in Version \ {VersionOf[d.draft]} :
              /\ v \in InForce(TenantOf[d.draft]) =>
                   bundles'[v] = [digest |-> bundles[v].digest, retired |-> d.at]
              /\ v \notin InForce(TenantOf[d.draft]) => bundles'[v] = bundles[v]
         /\ active' = [active EXCEPT ![TenantOf[d.draft]] = [digest |-> d, by |-> d.by]]
         /\ stream' = [stream EXCEPT ![TenantOf[d.draft]] = Append(@, d)]
  <1>1. d.draft \in AnyDraft
    BY DEF Digest
  <1>2. VersionOf[d.draft] \in Version /\ TenantOf[d.draft] \in Holder
    BY <1>1, PolicyAssumption
  <1> QED BY <1>2 DEF Publish

LEMMA PublishTypes ==
  ASSUME TablesTypeOK, NEW d \in Digest, VersionOf[d.draft] \notin Installed, Publish(d),
         registered' \in BOOLEAN, now' \in Nat
  PROVE  TablesTypeOK'
  <1> DEFINE w == VersionOf[d.draft]
             h == TenantOf[d.draft]
  <1>7. /\ w \in Version /\ h \in Holder
        /\ bundles'[w] = [digest |-> d, retired |-> None]
        /\ \A v \in Version \ {w} :
             /\ v \in InForce(h) => bundles'[v] = [digest |-> bundles[v].digest, retired |-> d.at]
             /\ v \notin InForce(h) => bundles'[v] = bundles[v]
        /\ active' = [active EXCEPT ![h] = [digest |-> d, by |-> d.by]]
        /\ stream' = [stream EXCEPT ![h] = Append(@, d)]
    BY PublishRows
  <1> HIDE DEF w, h
  <1>1. d.draft \in AnyDraft /\ d.by \in Signer /\ d.at \in Nat
    BY DEF Digest
  <1>2. ASSUME NEW v \in Version
        PROVE  /\ bundles'[v] \in Bundle \cup {None}
               /\ bundles'[v] # None => VersionOf[bundles'[v].digest.draft] = v
    <2>1. CASE v = w
      <3>1. bundles'[v] = [digest |-> d, retired |-> None]
        BY <2>1, <1>7
      <3>2. [digest |-> d, retired |-> None] \in Bundle
        BY DEF Bundle
      <3>3. bundles'[v].digest = d
        BY <3>1
      <3> QED BY <2>1, <3>1, <3>2, <3>3 DEF w
    <2>2. CASE v # w /\ v \in InForce(h)
      <3>1. bundles'[v] = [digest |-> bundles[v].digest, retired |-> d.at]
        BY <2>2, <1>7
      <3>2. v \in Installed /\ bundles[v] \in Bundle
        BY <2>2 DEF InForce, Held, Installed, TablesTypeOK
      <3>3. bundles[v].digest \in Digest /\ VersionOf[bundles[v].digest.draft] = v
        BY <3>2 DEF Bundle, TablesTypeOK
      <3> QED BY <1>1, <3>1, <3>3 DEF Bundle
    <2>3. CASE v # w /\ v \notin InForce(h)
      <3>1. bundles'[v] = bundles[v]
        BY <2>3, <1>7
      <3>2. bundles[v] # None => VersionOf[bundles[v].digest.draft] = v
        BY DEF TablesTypeOK, Installed
      <3> QED BY <3>1, <3>2 DEF TablesTypeOK
    <2> QED BY <2>1, <2>2, <2>3
  <1>3. bundles' \in [Version -> Bundle \cup {None}]
    <2>1. bundles' = [v \in Version |-> bundles'[v]]
      BY DEF Publish
    <2> QED BY <2>1, <1>2
  <1>4. active' \in [Holder -> Attestation \cup {None}]
    <2>1. [digest |-> d, by |-> d.by] \in Attestation
      BY <1>1 DEF Attestation
    <2> QED BY <2>1, <1>7 DEF TablesTypeOK
  <1>5. stream' \in [Holder -> Seq(Digest)]
    <2>1. h \in Holder
      BY <1>7
    <2>2. Append(stream[h], d) \in Seq(Digest)
      BY <2>1 DEF TablesTypeOK
    <2>3. stream' = [stream EXCEPT ![h] = Append(stream[h], d)]
      BY <1>7
    <2> QED BY <2>1, <2>2, <2>3 DEF TablesTypeOK
  <1>6. \A v \in Installed' : VersionOf[bundles'[v].digest.draft] = v
    BY <1>2 DEF Installed
  <1> QED BY <1>3, <1>4, <1>5, <1>6 DEF TablesTypeOK

-----------------------------------------------------------------------------
(* The invariant *)

VB == VersionOf[Baseline]

HeldIn(b, h) == {v \in Version : b[v] # None /\ TenantOf[b[v].digest.draft] = h}

OperatorRules == \E v \in Held("*") : bundles[v].digest.draft # Baseline

(* An attestation is of an installed bundle of the tenant, and by its      *)
(* signer while the bundle is in force.                                    *)
AttestedRows ==
  \A h \in Holder : active[h] # None =>
    LET v == VersionOf[active[h].digest.draft] IN
    /\ TenantOf[active[h].digest.draft] = h
    /\ v \in Installed
    /\ bundles[v].digest = active[h].digest
    /\ bundles[v].retired = None => active[h].by = active[h].digest.by

(* The default is attested while it is in force, and only an operator's    *)
(* policy for the wildcard tenant retires one of that tenant.              *)
WildcardRows ==
  /\ VB \in Installed => active["*"] # None
  /\ VB \in Installed /\ bundles[VB].retired = None => active["*"].digest.draft = Baseline
  /\ \A v \in Held("*") : bundles[v].retired # None => OperatorRules

TablesInv == TablesTypeOK /\ OnePolicyInForce /\ AttestedRows /\ WildcardRows

(* What a call c has found out holds of the bundles b for ever. *)
CallOK(c, b) ==
  /\ c.step \in {"bootstrapping", "ensuring", "attesting"} => c.draft = Baseline
  /\ c.step \in {"signing", "signed"} /\ c.tenant # None => c.draft = Baseline
  /\ c.step \in {"ensuring", "attesting", "querying", "missing", "falling_back"} => c.tenant \in Holder
  /\ c.step \in {"attesting", "querying", "missing", "falling_back"} => b[VB] # None
  /\ c.step = "attesting" => b[VB].retired # None
  /\ c.step = "missing" => c.tenant \in Tenant
  /\ c.step \in {"missing", "falling_back"} /\ c.tenant \in Tenant => c.had = FALSE
  /\ c.tenant \in Tenant /\ c.had = TRUE => HeldIn(b, c.tenant) # {}

CallsInv == \A p \in Proc : op[p] # Idle => CallOK(op[p], bundles)

PolicyInv ==
  /\ TablesInv
  /\ CallTypeOK
  /\ CallsInv
  /\ OwnPolicyAnswers
  /\ RefusalIsExplained

(* No row goes away or changes, but for being retired once. *)
Grows ==
  \A v \in Installed :
    /\ bundles'[v] # None /\ bundles'[v].digest = bundles[v].digest
    /\ bundles[v].retired # None => bundles'[v].retired = bundles[v].retired

LEMMA VersionsOfDrafts ==
  /\ VB \in Version /\ "*" \in Holder /\ Baseline \in AnyDraft
  /\ \A s \in AnyDraft : VersionOf[s] \in Version /\ TenantOf[s] \in Holder
  /\ \A s \in AnyDraft : VersionOf[s] = VB => s = Baseline
  BY PolicyAssumption DEF VB, AnyDraft, Holder

LEMMA InstalledRows ==
  ASSUME TablesTypeOK, NEW v \in Installed
  PROVE  /\ v \in Version /\ bundles[v] # None /\ bundles[v] \in Bundle
         /\ bundles[v].digest \in Digest /\ bundles[v].digest.draft \in AnyDraft
         /\ bundles[v].retired \in Nat \cup {None}
         /\ VersionOf[bundles[v].digest.draft] = v
         /\ TenantOf[bundles[v].digest.draft] \in Holder
  <1>1. v \in Version /\ bundles[v] # None /\ bundles[v] \in Bundle
    BY DEF TablesTypeOK, Installed
  <1>2. /\ bundles[v].digest \in Digest /\ bundles[v].digest.draft \in AnyDraft
        /\ bundles[v].retired \in Nat \cup {None}
    BY <1>1 DEF Bundle, Digest
  <1> QED BY <1>1, <1>2, VersionsOfDrafts DEF TablesTypeOK

LEMMA AttestedAreDigests ==
  ASSUME TablesTypeOK, NEW h \in Holder, active[h] # None
  PROVE  /\ active[h].digest \in Digest /\ active[h].digest.draft \in AnyDraft
         /\ active[h].by \in Signer
  <1>1. active[h] \in Attestation
    BY DEF TablesTypeOK
  <1> QED BY <1>1 DEF Attestation, Digest

LEMMA NatIsNotNone == \A n \in Nat : n # None
  BY NoneAssumption

LEMMA BundleIsNotNone == \A b \in Bundle : b # None
  BY NoneAssumption

LEMMA AttestationIsNotNone == \A a \in Attestation : a # None
  BY NoneAssumption

(* An installation, seen from the rows that were there before. *)
LEMMA PublishGrows ==
  ASSUME TablesTypeOK, NEW d \in Digest, VersionOf[d.draft] \notin Installed, Publish(d)
  PROVE  /\ Grows
         /\ Installed' = Installed \cup {VersionOf[d.draft]}
         /\ bundles'[VersionOf[d.draft]] = [digest |-> d, retired |-> None]
         /\ \A v \in Installed : v \in InForce(TenantOf[d.draft]) => bundles'[v].retired # None
         /\ \A v \in Installed : v \notin InForce(TenantOf[d.draft]) => bundles'[v] = bundles[v]
  <1> DEFINE w == VersionOf[d.draft]
             h == TenantOf[d.draft]
  <1>1. /\ w \in Version /\ w \notin Installed
        /\ bundles'[w] = [digest |-> d, retired |-> None]
        /\ \A v \in Version \ {w} :
             /\ v \in InForce(h) => bundles'[v] = [digest |-> bundles[v].digest, retired |-> d.at]
             /\ v \notin InForce(h) => bundles'[v] = bundles[v]
    BY PublishRows
  <1>2. d.at \in Nat /\ d.at # None
    BY NatIsNotNone DEF Digest
  <1> HIDE DEF w, h
  <1>3. ASSUME NEW v \in Installed
        PROVE  /\ bundles'[v] # None /\ bundles'[v].digest = bundles[v].digest
               /\ bundles[v].retired # None => bundles'[v].retired = bundles[v].retired
               /\ v \in InForce(h) => bundles'[v].retired # None
               /\ v \notin InForce(h) => bundles'[v] = bundles[v]
    <2>1. v \in Version \ {w} /\ bundles[v] # None /\ bundles[v].digest \in Digest
      BY <1>1, InstalledRows
    <2>2. CASE v \in InForce(h)
      <3>1. bundles'[v] = [digest |-> bundles[v].digest, retired |-> d.at]
        BY <1>1, <2>1, <2>2
      <3>2. bundles[v].retired = None
        BY <2>2 DEF InForce
      <3>3. [digest |-> bundles[v].digest, retired |-> d.at] \in Bundle
        BY <1>2, <2>1 DEF Bundle
      <3> QED BY <3>1, <3>2, <3>3, <2>2, <1>2, BundleIsNotNone
    <2>3. CASE v \notin InForce(h)
      BY <1>1, <2>1, <2>3
    <2> QED BY <2>2, <2>3
  <1>4. bundles'[w] # None
    <2>1. [digest |-> d, retired |-> None] \in Bundle
      BY DEF Bundle
    <2> QED BY <1>1, <2>1, BundleIsNotNone
  <1>5. \A v \in Version \ {w} : v \notin Installed => bundles'[v] = None
    <2> SUFFICES ASSUME NEW v \in Version \ {w}, v \notin Installed PROVE bundles'[v] = None
      OBVIOUS
    <2>1. v \notin InForce(h) /\ bundles[v] = None
      BY DEF InForce, Held, Installed
    <2> QED BY <1>1, <2>1
  <1>6. Installed' = Installed \cup {w}
    <2>1. Installed' = {v \in Version : bundles'[v] # None}
      BY DEF Installed
    <2>2. \A v \in Installed : v \in Version /\ bundles'[v] # None
      BY <1>3, InstalledRows
    <2> QED BY <2>1, <2>2, <1>1, <1>4, <1>5
  <1> QED BY <1>1, <1>3, <1>6 DEF Grows, w, h

-----------------------------------------------------------------------------
(* The tables *)

LEMMA PublishKeepsOne ==
  ASSUME TablesInv, NEW d \in Digest, VersionOf[d.draft] \notin Installed, Publish(d)
  PROVE  OnePolicyInForce'
  <1> DEFINE w == VersionOf[d.draft]
             g == TenantOf[d.draft]
  <1>1. TablesTypeOK /\ OnePolicyInForce
    BY DEF TablesInv
  <1>2. /\ Installed' = Installed \cup {w}
        /\ bundles'[w] = [digest |-> d, retired |-> None]
        /\ \A v \in Installed : v \in InForce(g) => bundles'[v].retired # None
        /\ \A v \in Installed : v \notin InForce(g) => bundles'[v] = bundles[v]
        /\ \A v \in Installed : bundles'[v].digest = bundles[v].digest
    BY <1>1, PublishGrows DEF Grows
  <1>3. /\ w \in Version /\ g \in Holder /\ TenantOf[d.draft] = g
        /\ active' = [active EXCEPT ![g] = [digest |-> d, by |-> d.by]]
        /\ stream' = [stream EXCEPT ![g] = Append(@, d)]
        /\ d.by \in Signer
    BY <1>1, PublishRows DEF Digest
  <1> HIDE DEF w, g
  <1>4. \A h \in Holder : InForce(h)' = IF h = g THEN {w} ELSE InForce(h)
    <2> TAKE h \in Holder
    <2>1. InForce(h)' = {v \in Installed' : TenantOf[bundles'[v].digest.draft] = h /\ bundles'[v].retired = None}
      BY DEF InForce, Held
    <2>2. bundles'[w].digest.draft = d.draft /\ bundles'[w].retired = None
      BY <1>2
    <2>3. CASE h = g
      <3>1. \A v \in Installed : TenantOf[bundles'[v].digest.draft] = h => bundles'[v].retired # None
        <4> SUFFICES ASSUME NEW v \in Installed, TenantOf[bundles[v].digest.draft] = g
                     PROVE  bundles'[v].retired # None
          BY <1>2, <2>3
        <4>1. CASE bundles[v].retired = None
          BY <4>1, <1>2 DEF InForce, Held
        <4>2. CASE bundles[v].retired # None
          <5>1. v \notin InForce(g)
            BY <4>2 DEF InForce
          <5> QED BY <4>2, <5>1, <1>2
        <4> QED BY <4>1, <4>2
      <3> QED BY <2>1, <2>2, <2>3, <3>1, <1>2, <1>3
    <2>4. CASE h # g
      <3>1. \A v \in Installed : TenantOf[bundles[v].digest.draft] = h => bundles'[v] = bundles[v]
        BY <2>4, <1>2 DEF InForce, Held
      <3>2. InForce(h) = {v \in Installed : TenantOf[bundles[v].digest.draft] = h /\ bundles[v].retired = None}
        BY DEF InForce, Held
      <3> QED BY <2>1, <2>2, <2>4, <3>1, <3>2, <1>2, <1>3
    <2> QED BY <2>3, <2>4
  <1>5. \A h \in Holder : \A u, v \in InForce(h)' : u = v
    BY <1>1, <1>4 DEF OnePolicyInForce
  <1>6. ASSUME NEW t \in Tenant, Held(t)' # {}
        PROVE  \E v \in InForce(t)' :
                 /\ active'[t] # None /\ active'[t].digest = bundles'[v].digest
                 /\ stream'[t] # <<>> /\ stream'[t][Len(stream'[t])] = bundles'[v].digest
    <2>1. t \in Holder
      BY DEF Holder
    <2>2. CASE t = g
      <3>1. active'[t] = [digest |-> d, by |-> d.by] /\ [digest |-> d, by |-> d.by] \in Attestation
        BY <2>1, <2>2, <1>1, <1>3 DEF TablesTypeOK, Attestation
      <3>2. active'[t] # None /\ active'[t].digest = d
        BY <3>1, AttestationIsNotNone
      <3>3. stream[g] \in Seq(Digest) /\ stream'[t] = Append(stream[g], d)
        BY <2>1, <2>2, <1>1, <1>3 DEF TablesTypeOK
      <3>4. stream'[t] # <<>> /\ stream'[t][Len(stream'[t])] = d
        BY <3>3
      <3>5. bundles'[w].digest = d /\ w \in InForce(t)'
        BY <1>2, <1>4, <2>1, <2>2
      <3> QED BY <3>2, <3>4, <3>5
    <2>3. CASE t # g
      <3>1. Held(t) # {}
        <4>1. PICK v \in Installed' : TenantOf[bundles'[v].digest.draft] = t
          BY <1>6 DEF Held
        <4>2. v # w
          BY <4>1, <1>2, <1>3, <2>3
        <4> QED BY <4>1, <4>2, <1>2 DEF Held
      <3>2. PICK v \in InForce(t) : /\ active[t] # None /\ active[t].digest = bundles[v].digest
                                    /\ stream[t] # <<>> /\ stream[t][Len(stream[t])] = bundles[v].digest
        BY <3>1, <1>1 DEF OnePolicyInForce
      <3>3. v \in InForce(t)' /\ bundles'[v].digest = bundles[v].digest
        BY <3>2, <1>2, <1>4, <2>1, <2>3 DEF InForce, Held
      <3>4. active'[t] = active[t] /\ stream'[t] = stream[t]
        BY <2>1, <2>3, <1>1, <1>3 DEF TablesTypeOK
      <3> QED BY <3>2, <3>3, <3>4
    <2> QED BY <2>2, <2>3
  <1> QED BY <1>5, <1>6 DEF OnePolicyInForce

LEMMA PublishKeepsAttested ==
  ASSUME TablesInv, NEW d \in Digest, VersionOf[d.draft] \notin Installed, Publish(d)
  PROVE  AttestedRows'
  <1> DEFINE w == VersionOf[d.draft]
             g == TenantOf[d.draft]
  <1>1. TablesTypeOK /\ AttestedRows
    BY DEF TablesInv
  <1>2. /\ Installed' = Installed \cup {w}
        /\ bundles'[w] = [digest |-> d, retired |-> None]
        /\ Grows
    BY <1>1, PublishGrows
  <1>3. active' = [active EXCEPT ![g] = [digest |-> d, by |-> d.by]]
    BY <1>1, PublishRows
  <1>4. \A v \in Installed : bundles'[v].retired = None => bundles[v].retired = None
    BY <1>2 DEF Grows
  <1> SUFFICES ASSUME NEW h \in Holder, active'[h] # None
               PROVE  /\ TenantOf[active'[h].digest.draft] = h
                      /\ VersionOf[active'[h].digest.draft] \in Installed'
                      /\ bundles'[VersionOf[active'[h].digest.draft]].digest = active'[h].digest
                      /\ bundles'[VersionOf[active'[h].digest.draft]].retired = None =>
                           active'[h].by = active'[h].digest.by
    BY DEF AttestedRows
  <1>5. CASE h = g
    <2>1. active'[h] = [digest |-> d, by |-> d.by]
      BY <1>1, <1>3, <1>5 DEF TablesTypeOK
    <2>2. active'[h].digest = d /\ active'[h].by = d.by
      BY <2>1
    <2> QED BY <2>2, <1>2, <1>5
  <1>6. CASE h # g
    <2>1. active'[h] = active[h] /\ active[h] # None
      BY <1>1, <1>3, <1>6 DEF TablesTypeOK
    <2> DEFINE v == VersionOf[active[h].digest.draft]
    <2>2. /\ TenantOf[active[h].digest.draft] = h
          /\ v \in Installed
          /\ bundles[v].digest = active[h].digest
          /\ bundles[v].retired = None => active[h].by = active[h].digest.by
      BY <1>1, <2>1 DEF AttestedRows
    <2>3. v \in Installed' /\ bundles'[v].digest = bundles[v].digest
      BY <2>2, <1>2 DEF Grows
    <2> QED BY <2>1, <2>2, <2>3, <1>4
  <1> QED BY <1>5, <1>6

LEMMA PublishKeepsWildcard ==
  ASSUME TablesInv, NEW d \in Digest, VersionOf[d.draft] \notin Installed, Publish(d)
  PROVE  WildcardRows'
  <1> DEFINE w == VersionOf[d.draft]
             g == TenantOf[d.draft]
  <1>1. TablesTypeOK /\ WildcardRows /\ d.draft \in AnyDraft
    BY DEF TablesInv, Digest
  <1>2. /\ Installed' = Installed \cup {w}
        /\ bundles'[w] = [digest |-> d, retired |-> None]
        /\ \A v \in Installed : v \in InForce(g) => bundles'[v].retired # None
        /\ \A v \in Installed : v \notin InForce(g) => bundles'[v] = bundles[v]
        /\ \A v \in Installed : bundles'[v].digest = bundles[v].digest
    BY <1>1, PublishGrows DEF Grows
  <1>3. active' = [active EXCEPT ![g] = [digest |-> d, by |-> d.by]] /\ d.by \in Signer
    BY <1>1, PublishRows DEF Digest
  <1>4. /\ bundles'[w].digest.draft = d.draft /\ bundles'[w].retired = None
        /\ w = VB => d.draft = Baseline
        /\ d.draft = Baseline => w = VB /\ g = "*"
    BY <1>1, <1>2, VersionsOfDrafts, PolicyAssumption DEF VB
  <1>5. active'["*"] = IF g = "*" THEN [digest |-> d, by |-> d.by] ELSE active["*"]
    BY <1>1, <1>3, VersionsOfDrafts DEF TablesTypeOK
  <1>6. [digest |-> d, by |-> d.by] # None
    <2>1. [digest |-> d, by |-> d.by] \in Attestation
      BY <1>3 DEF Attestation
    <2> QED BY <2>1, AttestationIsNotNone
  <1>7. VB \in Installed' => active'["*"] # None
    <2>1. CASE VB \in Installed
      BY <2>1, <1>1, <1>5, <1>6 DEF WildcardRows
    <2>2. CASE VB = w
      BY <2>2, <1>4, <1>5, <1>6
    <2> QED BY <2>1, <2>2, <1>2
  <1>8. ASSUME VB \in Installed', bundles'[VB].retired = None
        PROVE  active'["*"].digest.draft = Baseline
    <2>1. CASE VB = w
      BY <2>1, <1>4, <1>5
    <2>2. CASE VB # w
      <3>1. VB \in Installed /\ VB \notin InForce(g) /\ bundles[VB].retired = None
        BY <2>2, <1>2, <1>8
      <3>2. bundles[VB].digest.draft = Baseline
        BY <3>1, <1>1, InstalledRows, VersionsOfDrafts
      <3>3. g # "*"
        BY <3>1, <3>2, PolicyAssumption DEF InForce, Held
      <3> QED BY <3>1, <3>3, <1>1, <1>5 DEF WildcardRows
    <2> QED BY <2>1, <2>2
  <1>9. ASSUME NEW v \in Held("*")', bundles'[v].retired # None
        PROVE  OperatorRules'
    <2>1. /\ v \in Installed' /\ TenantOf[bundles'[v].digest.draft] = "*"
          /\ v # w /\ v \in Installed /\ bundles'[v].digest = bundles[v].digest
      BY <1>2, <1>4, <1>9 DEF Held
    <2>2. OperatorRules' <=> \E u \in Installed' : /\ TenantOf[bundles'[u].digest.draft] = "*"
                                                  /\ bundles'[u].digest.draft # Baseline
      BY DEF OperatorRules, Held
    <2>3. CASE bundles[v].retired # None
      <3>1. v \in Held("*")
        BY <2>1 DEF Held
      <3>2. PICK u \in Held("*") : bundles[u].digest.draft # Baseline
        BY <3>1, <2>3, <1>1 DEF WildcardRows, OperatorRules
      <3>3. /\ u \in Installed' /\ bundles'[u].digest = bundles[u].digest
            /\ TenantOf[bundles[u].digest.draft] = "*"
        BY <3>2, <1>2 DEF Held
      <3> QED BY <3>2, <3>3, <2>2
    <2>4. CASE bundles[v].retired = None
      <3>1. v \in InForce(g)
        BY <2>1, <2>4, <1>2, <1>9
      <3>2. g = "*"
        BY <2>1, <3>1 DEF InForce, Held
      <3>3. CASE d.draft # Baseline
        BY <3>2, <3>3, <2>2, <1>2, <1>4
      <3>4. CASE d.draft = Baseline
        <4>1. v # VB
          BY <3>4, <2>1, <1>4
        <4>2. bundles[v].digest.draft # Baseline
          BY <4>1, <2>1, <1>1, InstalledRows DEF VB
        <4> QED BY <4>2, <2>1, <2>2
      <3> QED BY <3>3, <3>4
    <2> QED BY <2>3, <2>4
  <1> QED BY <1>7, <1>8, <1>9 DEF WildcardRows

(* Attesting the default again, after an operator's policy for the         *)
(* wildcard tenant has retired it, leaves the tenants' policies in force.  *)
LEMMA AttestKeepsTables ==
  ASSUME TablesInv, NEW k \in Signer, VB \in Installed, bundles[VB].retired # None,
         Attest(k), UNCHANGED <<bundles, stream>>, registered' \in BOOLEAN, now' \in Nat
  PROVE  TablesInv' /\ Grows
  <1> DEFINE a == [digest |-> bundles[VB].digest, by |-> k]
  <1>1. TablesTypeOK /\ OnePolicyInForce /\ AttestedRows /\ WildcardRows
    BY DEF TablesInv
  <1>2. bundles[VB].digest \in Digest /\ bundles[VB].digest.draft = Baseline
    BY <1>1, InstalledRows, VersionsOfDrafts
  <1>3. a \in Attestation /\ a # None
    <2>1. a \in Attestation
      BY <1>2 DEF Attestation
    <2> QED BY <2>1, AttestationIsNotNone
  <1>4. active' = [active EXCEPT !["*"] = a]
    BY DEF Attest, VB
  <1>5. /\ active' \in [Holder -> Attestation \cup {None}]
        /\ active'["*"] = a
        /\ \A h \in Holder : h # "*" => active'[h] = active[h]
    BY <1>1, <1>3, <1>4, VersionsOfDrafts DEF TablesTypeOK
  <1>6. /\ Installed' = Installed
        /\ \A h : InForce(h)' = InForce(h) /\ Held(h)' = Held(h)
        /\ OperatorRules' = OperatorRules
    BY DEF Installed, InForce, Held, OperatorRules
  <1>7. TablesTypeOK'
    BY <1>1, <1>5, <1>6 DEF TablesTypeOK
  <1>8. OnePolicyInForce'
    <2>1. \A t \in Tenant : active'[t] = active[t] /\ stream'[t] = stream[t]
      BY <1>5, PolicyAssumption DEF Holder
    <2> QED BY <1>1, <1>6, <2>1 DEF OnePolicyInForce
  <1>9. AttestedRows'
    <2> SUFFICES ASSUME NEW h \in Holder, active'[h] # None
                 PROVE  /\ TenantOf[active'[h].digest.draft] = h
                        /\ VersionOf[active'[h].digest.draft] \in Installed
                        /\ bundles[VersionOf[active'[h].digest.draft]].digest = active'[h].digest
                        /\ bundles[VersionOf[active'[h].digest.draft]].retired = None =>
                             active'[h].by = active'[h].digest.by
      BY <1>6 DEF AttestedRows
    <2>1. CASE h = "*"
      <3>1. active'[h].digest = bundles[VB].digest
        BY <2>1, <1>5
      <3>2. TenantOf[Baseline] = "*" /\ VersionOf[Baseline] = VB
        BY PolicyAssumption DEF VB
      <3> QED BY <2>1, <3>1, <3>2, <1>2
    <2>2. CASE h # "*"
      BY <2>2, <1>1, <1>5 DEF AttestedRows
    <2> QED BY <2>1, <2>2
  <1>10. WildcardRows'
    BY <1>1, <1>3, <1>5, <1>6 DEF WildcardRows
  <1>11. Grows
    BY DEF Grows, Installed
  <1> QED BY <1>7, <1>8, <1>9, <1>10, <1>11 DEF TablesInv

LEMMA PublishKeepsTables ==
  ASSUME TablesInv, NEW d \in Digest, VersionOf[d.draft] \notin Installed, Publish(d),
         registered' \in BOOLEAN, now' \in Nat
  PROVE  TablesInv' /\ Grows /\ VersionOf[d.draft] \in Installed'
  BY PublishTypes, PublishKeepsOne, PublishKeepsAttested, PublishKeepsWildcard, PublishGrows
     DEF TablesInv

LEMMA UnchangedKeepsTables ==
  ASSUME TablesInv, UNCHANGED <<tables, now>>
  PROVE  TablesInv' /\ Grows
  <1>1. TablesInv'
    BY DEF TablesInv, TablesTypeOK, OnePolicyInForce, AttestedRows, WildcardRows, OperatorRules,
           InForce, Held, Installed, tables
  <1>2. Grows
    BY DEF Grows, Installed, tables
  <1> QED BY <1>1, <1>2

-----------------------------------------------------------------------------
(* The calls *)

LEMMA HeldInIsHeld == \A h : HeldIn(bundles, h) = Held(h)
  BY DEF HeldIn, Held, Installed

(* What a call has found out stays true while the tables grow. *)
LEMMA CallStaysOK ==
  ASSUME TablesTypeOK, Grows, bundles' \in [Version -> Bundle \cup {None}],
         NEW c, CallOK(c, bundles)
  PROVE  CallOK(c, bundles')
  <1>1. \A v \in Version : bundles[v] # None =>
          /\ bundles'[v] # None /\ bundles'[v].digest = bundles[v].digest
          /\ bundles[v].retired # None => bundles'[v].retired # None
    BY DEF Grows, Installed
  <1>2. \A h : HeldIn(bundles, h) # {} => HeldIn(bundles', h) # {}
    BY <1>1 DEF HeldIn
  <1>3. VB \in Version
    BY VersionsOfDrafts
  <1>4. c.step = "attesting" => bundles[VB] # None
    BY DEF CallOK
  <1> QED BY <1>1, <1>2, <1>3, <1>4 DEF CallOK

(* One process goes on, with a call for which the same holds. *)
LEMMA CallsStayOK ==
  ASSUME TablesTypeOK, CallTypeOK, CallsInv, Grows, bundles' \in [Version -> Bundle \cup {None}],
         NEW p \in Proc, NEW c, op' = [op EXCEPT ![p] = c], c = Idle \/ CallOK(c, bundles')
  PROVE  CallsInv'
  <1> SUFFICES ASSUME NEW q \in Proc, op'[q] # Idle PROVE CallOK(op'[q], bundles')
    BY DEF CallsInv
  <1>1. CASE q = p
    BY <1>1 DEF CallTypeOK
  <1>2. CASE q # p
    <2>1. op'[q] = op[q]
      BY <1>2 DEF CallTypeOK
    <2>2. CallOK(op[q], bundles)
      BY <2>1 DEF CallsInv
    <2> QED BY <2>1, <2>2, CallStaysOK
  <1> QED BY <1>1, <1>2

LEMMA NoReplyIsFine ==
  ASSUME reply' = NoReply
  PROVE  OwnPolicyAnswers' /\ RefusalIsExplained'
  BY DEF NoReply, OwnPolicyAnswers, RefusalIsExplained

(* A call goes on to its next step. *)
LEMMA ContinueKeepsInv ==
  ASSUME PolicyInv, TablesInv', Grows, NEW p \in Proc, op[p].step # "idle",
         NEW step \in {"querying", "missing", "falling_back", "signing", "signed", "attesting"},
         Continue(p, step),
         step = "signing" => op[p].draft = Baseline,
         step = "signed" => op[p].step = "signing",
         step \in {"attesting", "querying", "missing", "falling_back"} =>
           op[p].tenant \in Holder /\ bundles'[VB] # None,
         step = "attesting" => op[p].draft = Baseline /\ bundles'[VB].retired # None,
         step = "missing" => op[p].tenant \in Tenant,
         step \in {"missing", "falling_back"} /\ op[p].tenant \in Tenant => op[p].had = FALSE
  PROVE  PolicyInv'
  <1> DEFINE c == op[p]
             d == [step |-> step, draft |-> c.draft, by |-> c.by, at |-> c.at,
                   tenant |-> c.tenant, had |-> c.had]
  <1>1. /\ TablesTypeOK /\ CallTypeOK /\ CallsInv /\ c # Idle
        /\ bundles' \in [Version -> Bundle \cup {None}]
    BY IdleIsDifferent DEF PolicyInv, TablesInv, TablesTypeOK
  <1>2. CallTypeOK'
    BY <1>1, ContinueTypes
  <1>3. op' = [op EXCEPT ![p] = d] /\ reply' = NoReply
    BY DEF Continue
  <1>4. CallOK(c, bundles')
    BY <1>1, CallStaysOK DEF CallsInv
  <1>5. CallOK(d, bundles')
    <2>1. d.step = step /\ d.draft = c.draft /\ d.tenant = c.tenant /\ d.had = c.had
      OBVIOUS
    <2>2. d.tenant \in Tenant /\ d.had = TRUE => HeldIn(bundles', d.tenant) # {}
      BY <1>4, <2>1 DEF CallOK
    <2>3. d.step \in {"signing", "signed"} /\ d.tenant # None => d.draft = Baseline
      BY <1>4, <2>1 DEF CallOK
    <2> HIDE DEF d, c
    <2> QED BY <2>1, <2>2, <2>3 DEF CallOK, c
  <1>6. CallsInv'
    BY <1>1, <1>3, <1>5, CallsStayOK
  <1>7. OwnPolicyAnswers' /\ RefusalIsExplained'
    BY <1>3, NoReplyIsFine
  <1> QED BY <1>2, <1>6, <1>7 DEF PolicyInv

(* A call returns. *)
LEMMA ReturnKeepsInv ==
  ASSUME PolicyInv, TablesInv', Grows, NEW p \in Proc, Return(p, NoReply)
  PROVE  PolicyInv'
  <1>1. /\ TablesTypeOK /\ CallTypeOK /\ CallsInv
        /\ bundles' \in [Version -> Bundle \cup {None}]
    BY DEF PolicyInv, TablesInv, TablesTypeOK
  <1>2. CallTypeOK'
    BY <1>1, ReturnTypes
  <1>3. op' = [op EXCEPT ![p] = Idle] /\ reply' = NoReply
    BY DEF Return
  <1>4. CallsInv'
    BY <1>1, <1>3, CallsStayOK
  <1> QED BY <1>2, <1>3, <1>4, NoReplyIsFine DEF PolicyInv

LEMMA AnswerKeepsInv ==
  ASSUME PolicyInv, TablesInv', Grows, NEW p \in Proc, op[p].step # "idle",
         NEW a \in [result : {"not_found", "invalid", "policy", "conflict", "failed"},
                    digest : Digest \cup {None}],
         Answer(p, a),
         op[p].tenant \in Tenant /\ op[p].had = TRUE =>
           \/ a.result = "policy" /\ TenantOf[a.digest.draft] = op[p].tenant
           \/ a.result \in {"invalid", "conflict", "failed"},
         op[p].tenant # None =>
           /\ a.result = "not_found" => \/ OperatorRules'
                                        \/ op[p].had = FALSE /\ HeldIn(bundles', op[p].tenant) # {}
           /\ a.result = "invalid" => \E h \in Holder : active'[h] # None /\ active'[h].by # op[p].by
           /\ a.result \in {"conflict", "failed"} => VB \in Installed'
  PROVE  PolicyInv'
  <1> DEFINE r == [call |-> "answer", tenant |-> op[p].tenant, by |-> op[p].by, had |-> op[p].had,
                   result |-> a.result, digest |-> a.digest]
  <1>1. /\ TablesTypeOK /\ CallTypeOK /\ CallsInv /\ op[p] # Idle
        /\ bundles' \in [Version -> Bundle \cup {None}]
    BY IdleIsDifferent DEF PolicyInv, TablesInv, TablesTypeOK
  <1>2. CallTypeOK'
    BY <1>1, AnswerTypes
  <1>3. op' = [op EXCEPT ![p] = Idle] /\ reply' = r
    BY DEF Answer, Return
  <1>4. CallsInv'
    BY <1>1, <1>3, CallsStayOK
  <1>5. op[p].had \in BOOLEAN
    BY <1>1, CallFields
  <1>6. /\ reply'.tenant = op[p].tenant /\ reply'.by = op[p].by /\ reply'.had = op[p].had
        /\ reply'.result = a.result /\ reply'.digest = a.digest
    BY <1>3
  <1>7. OwnPolicyAnswers'
    <2> SUFFICES ASSUME reply'.tenant \in Tenant, reply'.had
                 PROVE  \/ reply'.result = "policy" /\ TenantOf[reply'.digest.draft] = reply'.tenant
                        \/ reply'.result \in {"invalid", "conflict", "failed"}
      BY DEF OwnPolicyAnswers
    <2>1. op[p].tenant \in Tenant /\ op[p].had = TRUE
      BY <1>5, <1>6
    <2> QED BY <2>1, <1>6
  <1>8. RefusalIsExplained'
    <2>1. HeldIn(bundles', reply'.tenant) = Held(reply.tenant)'
      BY DEF HeldIn, Held, Installed
    <2>2. op[p].had = FALSE => ~reply'.had
      BY <1>6
    <2> SUFFICES ASSUME reply'.tenant # None
                 PROVE  /\ reply'.result = "not_found" =>
                             \/ \E v \in Held("*")' : bundles'[v].digest.draft # Baseline
                             \/ ~reply'.had /\ Held(reply.tenant)' # {}
                        /\ reply'.result = "invalid" =>
                             \E h \in Holder : active'[h] # None /\ active'[h].by # reply'.by
                        /\ reply'.result \in {"conflict", "failed"} => VersionOf[Baseline] \in Installed'
      BY DEF RefusalIsExplained
    <2> QED BY <2>1, <2>2, <1>6 DEF OperatorRules, VB
  <1> QED BY <1>2, <1>4, <1>7, <1>8 DEF PolicyInv

(* What active_policy finds for a tenant.  A tenant with a policy is       *)
(* never without an answer, and the wildcard tenant only under an          *)
(* operator's policy.                                                      *)
LEMMA ResolveAnswers ==
  ASSUME TablesInv, NEW h \in Holder, NEW k \in Signer
  PROVE  /\ Resolve(h, k) \in [result : {"not_found", "invalid", "policy", "conflict", "failed"},
                               digest : Digest \cup {None}]
         /\ Resolve(h, k).result \in {"not_found", "invalid", "policy"}
         /\ Resolve(h, k).result = "not_found" <=> Resolve(h, k) = NoPolicy
         /\ Resolve(h, k).result = "policy" => TenantOf[Resolve(h, k).digest.draft] = h
         /\ Resolve(h, k).result = "invalid" => active[h] # None /\ active[h].by # k
         /\ h \in Tenant /\ Held(h) # {} => Resolve(h, k) # NoPolicy
         /\ h = "*" /\ VB \in Installed /\ Resolve(h, k) = NoPolicy => OperatorRules
  <1> DEFINE a == active[h]
             v == VersionOf[a.digest.draft]
             b == bundles[v]
  <1>1. TablesTypeOK /\ OnePolicyInForce /\ AttestedRows /\ WildcardRows
    BY DEF TablesInv
  <1>2. CASE a = None
    <2>1. Resolve(h, k) = NoPolicy
      BY <1>2 DEF Resolve
    <2>2. ~(h \in Tenant /\ Held(h) # {})
      BY <1>1, <1>2 DEF OnePolicyInForce
    <2>3. ~(h = "*" /\ VB \in Installed)
      BY <1>1, <1>2 DEF WildcardRows
    <2> QED BY <2>1, <2>2, <2>3 DEF NoPolicy
  <1>3. CASE a # None
    <2>1. /\ TenantOf[a.digest.draft] = h
          /\ v \in Installed
          /\ b.digest = a.digest
          /\ b.retired = None => a.by = a.digest.by
          /\ a.digest \in Digest
      BY <1>1, <1>3, AttestedAreDigests DEF AttestedRows
    <2>2. b # None
      BY <2>1, <1>1, InstalledRows
    <2>3. CASE b.retired # None
      <3>1. Resolve(h, k) = NoPolicy
        BY <1>3, <2>2, <2>3 DEF Resolve
      <3>2. ~(h \in Tenant /\ Held(h) # {})
        <4> SUFFICES ASSUME h \in Tenant, Held(h) # {} PROVE FALSE
          OBVIOUS
        <4>1. PICK u \in InForce(h) : a.digest = bundles[u].digest
          BY <1>1 DEF OnePolicyInForce
        <4>2. u \in Installed /\ bundles[u].retired = None
          BY <4>1 DEF InForce, Held
        <4>3. VersionOf[bundles[u].digest.draft] = u
          BY <4>2, <1>1, InstalledRows
        <4> QED BY <4>1, <4>2, <4>3, <2>3
      <3>3. h = "*" => OperatorRules
        <4> SUFFICES ASSUME h = "*" PROVE OperatorRules
          OBVIOUS
        <4>1. v \in Held("*")
          BY <2>1 DEF Held
        <4> QED BY <4>1, <2>3, <1>1 DEF WildcardRows
      <3> QED BY <3>1, <3>2, <3>3 DEF NoPolicy
    <2>4. CASE b.retired = None /\ a.by # k
      <3>1. Resolve(h, k) = Invalid
        BY <1>3, <2>2, <2>4 DEF Resolve
      <3> QED BY <3>1, <1>3, <2>4 DEF Invalid, NoPolicy
    <2>5. CASE b.retired = None /\ a.by = k
      <3>1. b.digest.by = k
        BY <2>1, <2>5
      <3>2. Resolve(h, k) = Applies(b.digest)
        BY <1>3, <2>1, <2>2, <2>5, <3>1 DEF Resolve
      <3> QED BY <3>2, <2>1 DEF Applies, NoPolicy
    <2> QED BY <2>3, <2>4, <2>5
  <1> QED BY <1>2, <1>3

LEMMA StartKeepsInv ==
  ASSUME PolicyInv, TablesInv', Grows, NEW p \in Proc, NEW c \in Calls,
         op' = [op EXCEPT ![p] = c], reply' = NoReply, CallOK(c, bundles')
  PROVE  PolicyInv'
  <1>1. /\ TablesTypeOK /\ CallTypeOK /\ CallsInv
        /\ bundles' \in [Version -> Bundle \cup {None}]
    BY DEF PolicyInv, TablesInv, TablesTypeOK
  <1>2. CallTypeOK'
    BY <1>1 DEF CallTypeOK, Reply
  <1>3. CallsInv'
    BY <1>1, CallsStayOK
  <1> QED BY <1>2, <1>3, NoReplyIsFine DEF PolicyInv

LEMMA DoneKeepsInv ==
  ASSUME PolicyInv, TablesInv', Grows, NEW p \in Proc, op[p].step \in {"signing", "signed"},
         VersionOf[op[p].draft] \in Installed', NEW d \in Digest, Done(p, d)
  PROVE  PolicyInv'
  <1>1. CallTypeOK /\ CallsInv /\ op[p].step # "idle" /\ op[p] # Idle
    BY IdleIsDifferent DEF PolicyInv
  <1>2. CASE op[p].tenant = None
    <2>1. Answer(p, Applies(d))
      BY <1>2 DEF Done
    <2>2. /\ Applies(d) \in [result : {"not_found", "invalid", "policy", "conflict", "failed"},
                             digest : Digest \cup {None}]
          /\ op[p].tenant \notin Tenant
      BY <1>2, PolicyAssumption DEF Applies, Holder
    <2> QED BY <1>1, <1>2, <2>1, <2>2, AnswerKeepsInv
  <1>3. CASE op[p].tenant # None
    <2>1. Continue(p, "querying")
      BY <1>3 DEF Done
    <2>2. op[p].draft = Baseline /\ op[p].tenant \in Holder
      BY <1>1, <1>3, CallFields DEF CallsInv, CallOK
    <2>3. bundles'[VB] # None
      BY <2>2 DEF VB, Installed
    <2> QED BY <1>1, <2>1, <2>2, <2>3, ContinueKeepsInv
  <1> QED BY <1>2, <1>3

-----------------------------------------------------------------------------
(* The steps *)

LEMMA StampsKeepInv ==
  ASSUME PolicyInv, NEW p \in Proc, NEW k \in Signer,
         \/ \E s \in Draft : InstallStamp(p, s, k)
         \/ \E h \in Holder : RequestStamp(p, h, k)
         \/ BootstrapStamp(p, k)
  PROVE  PolicyInv' /\ Grows
  <1>1. UNCHANGED <<tables, now>>
    BY DEF InstallStamp, RequestStamp, BootstrapStamp
  <1>2. TablesInv' /\ Grows /\ bundles' = bundles /\ now \in Nat
    BY <1>1, UnchangedKeepsTables DEF PolicyInv, TablesInv, TablesTypeOK, tables
  <1>3. None \notin Tenant
    BY PolicyAssumption DEF Holder
  <1>4. CASE \E s \in Draft : InstallStamp(p, s, k)
    <2>1. PICK s \in Draft : InstallStamp(p, s, k)
      BY <1>4
    <2> DEFINE c == [step |-> "signing", draft |-> s, by |-> k, at |-> now, tenant |-> None, had |-> FALSE]
    <2>2. c \in Calls
      BY <1>2 DEF Calls, AnyDraft
    <2>3. op' = [op EXCEPT ![p] = c] /\ reply' = NoReply
      BY <2>1 DEF InstallStamp
    <2>4. CallOK(c, bundles')
      BY <1>3 DEF CallOK
    <2> QED BY <1>2, <2>2, <2>3, <2>4, StartKeepsInv
  <1>5. CASE BootstrapStamp(p, k)
    <2> DEFINE c == [step |-> "bootstrapping", draft |-> Baseline, by |-> k, at |-> now,
                     tenant |-> None, had |-> FALSE]
    <2>2. c \in Calls
      BY <1>2 DEF Calls, AnyDraft
    <2>3. op' = [op EXCEPT ![p] = c] /\ reply' = NoReply
      BY <1>5 DEF BootstrapStamp
    <2>4. CallOK(c, bundles')
      BY <1>3 DEF CallOK
    <2> QED BY <1>2, <2>2, <2>3, <2>4, StartKeepsInv
  <1>6. CASE \E h \in Holder : RequestStamp(p, h, k)
    <2>1. PICK h \in Holder : RequestStamp(p, h, k)
      BY <1>6
    <2> DEFINE c == [step |-> "ensuring", draft |-> Baseline, by |-> k, at |-> now,
                     tenant |-> h, had |-> Held(h) # {}]
    <2>2. c \in Calls
      <3>1. (Held(h) # {}) \in BOOLEAN
        OBVIOUS
      <3>2. Baseline \in AnyDraft
        BY DEF AnyDraft
      <3> QED BY <1>2, <3>1, <3>2 DEF Calls
    <2>3. op' = [op EXCEPT ![p] = c] /\ reply' = NoReply
      BY <2>1 DEF RequestStamp
    <2>4. CallOK(c, bundles')
      <3>1. c.step = "ensuring" /\ c.draft = Baseline /\ c.tenant = h /\ c.had = (Held(h) # {})
        OBVIOUS
      <3>2. HeldIn(bundles', h) = Held(h)
        BY <1>2, HeldInIsHeld
      <3> HIDE DEF c
      <3> QED BY <3>1, <3>2 DEF CallOK
    <2> QED BY <1>2, <2>2, <2>3, <2>4, StartKeepsInv
  <1> QED BY <1>2, <1>4, <1>5, <1>6

LEMMA InstallKeepsInv ==
  ASSUME PolicyInv, NEW p \in Proc, InstallLookUp(p) \/ InstallCommit(p) \/ InstallRollback(p)
  PROVE  PolicyInv' /\ Grows
  <1> DEFINE c == op[p]
  <1>1. c.step \in {"signing", "signed"} /\ c.step # "idle" /\ c # Idle
    <2>1. c.step \in {"signing", "signed"}
      BY DEF InstallLookUp, InstallCommit, InstallRollback
    <2> QED BY <2>1, IdleIsDifferent
  <1>2. TablesInv /\ CallTypeOK /\ CallsInv
    BY DEF PolicyInv
  <1>3. DigestOf(c) \in Digest /\ DigestOf(c).draft = c.draft
    BY <1>1, <1>2, CallFields DEF DigestOf
  <1>4. c.tenant # None => c.draft = Baseline
    BY <1>1, <1>2 DEF CallsInv, CallOK
  <1>5. ASSUME NEW why \in {"conflict", "failed"}, Answer(p, Fails(why)), TablesInv', Grows,
               VersionOf[c.draft] \in Installed'
        PROVE  PolicyInv'
    <2>1. /\ Fails(why) \in [result : {"not_found", "invalid", "policy", "conflict", "failed"},
                             digest : Digest \cup {None}]
          /\ Fails(why).result = why
      BY DEF Fails
    <2>2. c.tenant # None => VB \in Installed'
      BY <1>4, <1>5 DEF VB
    <2> QED BY <1>1, <1>5, <2>1, <2>2, AnswerKeepsInv
  <1>6. CASE InstallLookUp(p)
    <2>1. UNCHANGED <<tables, now>> /\ c.step = "signing"
      BY <1>6 DEF InstallLookUp
    <2>2. TablesInv' /\ Grows /\ Installed' = Installed
      BY <1>2, <2>1, UnchangedKeepsTables DEF tables, Installed
    <2>3. CASE VersionOf[c.draft] \notin Installed
      <3>1. Continue(p, "signed")
        BY <1>6, <2>3 DEF InstallLookUp
      <3> QED BY <1>1, <2>1, <2>2, <3>1, ContinueKeepsInv
    <2>4. CASE VersionOf[c.draft] \in Installed /\ bundles[VersionOf[c.draft]].digest = DigestOf(c)
      <3>1. Done(p, DigestOf(c))
        BY <1>6, <2>4 DEF InstallLookUp
      <3> QED BY <1>1, <1>3, <2>2, <2>4, <3>1, DoneKeepsInv
    <2>5. CASE VersionOf[c.draft] \in Installed /\ bundles[VersionOf[c.draft]].digest # DigestOf(c)
      <3>1. Answer(p, Fails("conflict"))
        BY <1>6, <2>5 DEF InstallLookUp
      <3> QED BY <2>2, <2>5, <3>1, <1>5
    <2> QED BY <2>2, <2>3, <2>4, <2>5
  <1>7. CASE InstallCommit(p)
    <2>1. /\ VersionOf[c.draft] \notin Installed /\ Publish(DigestOf(c)) /\ Done(p, DigestOf(c))
          /\ registered' = registered /\ now' = now + 1
      BY <1>7 DEF InstallCommit, Transaction
    <2>2. registered' \in BOOLEAN /\ now' \in Nat
      BY <1>2, <2>1 DEF TablesInv, TablesTypeOK
    <2>3. TablesInv' /\ Grows /\ VersionOf[c.draft] \in Installed'
      BY <1>2, <1>3, <2>1, <2>2, PublishKeepsTables
    <2> QED BY <1>1, <1>3, <2>1, <2>3, DoneKeepsInv
  <1>8. CASE InstallRollback(p)
    <2>1. UNCHANGED <<tables, now>> /\ VersionOf[c.draft] \in Installed /\ Answer(p, Fails("failed"))
      BY <1>8 DEF InstallRollback
    <2>2. TablesInv' /\ Grows /\ Installed' = Installed
      BY <1>2, <2>1, UnchangedKeepsTables DEF tables, Installed
    <2> QED BY <2>1, <2>2, <1>5
  <1> QED BY <1>6, <1>7, <1>8

LEMMA DefaultKeepsInv ==
  ASSUME PolicyInv, NEW p \in Proc, BootstrapCommit(p) \/ EnsureDefault(p) \/ AttestDefault(p)
  PROVE  PolicyInv' /\ Grows
  <1> DEFINE c == op[p]
  <1>1. c.step \in {"bootstrapping", "ensuring", "attesting"} /\ c.step # "idle" /\ c # Idle
    <2>1. c.step \in {"bootstrapping", "ensuring", "attesting"}
      BY DEF BootstrapCommit, EnsureDefault, AttestDefault
    <2> QED BY <2>1, IdleIsDifferent
  <1>2. TablesInv /\ TablesTypeOK /\ WildcardRows /\ AttestedRows /\ CallTypeOK /\ CallsInv
    BY DEF PolicyInv, TablesInv
  <1>3. /\ c.draft = Baseline /\ c.by \in Signer
        /\ DigestOf(c) \in Digest /\ DigestOf(c).draft = Baseline
    BY <1>1, <1>2, CallFields DEF CallsInv, CallOK, DigestOf
  <1>4. VB \in Installed /\ ~DefaultIsAttested => bundles[VB].retired # None
    BY <1>2 DEF DefaultIsAttested, WildcardRows, VB
  <1>5. CASE BootstrapCommit(p)
    <2>1. /\ registered' = TRUE /\ now' = now + 1 /\ Return(p, NoReply)
          /\ registered' \in BOOLEAN /\ now' \in Nat
      BY <1>2, <1>5 DEF BootstrapCommit, Transaction, TablesTypeOK
    <2>2. CASE VB \notin Installed
      <3>1. Publish(DigestOf(c))
        BY <1>5, <2>2 DEF BootstrapCommit, VB
      <3>2. TablesInv' /\ Grows
        BY <1>2, <1>3, <2>1, <2>2, <3>1, PublishKeepsTables DEF VB
      <3> QED BY <2>1, <3>2, ReturnKeepsInv
    <2>3. CASE VB \in Installed /\ ~DefaultIsAttested
      <3>1. Attest(c.by) /\ UNCHANGED <<bundles, stream>>
        BY <1>5, <2>3 DEF BootstrapCommit, VB
      <3>2. TablesInv' /\ Grows
        BY <1>2, <1>3, <1>4, <2>1, <2>3, <3>1, AttestKeepsTables
      <3> QED BY <2>1, <3>2, ReturnKeepsInv
    <2>4. CASE VB \in Installed /\ DefaultIsAttested
      <3>1. UNCHANGED <<bundles, active, stream>>
        BY <1>5, <2>4 DEF BootstrapCommit, VB
      <3>2. TablesInv'
        BY <1>2, <2>1, <3>1 DEF TablesInv, TablesTypeOK, OnePolicyInForce, AttestedRows, WildcardRows,
           OperatorRules, InForce, Held, Installed
      <3>3. Grows
        BY <3>1 DEF Grows, Installed
      <3> QED BY <2>1, <3>2, <3>3, ReturnKeepsInv
    <2> QED BY <2>2, <2>3, <2>4
  <1>6. CASE EnsureDefault(p)
    <2>1. UNCHANGED <<tables, now>> /\ c.step = "ensuring"
      BY <1>6 DEF EnsureDefault
    <2>2. TablesInv' /\ Grows /\ bundles' = bundles
      BY <1>2, <2>1, UnchangedKeepsTables DEF tables
    <2>3. c.tenant \in Holder
      BY <1>1, <1>2, <2>1 DEF CallsInv, CallOK
    <2>4. CASE VB \notin Installed
      <3>1. Continue(p, "signing")
        BY <1>6, <2>4 DEF EnsureDefault, VB
      <3> QED BY <1>1, <1>3, <2>2, <3>1, ContinueKeepsInv
    <2>5. CASE VB \in Installed /\ DefaultIsAttested
      <3>1. Continue(p, "querying") /\ bundles[VB] # None
        BY <1>6, <2>5 DEF EnsureDefault, VB, Installed
      <3> QED BY <1>1, <2>2, <2>3, <3>1, ContinueKeepsInv
    <2>6. CASE VB \in Installed /\ ~DefaultIsAttested
      <3>1. Continue(p, "attesting") /\ bundles[VB] # None /\ bundles[VB].retired # None
        BY <1>4, <1>6, <2>6 DEF EnsureDefault, VB, Installed
      <3> QED BY <1>1, <1>3, <2>2, <2>3, <3>1, ContinueKeepsInv
    <2> QED BY <2>2, <2>4, <2>5, <2>6
  <1>7. CASE AttestDefault(p)
    <2>1. /\ c.step = "attesting" /\ Attest(c.by) /\ UNCHANGED <<bundles, stream>> /\ Continue(p, "querying")
          /\ registered' = registered /\ now' = now + 1
          /\ registered' \in BOOLEAN /\ now' \in Nat
      BY <1>2, <1>7 DEF AttestDefault, Transaction, TablesTypeOK
    <2>2. bundles[VB] # None /\ bundles[VB].retired # None /\ c.tenant \in Holder /\ VB \in Installed
      BY <1>1, <1>2, <2>1, VersionsOfDrafts DEF CallsInv, CallOK, Installed
    <2>3. TablesInv' /\ Grows
      BY <1>2, <1>3, <2>1, <2>2, AttestKeepsTables
    <2> QED BY <1>1, <2>1, <2>2, <2>3, ContinueKeepsInv
  <1> QED BY <1>5, <1>6, <1>7

LEMMA QueriesKeepInv ==
  ASSUME PolicyInv, NEW p \in Proc, QueryTenant(p) \/ CheckHistory(p) \/ QueryWildcard(p)
  PROVE  PolicyInv' /\ Grows
  <1> DEFINE c == op[p]
             h == c.tenant
  <1>1. c.step \in {"querying", "missing", "falling_back"} /\ c.step # "idle" /\ c # Idle
    <2>1. c.step \in {"querying", "missing", "falling_back"}
      BY DEF QueryTenant, CheckHistory, QueryWildcard
    <2> QED BY <2>1, IdleIsDifferent
  <1>2. TablesInv /\ TablesTypeOK /\ CallTypeOK /\ CallsInv
    BY DEF PolicyInv, TablesInv
  <1>3. UNCHANGED <<tables, now>>
    BY DEF QueryTenant, CheckHistory, QueryWildcard
  <1>4. /\ TablesInv' /\ Grows /\ bundles' = bundles /\ active' = active
        /\ Installed' = Installed /\ OperatorRules' = OperatorRules
    BY <1>2, <1>3, UnchangedKeepsTables DEF tables, Installed, OperatorRules, Held
  <1>5. /\ h \in Holder /\ c.by \in Signer /\ c.had \in BOOLEAN
        /\ bundles[VB] # None /\ VB \in Installed
        /\ c.step = "missing" => h \in Tenant
        /\ c.step \in {"missing", "falling_back"} /\ h \in Tenant => c.had = FALSE
        /\ h \in Tenant /\ c.had = TRUE => Held(h) # {}
    BY <1>1, <1>2, CallFields, HeldInIsHeld, VersionsOfDrafts DEF CallsInv, CallOK, Installed
  <1>6. h # None /\ "*" \notin Tenant /\ "*" \in Holder
    BY <1>5, PolicyAssumption DEF Holder
  <1>7. CASE QueryTenant(p)
    <2> DEFINE found == Resolve(h, c.by)
    <2>1. /\ found \in [result : {"not_found", "invalid", "policy", "conflict", "failed"},
                        digest : Digest \cup {None}]
          /\ found.result \in {"not_found", "invalid", "policy"}
          /\ found.result = "not_found" <=> found = NoPolicy
          /\ found.result = "policy" => TenantOf[found.digest.draft] = h
          /\ found.result = "invalid" => active[h] # None /\ active[h].by # c.by
          /\ h \in Tenant /\ Held(h) # {} => found # NoPolicy
      BY <1>2, <1>5, ResolveAnswers
    <2>2. /\ found # NoPolicy => Answer(p, found)
          /\ found = NoPolicy => Continue(p, IF h = "*" THEN "falling_back" ELSE "missing")
      BY <1>7 DEF QueryTenant
    <2> HIDE DEF found
    <2>3. CASE found # NoPolicy
      BY <1>1, <1>4, <1>5, <2>1, <2>2, <2>3, AnswerKeepsInv
    <2>4. CASE found = NoPolicy /\ h = "*"
      <3>1. Continue(p, "falling_back")
        BY <2>2, <2>4
      <3> QED BY <1>1, <1>4, <1>5, <1>6, <2>4, <3>1, ContinueKeepsInv
    <2>5. CASE found = NoPolicy /\ h # "*"
      <3>1. Continue(p, "missing")
        BY <2>2, <2>5
      <3>2. h \in Tenant /\ c.had = FALSE
        BY <1>5, <2>1, <2>5 DEF Holder
      <3> QED BY <1>1, <1>4, <1>5, <3>1, <3>2, ContinueKeepsInv
    <2> QED BY <1>4, <2>3, <2>4, <2>5
  <1>8. CASE CheckHistory(p)
    <2>1. c.step = "missing" /\ h \in Tenant /\ c.had = FALSE
      BY <1>5, <1>8 DEF CheckHistory
    <2>2. CASE Held(h) # {}
      <3>1. Answer(p, NoPolicy)
        BY <1>8, <2>2 DEF CheckHistory
      <3>2. NoPolicy \in [result : {"not_found", "invalid", "policy", "conflict", "failed"},
                          digest : Digest \cup {None}] /\ NoPolicy.result = "not_found"
        BY DEF NoPolicy
      <3>3. HeldIn(bundles', h) # {}
        BY <2>2, <1>4, HeldInIsHeld
      <3> QED BY <1>1, <1>4, <2>1, <3>1, <3>2, <3>3, AnswerKeepsInv
    <2>3. CASE Held(h) = {}
      <3>1. Continue(p, "falling_back")
        BY <1>8, <2>3 DEF CheckHistory
      <3> QED BY <1>1, <1>4, <1>5, <2>1, <3>1, ContinueKeepsInv
    <2> QED BY <1>4, <2>2, <2>3
  <1>9. CASE QueryWildcard(p)
    <2> DEFINE found == Resolve("*", c.by)
    <2>1. /\ found \in [result : {"not_found", "invalid", "policy", "conflict", "failed"},
                        digest : Digest \cup {None}]
          /\ found.result \in {"not_found", "invalid", "policy"}
          /\ found.result = "not_found" => OperatorRules
          /\ found.result = "invalid" => active["*"] # None /\ active["*"].by # c.by
      BY <1>2, <1>5, <1>6, ResolveAnswers
    <2>2. Answer(p, found) /\ c.step = "falling_back"
      BY <1>9 DEF QueryWildcard
    <2>3. ~(h \in Tenant /\ c.had = TRUE)
      BY <1>5, <2>2
    <2> HIDE DEF found
    <2> QED BY <1>1, <1>4, <1>6, <2>1, <2>2, <2>3, AnswerKeepsInv
  <1> QED BY <1>7, <1>8, <1>9

LEMMA PolicyInvInit == Init => PolicyInv
  <1> SUFFICES ASSUME Init PROVE PolicyInv
    OBVIOUS
  <1>1. Installed = {} /\ \A h : Held(h) = {} /\ InForce(h) = {}
    BY DEF Init, Installed, Held, InForce
  <1>2. TablesInv
    BY <1>1 DEF Init, TablesInv, TablesTypeOK, OnePolicyInForce, AttestedRows, WildcardRows, Bundle
  <1>3. CallTypeOK /\ CallsInv
    BY DEF Init, CallTypeOK, CallsInv, Calls, Reply
  <1>4. OwnPolicyAnswers /\ RefusalIsExplained
    BY DEF Init, OwnPolicyAnswers, RefusalIsExplained, NoReply
  <1> QED BY <1>2, <1>3, <1>4 DEF PolicyInv

LEMMA PolicyInvStep == PolicyInv /\ [Next]_vars => PolicyInv' /\ Grows
  <1> SUFFICES ASSUME PolicyInv, [Next]_vars PROVE PolicyInv' /\ Grows
    OBVIOUS
  <1>1. CASE UNCHANGED vars
    <2>1. TablesInv' /\ Grows
      BY <1>1, UnchangedKeepsTables DEF PolicyInv, vars
    <2>2. CallTypeOK' /\ CallsInv' /\ OwnPolicyAnswers' /\ RefusalIsExplained'
      BY <1>1 DEF PolicyInv, CallTypeOK, CallsInv, OwnPolicyAnswers, RefusalIsExplained,
         Held, Installed, vars, tables
    <2> QED BY <2>1, <2>2 DEF PolicyInv
  <1>2. CASE Next
    <2>1. PICK p \in Proc :
            \/ \E k \in Signer :
                 \/ \E s \in Draft : InstallStamp(p, s, k)
                 \/ \E h \in Holder : RequestStamp(p, h, k)
                 \/ BootstrapStamp(p, k)
            \/ InstallLookUp(p) \/ InstallCommit(p) \/ InstallRollback(p)
            \/ BootstrapCommit(p) \/ EnsureDefault(p) \/ AttestDefault(p)
            \/ QueryTenant(p) \/ CheckHistory(p) \/ QueryWildcard(p)
            \/ Crash(p)
      BY <1>2 DEF Next
    <2>2. CASE Crash(p)
      <3>1. TablesInv' /\ Grows /\ Return(p, NoReply)
        BY <2>2, UnchangedKeepsTables DEF Crash, PolicyInv
      <3> QED BY <3>1, ReturnKeepsInv
    <2> QED BY <2>1, <2>2, StampsKeepInv, InstallKeepsInv, DefaultKeepsInv, QueriesKeepInv
  <1> QED BY <1>1, <1>2

LEMMA PolicyInvHolds == Spec => []PolicyInv
  BY PolicyInvInit, PolicyInvStep, PTL DEF Spec

-----------------------------------------------------------------------------
(* Theorems *)

(* The tables, the calls and the answers have their types in every         *)
(* behaviour, and every bundle is filed under its own version.             *)
THEOREM TypeCorrect == Spec => []TypeOK
  <1>1. PolicyInv => TypeOK
    BY DEF PolicyInv, TablesInv, TablesTypeOK, CallTypeOK, TypeOK
  <1> QED BY <1>1, PolicyInvHolds, PTL

(* However many processes install policies, for however many tenants: a    *)
(* tenant that has had one has exactly one in force, the attested one and  *)
(* the last one published, although install_policy looks the version up    *)
(* before its transaction.                                                 *)
THEOREM OneIsAlwaysInForce == Spec => []OnePolicyInForce
  <1>1. PolicyInv => OnePolicyInForce
    BY DEF PolicyInv, TablesInv
  <1> QED BY <1>1, PolicyInvHolds, PTL

(* active_policy never answers a tenant that had a policy with the         *)
(* wildcard's or with "not found", however its statements interleave with  *)
(* installations.                                                          *)
THEOREM OwnPolicyAlwaysAnswers == Spec => []OwnPolicyAnswers
  <1>1. PolicyInv => OwnPolicyAnswers
    BY DEF PolicyInv
  <1> QED BY <1>1, PolicyInvHolds, PTL

(* A request is refused for want of a policy only under an operator's      *)
(* wildcard policy or on a race with the tenant's first one.               *)
THEOREM RefusalIsAlwaysExplained == Spec => []RefusalIsExplained
  <1>1. PolicyInv => RefusalIsExplained
    BY DEF PolicyInv
  <1> QED BY <1>1, PolicyInvHolds, PTL

(* No step removes or changes a bundle, but for retiring it once.          *)
THEOREM BundlesAreAlwaysKept == Spec => BundlesAreKept
  <1>1. PolicyInv /\ [Next]_vars =>
          [\A v \in Installed :
             /\ bundles'[v] # None /\ bundles'[v].digest = bundles[v].digest
             /\ bundles[v].retired # None => bundles'[v].retired = bundles[v].retired]_vars
    BY PolicyInvStep DEF Grows
  <1> QED BY <1>1, PolicyInvHolds, PTL DEF Spec, BundlesAreKept

-----------------------------------------------------------------------------
(* The number that digits make *)

IsUpTo(d, f) == f = [i \in 0..Len(d) |-> IF i = 0 THEN 0 ELSE 10 * f[i - 1] + d[i]]

LEMMA UpToExists ==
  ASSUME NEW d \in Seq(Nat)
  PROVE  \E f \in [0..Len(d) -> Nat] : IsUpTo(d, f)
  <1>1. Len(d) \in Nat /\ \A i \in 1..Len(d) : d[i] \in Nat
    BY LenProperties, ElementOfSeq
  <1> DEFINE D == [n \in Nat |-> [v \in Nat |-> 10 * v + (IF n + 1 <= Len(d) THEN d[n + 1] ELSE 0)]]
  <1>2. IsStep(Nat, D)
    <2>1. \A n \in Nat : n + 1 <= Len(d) => d[n + 1] \in Nat
      BY <1>1
    <2>2. \A n, v \in Nat : 10 * v + (IF n + 1 <= Len(d) THEN d[n + 1] ELSE 0) \in Nat
      BY <2>1
    <2> QED BY <2>2 DEF IsStep
  <1>3. PICK g : IsIteration(Nat, 0, D, g)
    <2> HIDE DEF D
    <2> QED BY <1>2, Recursion
  <1>4. g \in [Nat -> Nat] /\ g[0] = 0
    BY <1>3 DEF IsIteration
  <1>5. ASSUME NEW i \in 1..Len(d) PROVE g[i] = 10 * g[i - 1] + d[i]
    <2>1. i - 1 \in Nat /\ (i - 1) + 1 = i
      BY <1>1
    <2>2. g[i] = D[i - 1][g[i - 1]]
      BY <1>3, <2>1 DEF IsIteration
    <2> QED BY <1>1, <1>4, <2>1, <2>2
  <1> DEFINE f == [i \in 0..Len(d) |-> g[i]]
  <1>6. f \in [0..Len(d) -> Nat]
    BY <1>1, <1>4
  <1>7. \A i \in 0..Len(d) : f[i] = IF i = 0 THEN 0 ELSE 10 * f[i - 1] + d[i]
    <2> TAKE i \in 0..Len(d)
    <2>1. f[i] = g[i] /\ (i # 0 => i \in 1..Len(d) /\ i - 1 \in 0..Len(d) /\ f[i - 1] = g[i - 1])
      BY <1>1
    <2> HIDE DEF f
    <2> QED BY <1>4, <1>5, <2>1
  <1> HIDE DEF f
  <1>8. IsUpTo(d, f)
    BY <1>6, <1>7 DEF IsUpTo
  <1> QED BY <1>6, <1>8

LEMMA UpToUnique ==
  ASSUME NEW d \in Seq(Nat), NEW f, NEW g, IsUpTo(d, f), IsUpTo(d, g)
  PROVE  f[Len(d)] = g[Len(d)]
  <1>1. Len(d) \in Nat
    BY LenProperties
  <1>2. /\ \A i \in 0..Len(d) : f[i] = IF i = 0 THEN 0 ELSE 10 * f[i - 1] + d[i]
        /\ \A i \in 0..Len(d) : g[i] = IF i = 0 THEN 0 ELSE 10 * g[i - 1] + d[i]
    BY DEF IsUpTo
  <1> DEFINE S == {i \in Nat : i <= Len(d) => f[i] = g[i]}
  <1>3. 0 \in S
    BY <1>1, <1>2
  <1>4. ASSUME NEW i \in Nat, i \in S PROVE i + 1 \in S
    <2> SUFFICES ASSUME i + 1 <= Len(d) PROVE f[i + 1] = g[i + 1]
      OBVIOUS
    <2>1. i + 1 \in 0..Len(d) /\ i + 1 # 0 /\ (i + 1) - 1 = i /\ f[i] = g[i]
      BY <1>1, <1>4
    <2> QED BY <1>2, <2>1
  <1>5. Nat \subseteq S
    <2> HIDE DEF S
    <2> QED BY <1>3, <1>4, Induction
  <1> QED BY <1>1, <1>5

LEMMA ValueIs ==
  ASSUME NEW d \in Seq(Nat), NEW f, IsUpTo(d, f)
  PROVE  Value(d) = f[Len(d)]
  <1> DEFINE g == CHOOSE h : IsUpTo(d, h)
  <1>1. Value(d) = g[Len(d)]
    BY DEF Value, IsUpTo
  <1>2. IsUpTo(d, g)
    OBVIOUS
  <1> HIDE DEF g
  <1> QED BY <1>1, <1>2, UpToUnique

(* A digit more makes ten times the number, and the digit.                 *)
LEMMA ValueAppend ==
  ASSUME NEW d \in Seq(Nat), NEW a \in Nat
  PROVE  Value(d) \in Nat /\ Value(Append(d, a)) = 10 * Value(d) + a
  <1> DEFINE e == Append(d, a)
  <1>1. /\ Len(d) \in Nat /\ e \in Seq(Nat) /\ Len(e) = Len(d) + 1
        /\ e[Len(d) + 1] = a /\ \A i \in 1..Len(d) : e[i] = d[i]
    BY LenProperties, AppendProperties
  <1> HIDE DEF e
  <1>2. PICK f \in [0..Len(e) -> Nat] : IsUpTo(e, f)
    BY <1>1, UpToExists
  <1>3. \A i \in 0..Len(e) : f[i] = IF i = 0 THEN 0 ELSE 10 * f[i - 1] + e[i]
    BY <1>2 DEF IsUpTo
  <1> DEFINE g == [i \in 0..Len(d) |-> f[i]]
  <1>4. \A i \in 0..Len(d) : i \in 0..Len(e) /\ g[i] = f[i] /\ (i # 0 => i - 1 \in 0..Len(d) /\ i \in 1..Len(d))
    BY <1>1
  <1>5. \A i \in 0..Len(d) : g[i] = IF i = 0 THEN 0 ELSE 10 * g[i - 1] + d[i]
    <2> TAKE i \in 0..Len(d)
    <2>1. CASE i = 0
      BY <1>3, <1>4, <2>1
    <2>2. CASE i # 0
      <3>1. g[i] = f[i] /\ g[i - 1] = f[i - 1] /\ e[i] = d[i]
        BY <1>1, <1>4, <2>2
      <3> QED BY <1>3, <1>4, <2>2, <3>1
    <2> QED BY <2>1, <2>2
  <1>6. IsUpTo(d, g)
    <2>1. g = [i \in 0..Len(d) |-> g[i]]
      OBVIOUS
    <2> HIDE DEF g
    <2> QED BY <1>5, <2>1 DEF IsUpTo
  <1>7. Value(d) = g[Len(d)] /\ g[Len(d)] = f[Len(d)]
    <2> HIDE DEF g
    <2> QED BY <1>1, <1>4, <1>6, ValueIs
  <1>8. Value(e) = f[Len(d) + 1]
    BY <1>1, <1>2, ValueIs
  <1>9. f[Len(d) + 1] = 10 * f[Len(d)] + a
    <2>1. Len(d) + 1 \in 0..Len(e) /\ Len(d) + 1 # 0 /\ (Len(d) + 1) - 1 = Len(d)
      BY <1>1
    <2> QED BY <1>1, <1>3, <2>1
  <1>10. f[Len(d)] \in Nat
    BY <1>1, <1>2
  <1> QED BY <1>7, <1>8, <1>9, <1>10 DEF e

LEMMA ValueEmpty == Value(<<>>) = 0
  <1>1. <<>> \in Seq(Nat) /\ Len(<<>>) = 0
    BY EmptySeq
  <1>2. PICK f \in [0..Len(<<>>) -> Nat] : IsUpTo(<<>>, f)
    BY <1>1, UpToExists
  <1>3. f[0] = 0
    BY <1>1, <1>2 DEF IsUpTo
  <1> QED BY <1>1, <1>2, <1>3, ValueIs

LEMMA ConcatDigits ==
  ASSUME NEW w \in Seq(Nat), NEW f \in Seq(Nat)
  PROVE  /\ Len(f) = 0 => f = <<>> /\ w \o f = w
         /\ Len(f) = 1 => f = Append(<<>>, f[1]) /\ w \o f = Append(w, f[1])
         /\ Len(f) = 2 => /\ f = Append(Append(<<>>, f[1]), f[2])
                         /\ w \o f = Append(Append(w, f[1]), f[2])
         /\ \A i \in 1..Len(f) : f[i] \in Nat
  <1>1. Len(w) \in Nat /\ Len(f) \in Nat /\ \A i \in 1..Len(f) : f[i] \in Nat
    BY LenProperties, ElementOfSeq
  <1>2. /\ w \o f \in Seq(Nat) /\ Len(w \o f) = Len(w) + Len(f)
        /\ \A i \in 1..(Len(w) + Len(f)) : (w \o f)[i] = IF i <= Len(w) THEN w[i] ELSE f[i - Len(w)]
    BY ConcatProperties
  <1>3. ASSUME Len(f) = 0 PROVE f = <<>> /\ w \o f = w
    <2>1. \A i \in 1..Len(w) : (w \o f)[i] = w[i]
      BY <1>1, <1>2, <1>3
    <2> QED BY <1>1, <1>2, <1>3, <2>1, EmptySeq, SeqEqual
  <1>4. ASSUME NEW v \in Seq(Nat), NEW a \in Nat
        PROVE  /\ Append(v, a) \in Seq(Nat) /\ Len(Append(v, a)) = Len(v) + 1 /\ Len(v) \in Nat
               /\ \A i \in 1..(Len(v) + 1) : Append(v, a)[i] = IF i <= Len(v) THEN v[i] ELSE a
    <2>1. /\ Append(v, a) \in Seq(Nat) /\ Len(Append(v, a)) = Len(v) + 1 /\ Len(v) \in Nat
          /\ \A i \in 1..Len(v) : Append(v, a)[i] = v[i]
          /\ Append(v, a)[Len(v) + 1] = a
      BY <1>4, AppendProperties, LenProperties
    <2> QED BY <2>1
  <1>5. <<>> \in Seq(Nat) /\ Len(<<>>) = 0
    BY EmptySeq
  <1>6. ASSUME Len(f) = 1 PROVE f = Append(<<>>, f[1]) /\ w \o f = Append(w, f[1])
    <2>1. f[1] \in Nat
      BY <1>1, <1>6
    <2>2. /\ Append(<<>>, f[1]) \in Seq(Nat) /\ Len(Append(<<>>, f[1])) = 1
          /\ \A i \in 1..1 : Append(<<>>, f[1])[i] = f[i]
      BY <1>4, <1>5, <2>1
    <2>3. f = Append(<<>>, f[1])
      BY <1>6, <2>2, SeqEqual
    <2>4. /\ Append(w, f[1]) \in Seq(Nat) /\ Len(Append(w, f[1])) = Len(w) + 1
          /\ \A i \in 1..(Len(w) + 1) : Append(w, f[1])[i] = IF i <= Len(w) THEN w[i] ELSE f[1]
      BY <1>4, <2>1
    <2>5. \A i \in 1..(Len(w) + 1) : (w \o f)[i] = Append(w, f[1])[i]
      <3> TAKE i \in 1..(Len(w) + 1)
      <3>1. ~(i <= Len(w)) => i - Len(w) = 1
        BY <1>1
      <3> QED BY <1>1, <1>2, <1>6, <2>4, <3>1
    <2>6. w \o f = Append(w, f[1])
      BY <1>2, <1>6, <2>4, <2>5, SeqEqual
    <2> QED BY <2>3, <2>6
  <1>7. ASSUME Len(f) = 2
        PROVE  f = Append(Append(<<>>, f[1]), f[2]) /\ w \o f = Append(Append(w, f[1]), f[2])
    <2>1. f[1] \in Nat /\ f[2] \in Nat
      BY <1>1, <1>7
    <2>2. ASSUME NEW v \in Seq(Nat)
          PROVE  /\ Append(Append(v, f[1]), f[2]) \in Seq(Nat)
                 /\ Len(Append(Append(v, f[1]), f[2])) = Len(v) + 2 /\ Len(v) \in Nat
                 /\ \A i \in 1..(Len(v) + 2) :
                      Append(Append(v, f[1]), f[2])[i] = IF i <= Len(v) THEN v[i] ELSE f[i - Len(v)]
      <3> DEFINE u == Append(v, f[1])
      <3>1. /\ u \in Seq(Nat) /\ Len(u) = Len(v) + 1 /\ Len(v) \in Nat
            /\ \A i \in 1..(Len(v) + 1) : u[i] = IF i <= Len(v) THEN v[i] ELSE f[1]
        BY <1>4, <2>1, <2>2
      <3> HIDE DEF u
      <3>2. /\ Append(u, f[2]) \in Seq(Nat) /\ Len(Append(u, f[2])) = Len(v) + 2
            /\ \A i \in 1..(Len(v) + 2) : Append(u, f[2])[i] = IF i <= Len(v) + 1 THEN u[i] ELSE f[2]
        BY <1>4, <2>1, <3>1
      <3>3. \A i \in 1..(Len(v) + 2) :
              Append(u, f[2])[i] = IF i <= Len(v) THEN v[i] ELSE f[i - Len(v)]
        <4> TAKE i \in 1..(Len(v) + 2)
        <4>0. i \in Int /\ 1 <= i /\ (i <= Len(v) \/ i = Len(v) + 1 \/ i = Len(v) + 2)
          <5>1. PICK n \in Nat : n = Len(v)
            BY <3>1
          <5>2. i \in 1..(n + 2)
            BY <5>1
          <5>3. i \in Int /\ 1 <= i /\ (i <= n \/ i = n + 1 \/ i = n + 2)
            BY <5>2
          <5> QED BY <5>1, <5>3
        <4>1. CASE i <= Len(v)
          <5>1. i \in 1..(Len(v) + 1) /\ i <= Len(v) + 1
            BY <3>1, <4>1
          <5>2. Append(u, f[2])[i] = u[i] /\ u[i] = v[i]
            BY <3>1, <3>2, <4>1, <5>1
          <5> QED BY <4>1, <5>2
        <4>2. CASE i = Len(v) + 1
          <5>1. i - Len(v) = 1 /\ ~(i <= Len(v)) /\ i \in 1..(Len(v) + 1)
            BY <3>1, <4>2
          <5> QED BY <3>1, <3>2, <4>2, <5>1
        <4>3. CASE i = Len(v) + 2
          <5>1. i - Len(v) = 2 /\ ~(i <= Len(v)) /\ ~(i <= Len(v) + 1)
            BY <3>1, <4>3
          <5> QED BY <3>2, <5>1
        <4> QED BY <4>0, <4>1, <4>2, <4>3
      <3> QED BY <3>1, <3>2, <3>3 DEF u
    <2> DEFINE e == Append(Append(<<>>, f[1]), f[2])
    <2>3. /\ e \in Seq(Nat) /\ Len(e) = 2 /\ \A i \in 1..2 : e[i] = f[i]
      BY <1>5, <2>2
    <2> HIDE DEF e
    <2>4. f = e
      BY <1>7, <2>3, SeqEqual
    <2>5. w \o f = Append(Append(w, f[1]), f[2])
      BY <1>2, <1>7, <2>2, SeqEqual
    <2> QED BY <2>4, <2>5 DEF e
  <1> QED BY <1>1, <1>3, <1>6, <1>7

LEMMA ValueConcat ==
  ASSUME NEW w \in Seq(Nat), NEW f \in Seq(Nat)
  PROVE  /\ Value(w) \in Nat
         /\ Len(f) = 0 => Value(f) = 0 /\ Value(w \o f) = Value(w)
         /\ Len(f) = 1 => Value(f) \in Nat /\ Value(w \o f) = 10 * Value(w) + Value(f)
         /\ Len(f) = 2 => Value(f) \in Nat /\ Value(w \o f) = 100 * Value(w) + Value(f)
  <1>1. Value(w) \in Nat
    BY ValueAppend
  <1>2. \A i \in 1..Len(f) : f[i] \in Nat
    BY ConcatDigits
  <1>0. \A d \in Seq(Nat) : \A a \in Nat : Value(Append(d, a)) = 10 * Value(d) + a
    BY ValueAppend
  <1>3. CASE Len(f) = 0
    BY <1>1, <1>3, ConcatDigits, ValueEmpty
  <1>4. PICK e : e = <<>> /\ e \in Seq(Nat) /\ Value(e) = 0
    BY EmptySeq, ValueEmpty
  <1>5. CASE Len(f) = 1
    <2>1. f[1] \in Nat
      BY <1>2, <1>5
    <2>2. Value(Append(e, f[1])) = f[1] /\ Value(Append(w, f[1])) = 10 * Value(w) + f[1]
      <3>1. /\ Value(Append(e, f[1])) = 10 * Value(e) + f[1]
            /\ Value(Append(w, f[1])) = 10 * Value(w) + f[1]
        BY <1>0, <1>4, <2>1
      <3>2. 10 * 0 + f[1] = f[1]
        BY <2>1
      <3> QED BY <1>4, <3>1, <3>2
    <2>3. f = Append(e, f[1]) /\ w \o f = Append(w, f[1])
      BY <1>4, <1>5, ConcatDigits
    <2>4. Value(f) = f[1] /\ Value(w \o f) = 10 * Value(w) + f[1]
      BY <2>2, <2>3
    <2> QED BY <1>1, <1>5, <2>1, <2>4
  <1>6. CASE Len(f) = 2
    <2>1. f[1] \in Nat /\ f[2] \in Nat
      BY <1>2, <1>6
    <2>2. Append(e, f[1]) \in Seq(Nat) /\ Append(w, f[1]) \in Seq(Nat)
      BY <1>4, <2>1, AppendProperties
    <2>3. Value(Append(e, f[1])) = f[1] /\ Value(Append(w, f[1])) = 10 * Value(w) + f[1]
      <3>1. /\ Value(Append(e, f[1])) = 10 * Value(e) + f[1]
            /\ Value(Append(w, f[1])) = 10 * Value(w) + f[1]
        BY <1>0, <1>4, <2>1
      <3>2. 10 * 0 + f[1] = f[1]
        BY <2>1
      <3> QED BY <1>4, <3>1, <3>2
    <2>4. /\ Value(Append(Append(e, f[1]), f[2])) = 10 * f[1] + f[2]
          /\ Value(Append(Append(w, f[1]), f[2])) = 10 * (10 * Value(w) + f[1]) + f[2]
      BY <2>1, <2>2, <2>3, ValueAppend
    <2>5. f = Append(Append(e, f[1]), f[2]) /\ w \o f = Append(Append(w, f[1]), f[2])
      BY <1>4, <1>6, ConcatDigits
    <2>6. Value(f) = 10 * f[1] + f[2] /\ Value(w \o f) = 10 * (10 * Value(w) + f[1]) + f[2]
      BY <2>4, <2>5
    <2>7. PICK a, b, c \in Nat : a = Value(w) /\ b = f[1] /\ c = f[2]
      BY <1>1, <2>1
    <2>8. Value(f) = 10 * b + c /\ Value(w \o f) = 10 * (10 * a + b) + c
      BY <2>6, <2>7
    <2>9. 10 * b + c \in Nat /\ 10 * (10 * a + b) + c = 100 * a + (10 * b + c)
      OBVIOUS
    <2>10. Value(f) \in Nat /\ Value(w \o f) = 100 * Value(w) + Value(f)
      BY <2>7, <2>8, <2>9
    <2> QED BY <1>1, <1>6, <2>10
  <1> QED BY <1>1, <1>3, <1>5, <1>6

-----------------------------------------------------------------------------
(* Amounts *)

Written(t) == Value(t.whole \o t.fraction) * 100
Scale(t) == 10 ^ Len(t.fraction)

LEMMA DigitsAreNumbers ==
  ASSUME NEW t \in Amount
  PROVE  t.whole \in Seq(Nat) /\ t.fraction \in Seq(Nat) /\ Len(t.fraction) \in Nat
  <1>1. t.whole \in Seq(0..NotADigit) /\ t.fraction \in Seq(0..NotADigit) /\ 0..NotADigit \subseteq Nat
    BY DEF Amount, NotADigit
  <1> QED BY <1>1, SeqMonotonic, LenProperties

LEMMA Units ==
  ASSUME NEW t \in Amount, WellFormed(t)
  PROVE  \E units \in Nat :
           /\ ParseMinorUnits(t) = IF units > MaxInt THEN Unset ELSE units
           /\ units * Scale(t) = Written(t) /\ Scale(t) \in {1, 10, 100}
  <1>1. t.whole \in Seq(Nat) /\ t.fraction \in Seq(Nat) /\ Len(t.fraction) \in {0, 1, 2}
    <2>1. t.whole \in Seq(Nat) /\ t.fraction \in Seq(Nat) /\ Len(t.fraction) \in Nat
      BY DigitsAreNumbers
    <2>2. Len(t.fraction) <= 2
      BY DEF WellFormed
    <2>3. PICK n \in Nat : n = Len(t.fraction)
      BY <2>1
    <2>4. ASSUME NEW k \in Nat, k <= 2 PROVE k \in {0, 1, 2}
      BY <2>4
    <2>5. n <= 2
      BY <2>2, <2>3
    <2>6. n \in {0, 1, 2}
      BY <2>4, <2>5, Zenon
    <2> QED BY <2>1, <2>3, <2>6, Zenon
  <1>2. PICK w \in Nat : w = Value(t.whole)
    BY <1>1, ValueConcat
  <1>3. PICK f \in Nat : f = Value(t.fraction)
    BY <1>1, ValueConcat
  <1>4. /\ Len(t.fraction) = 0 => f = 0 /\ Value(t.whole \o t.fraction) = w
        /\ Len(t.fraction) = 1 => Value(t.whole \o t.fraction) = 10 * w + f
        /\ Len(t.fraction) = 2 => Value(t.whole \o t.fraction) = 100 * w + f
    BY <1>1, <1>2, <1>3, ValueConcat
  <1>5. PICK units \in Nat : units = 100 * w + (IF Len(t.fraction) = 1 THEN 10 * f ELSE f)
    OBVIOUS
  <1>6. ParseMinorUnits(t) = IF w > MaxInt \/ units > MaxInt THEN Unset ELSE units
    BY <1>2, <1>3, <1>5, Zenon DEF ParseMinorUnits
  <1>7. w <= units /\ MaxInt \in Nat
    BY <1>5, EvaluationAssumption
  <1>8. ParseMinorUnits(t) = IF units > MaxInt THEN Unset ELSE units
    BY <1>6, <1>7
  <1>9. units * Scale(t) = Written(t) /\ Scale(t) \in {1, 10, 100}
    <2>1. CASE Len(t.fraction) = 0
      <3>1. Scale(t) = 1 /\ Written(t) = w * 100 /\ units = 100 * w
        BY <1>4, <1>5, <2>1 DEF Scale, Written
      <3> QED BY <3>1
    <2>2. CASE Len(t.fraction) = 1
      <3>1. Scale(t) = 10 /\ Written(t) = (10 * w + f) * 100 /\ units = 100 * w + 10 * f
        BY <1>4, <1>5, <2>2 DEF Scale, Written
      <3> QED BY <3>1
    <2>3. CASE Len(t.fraction) = 2
      <3>1. Scale(t) = 100 /\ Written(t) = (100 * w + f) * 100 /\ units = 100 * w + f
        BY <1>4, <1>5, <2>3 DEF Scale, Written
      <3> QED BY <3>1
    <2> QED BY <1>1, <2>1, <2>2, <2>3
  <1> QED BY <1>8, <1>9

(* parse_minor_units returns the number of hundredths that an amount is    *)
(* written as, or refuses it because it is malformed or has no room in an  *)
(* unsigned integer: for every text, of whatever length.                   *)
THEOREM EveryAmountIsExact ==
  ASSUME NEW t \in Amount
  PROVE  IF WellFormed(t) /\ Written(t) <= MaxInt * Scale(t)
           THEN /\ ParseMinorUnits(t) # Unset /\ ParseMinorUnits(t) \in Nat
                /\ ParseMinorUnits(t) * Scale(t) = Written(t)
           ELSE ParseMinorUnits(t) = Unset
  <1>1. CASE ~WellFormed(t)
    BY <1>1 DEF ParseMinorUnits
  <1>2. CASE WellFormed(t)
    <2>1. PICK units \in Nat : /\ ParseMinorUnits(t) = IF units > MaxInt THEN Unset ELSE units
                               /\ units * Scale(t) = Written(t) /\ Scale(t) \in {1, 10, 100}
      BY <1>2, Units
    <2>2. MaxInt \in Nat /\ Unset \notin Nat
      BY EvaluationAssumption
    <2>3. units <= MaxInt <=> Written(t) <= MaxInt * Scale(t)
      <3>1. CASE Scale(t) = 1
        BY <2>1, <2>2, <3>1
      <3>2. CASE Scale(t) = 10
        BY <2>1, <2>2, <3>2
      <3>3. CASE Scale(t) = 100
        BY <2>1, <2>2, <3>3
      <3> QED BY <2>1, <3>1, <3>2, <3>3
    <2> QED BY <1>2, <2>1, <2>2, <2>3
  <1> QED BY <1>1, <1>2

LEMMA AmountsHold == AmountsAreExact
  BY EveryAmountIsExact, EvaluationAssumption DEF AmountsAreExact, Written, Scale

-----------------------------------------------------------------------------
(* Lists *)

LEMMA PrefixIsBeginning ==
  ASSUME NEW p \in Name, NEW name \in Name
  PROVE  /\ IsPrefix(p, name) <=> \E rest \in 0..Len(name) : p = SubSeq(name, 1, rest)
         /\ \E rest \in 0..Len(name) : name = SubSeq(name, 1, rest)
  <1>1. Len(p) \in Nat /\ Len(name) \in Nat
    BY LenProperties DEF Name
  <1>2. ASSUME NEW s \in Name, NEW n \in 0..Len(s)
        PROVE  /\ SubSeq(s, 1, n) \in Name /\ Len(SubSeq(s, 1, n)) = n
               /\ \A i \in 1..n : SubSeq(s, 1, n)[i] = s[i]
    <2>1. Len(s) \in Nat /\ n \in Nat /\ \A i \in 1..n : s[i] \in Segment
      BY <1>2, LenProperties, ElementOfSeq DEF Name
    <2>2. /\ SubSeq(s, 1, n) \in Seq(Segment)
          /\ Len(SubSeq(s, 1, n)) = IF 1 <= n THEN n - 1 + 1 ELSE 0
          /\ \A i \in 1..(n - 1 + 1) : SubSeq(s, 1, n)[i] = s[1 + i - 1]
      BY <2>1, SubSeqProperties
    <2> QED BY <2>1, <2>2 DEF Name
  <1>3. ASSUME NEW s \in Name PROVE SubSeq(s, 1, Len(s)) = s
    <2>1. Len(s) \in Nat /\ Len(s) \in 0..Len(s)
      BY <1>3, LenProperties DEF Name
    <2>2. /\ SubSeq(s, 1, Len(s)) \in Name /\ Len(SubSeq(s, 1, Len(s))) = Len(s)
          /\ \A i \in 1..Len(s) : SubSeq(s, 1, Len(s))[i] = s[i]
      BY <1>2, <2>1
    <2> QED BY <1>3, <2>2, SeqEqual DEF Name
  <1>4. ASSUME IsPrefix(p, name) PROVE \E rest \in 0..Len(name) : p = SubSeq(name, 1, rest)
    <2>1. Len(p) <= Len(name) /\ SubSeq(p, 1, Len(p)) = SubSeq(name, 1, Len(p))
      BY <1>4 DEF IsPrefix
    <2>2. Len(p) \in 0..Len(name) /\ p = SubSeq(name, 1, Len(p))
      BY <1>1, <1>3, <2>1
    <2>3. PICK rest \in 0..Len(name) : rest = Len(p)
      BY <2>2, Zenon
    <2>4. p = SubSeq(name, 1, rest)
      BY <2>2, <2>3, Zenon
    <2> QED BY <2>4, Zenon
  <1>5. ASSUME NEW rest \in 0..Len(name), p = SubSeq(name, 1, rest) PROVE IsPrefix(p, name)
    <2>1. Len(p) = rest /\ Len(p) <= Len(name)
      BY <1>1, <1>2, <1>5
    <2> QED BY <1>3, <1>5, <2>1 DEF IsPrefix
  <1>6. \E rest \in 0..Len(name) : name = SubSeq(name, 1, rest)
    <2>1. Len(name) \in 0..Len(name) /\ name = SubSeq(name, 1, Len(name))
      BY <1>1, <1>3
    <2>2. PICK rest \in 0..Len(name) : rest = Len(name)
      BY <2>1, Zenon
    <2>3. name = SubSeq(name, 1, rest)
      BY <2>1, <2>2, Zenon
    <2> QED BY <2>3, Zenon
  <1> QED BY <1>4, <1>5, <1>6

(* What matches a pattern of a list is what the list admits.               *)
LEMMA MatchesAdmits ==
  ASSUME NEW patterns \in List, NEW name \in Name
  PROVE  Matches(patterns, name) <=> Admits(patterns, name)
  <1>1. \A p \in patterns : p.name \in Name /\ p.open \in BOOLEAN
    BY DEF List
  <1>2. ASSUME NEW p \in patterns
        PROVE  p.name = name \/ (p.open /\ IsPrefix(p.name, name)) <=>
                 IF p.open THEN \E rest \in 0..Len(name) : p.name = SubSeq(name, 1, rest) ELSE p.name = name
    <2>1. CASE p.open
      BY <1>1, <1>2, <2>1, PrefixIsBeginning
    <2>2. CASE ~p.open
      BY <2>2
    <2> QED BY <2>1, <2>2
  <1> QED BY <1>2 DEF Matches, Admits

-----------------------------------------------------------------------------
(* Verdicts *)

LEMMA AmountWithinLimit ==
  ASSUME NEW money \in Money, NEW limit \in Nat, AmountOf(money) # Unset
  PROVE  AmountOf(money) <= limit <=> PaysAtMost(money, limit)
  <1>1. CASE money.minor # Unset
    BY <1>1 DEF AmountOf, PaysAtMost
  <1>2. CASE money.minor = Unset
    <2>1. PICK t \in Amount : t = money.text
      BY DEF Money
    <2>2. AmountOf(money) = ParseMinorUnits(t) /\ ParseMinorUnits(t) # Unset
      BY <1>2, <2>1 DEF AmountOf
    <2>3. PaysAtMost(money, limit) <=> Written(t) <= limit * Scale(t)
      BY <1>2, <2>1 DEF PaysAtMost, Written, Scale
    <2>4. WellFormed(t)
      BY <2>2 DEF ParseMinorUnits
    <2>5. PICK units \in Nat : /\ ParseMinorUnits(t) = units
                               /\ units * Scale(t) = Written(t) /\ Scale(t) \in {1, 10, 100}
      BY <2>2, <2>4, Units
    <2>6. units <= limit <=> units * Scale(t) <= limit * Scale(t)
      <3>1. CASE Scale(t) = 1
        BY <3>1
      <3>2. CASE Scale(t) = 10
        BY <3>2
      <3>3. CASE Scale(t) = 100
        BY <3>3
      <3> QED BY <2>5, <3>1, <3>2, <3>3
    <2> QED BY <2>2, <2>3, <2>5, <2>6
  <1> QED BY <1>1, <1>2

LEMMA MoneyPasses ==
  ASSUME NEW rule \in Rule, NEW money \in Money
  PROVE  MoneyVerdict(rule, money) \notin {"error", "denied"} <=>
           /\ money.currency # Unset
           /\ money.minor # Unset \/ ParseMinorUnits(money.text) # Unset
           /\ rule.currencies # Unset => Admits(rule.currencies, money.currency)
           /\ rule.beneficiaries # Unset =>
                money.beneficiary # Unset /\ Admits(rule.beneficiaries, money.beneficiary)
           /\ rule.limit # Unset => PaysAtMost(money, rule.limit)
  <1> DEFINE amount == AmountOf(money)
             unpriced == money.currency = Unset \/ amount = Unset
             foreign == rule.currencies # Unset /\ ~Matches(rule.currencies, money.currency)
             unnamed == rule.beneficiaries # Unset /\ money.beneficiary = Unset
             stranger == rule.beneficiaries # Unset /\ ~Matches(rule.beneficiaries, money.beneficiary)
             within == rule.limit = Unset \/ amount <= rule.limit
  <1>1. /\ unpriced => MoneyVerdict(rule, money) = "error"
        /\ ~unpriced /\ foreign => MoneyVerdict(rule, money) = "denied"
        /\ ~unpriced /\ ~foreign /\ unnamed => MoneyVerdict(rule, money) = "error"
        /\ ~unpriced /\ ~foreign /\ ~unnamed /\ stranger => MoneyVerdict(rule, money) = "denied"
        /\ ~unpriced /\ ~foreign /\ ~unnamed /\ ~stranger =>
             MoneyVerdict(rule, money) = IF within THEN "allowed" ELSE "denied"
    BY Zenon DEF MoneyVerdict
  <1>2. MoneyVerdict(rule, money) \notin {"error", "denied"} <=>
          ~unpriced /\ ~foreign /\ ~unnamed /\ ~stranger /\ within
    <2> HIDE DEF amount, unpriced, foreign, unnamed, stranger, within
    <2> QED BY <1>1
  <1>3. /\ rule.currencies \in {Unset} \cup List /\ rule.beneficiaries \in {Unset} \cup List
        /\ rule.limit \in {Unset} \cup Nat /\ Unset \notin Nat
    BY EvaluationAssumption
  <1>4. /\ money.currency \in {Unset} \cup Name /\ money.beneficiary \in {Unset} \cup Name
        /\ money.minor \in {Unset} \cup Nat
    BY DEF Money
  <1>5. ~unpriced <=>
          money.currency # Unset /\ (money.minor # Unset \/ ParseMinorUnits(money.text) # Unset)
    BY DEF AmountOf
  <1>6. money.currency # Unset => (~foreign <=> (rule.currencies # Unset => Admits(rule.currencies, money.currency)))
    BY <1>3, <1>4, MatchesAdmits
  <1>7. ~unnamed /\ ~stranger <=> (rule.beneficiaries # Unset =>
          money.beneficiary # Unset /\ Admits(rule.beneficiaries, money.beneficiary))
    BY <1>3, <1>4, MatchesAdmits
  <1>8. ~unpriced => (within <=> (rule.limit # Unset => PaysAtMost(money, rule.limit)))
    BY <1>3, AmountWithinLimit
  <1> HIDE DEF amount, unpriced, foreign, unnamed, stranger, within
  <1> QED BY <1>2, <1>5, <1>6, <1>7, <1>8

(* evaluate_policy allows an intent if and only if the policy admits all   *)
(* of it, whatever names, lists, sizes, limits and amounts there are.      *)
THEOREM VerdictsHold == VerdictsAreExact
  <1> SUFFICES ASSUME NEW rule \in Rule, NEW intent \in Intent
               PROVE  Evaluate(rule, intent) = "ALLOWED" <=>
                 /\ ValidSpec(rule)
                 /\ rule.tenant = "*" \/ rule.tenant = intent.tenant
                 /\ Admits(rule.actions, intent.action) /\ Admits(rule.resources, intent.resource)
                 /\ intent.ttl <= rule.max_ttl /\ intent.bytes <= rule.max_bytes /\ ~intent.fractional
                 /\ intent.money # Unset =>
                      LET money == intent.money IN
                      /\ money.currency # Unset
                      /\ money.minor # Unset \/ ParseMinorUnits(money.text) # Unset
                      /\ rule.currencies # Unset => Admits(rule.currencies, money.currency)
                      /\ rule.beneficiaries # Unset =>
                           money.beneficiary # Unset /\ Admits(rule.beneficiaries, money.beneficiary)
                      /\ rule.limit # Unset => PaysAtMost(money, rule.limit)
    BY DEF VerdictsAreExact
  <1> DEFINE fails == intent.money # Unset /\ MoneyVerdict(rule, intent.money) = "error"
             denied == intent.money # Unset /\ MoneyVerdict(rule, intent.money) = "denied"
  <1>1. Evaluate(rule, intent) = "ALLOWED" <=> ValidSpec(rule) /\ ~fails /\ Reasons(rule, intent) = {}
    <2>1. ~ValidSpec(rule) => Evaluate(rule, intent) = "error"
      BY Zenon DEF Evaluate
    <2>2. ValidSpec(rule) /\ fails => Evaluate(rule, intent) = "error"
      BY Zenon DEF Evaluate
    <2>3. ValidSpec(rule) /\ ~fails =>
            Evaluate(rule, intent) = IF Reasons(rule, intent) = {} THEN "ALLOWED" ELSE "BLOCKED"
      BY Zenon DEF Evaluate
    <2> HIDE DEF fails
    <2> QED BY <2>1, <2>2, <2>3
  <1>2. Reasons(rule, intent) = {} <=>
          /\ rule.tenant \in {"*", intent.tenant}
          /\ Matches(rule.actions, intent.action) /\ Matches(rule.resources, intent.resource)
          /\ ~(intent.ttl > rule.max_ttl) /\ ~(intent.bytes > rule.max_bytes) /\ ~intent.fractional
          /\ ~denied
    <2> HIDE DEF denied
    <2>1. Reasons(rule, intent) =
            {r \in {"TENANT", "ACTION", "RESOURCE", "TTL", "NON_DETERMINISTIC", "TOO_LARGE", "MONEY"} :
               \/ r = "TENANT" /\ rule.tenant \notin {"*", intent.tenant}
               \/ r = "ACTION" /\ ~Matches(rule.actions, intent.action)
               \/ r = "RESOURCE" /\ ~Matches(rule.resources, intent.resource)
               \/ r = "TTL" /\ intent.ttl > rule.max_ttl
               \/ r = "NON_DETERMINISTIC" /\ intent.fractional
               \/ r = "TOO_LARGE" /\ intent.bytes > rule.max_bytes
               \/ r = "MONEY" /\ denied}
      BY DEF Reasons, denied
    <2> QED BY <2>1
  <1>3. /\ rule.actions \in List /\ rule.resources \in List
        /\ intent.action \in Name /\ intent.resource \in Name
        /\ intent.ttl \in Nat /\ intent.bytes \in Nat
        /\ intent.money \in {Unset} \cup Money
    BY EvaluationAssumption
  <1>4. rule.max_ttl \in Nat /\ rule.max_bytes \in Nat
    BY EvaluationAssumption
  <1>5. ~fails /\ ~denied <=>
          (intent.money # Unset => MoneyVerdict(rule, intent.money) \notin {"error", "denied"})
    OBVIOUS
  <1> HIDE DEF fails, denied
  <1>6. /\ Matches(rule.actions, intent.action) <=> Admits(rule.actions, intent.action)
        /\ Matches(rule.resources, intent.resource) <=> Admits(rule.resources, intent.resource)
    BY <1>3, MatchesAdmits
  <1>7. /\ ~(intent.ttl > rule.max_ttl) <=> intent.ttl <= rule.max_ttl
        /\ ~(intent.bytes > rule.max_bytes) <=> intent.bytes <= rule.max_bytes
    BY <1>3, <1>4
  <1>8. CASE intent.money = Unset
    BY <1>1, <1>2, <1>5, <1>6, <1>7, <1>8
  <1>9. CASE intent.money # Unset
    <2>1. PICK money \in Money : money = intent.money
      BY <1>3, <1>9
    <2>2. ~fails /\ ~denied <=>
            /\ money.currency # Unset
            /\ money.minor # Unset \/ ParseMinorUnits(money.text) # Unset
            /\ rule.currencies # Unset => Admits(rule.currencies, money.currency)
            /\ rule.beneficiaries # Unset =>
                 money.beneficiary # Unset /\ Admits(rule.beneficiaries, money.beneficiary)
            /\ rule.limit # Unset => PaysAtMost(money, rule.limit)
      BY <1>5, <1>9, <2>1, MoneyPasses
    <2> QED BY <1>1, <1>2, <1>6, <1>7, <1>9, <2>1, <2>2
  <1> QED BY <1>8, <1>9

(* No payment gets past the policy that answers a request by the way its   *)
(* amount is written, and no intent by the way a name continues a pattern  *)
(* (active_policy, evaluate_policy).                                       *)
THEOREM RulesAreAlwaysExact == Spec => []RulesAreExact
  <1>1. RulesAreExact
    BY AmountsHold, VerdictsHold DEF RulesAreExact
  <1> QED BY <1>1, PTL
=============================================================================
