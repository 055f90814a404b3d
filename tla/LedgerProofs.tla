---------------------------- MODULE LedgerProofs ----------------------------
(***************************************************************************)
(* The decision ledger for any number of recorders, decisions, batches and *)
(* restores.                                                               *)
(*                                                                         *)
(* That the ledger is a chain is inductive with four additions: hashes are *)
(* no greater than the number of decisions ever recorded, a ledger that is *)
(* not empty has a genesis and a deepest decision, so that the query for   *)
(* the last decision has an answer, and what a recorder that has the write *)
(* lock has read of it is still so, since it is the only one that has the  *)
(* lock.  A backup is such a ledger too, which is why a restore keeps all  *)
(* of it.                                                                  *)
(***************************************************************************)
EXTENDS Storage, FiniteSetTheorems, TLAPS

(* LedgerIsAChain, of any set of decisions. *)
IsChain(ds) ==
  /\ \A d, e \in ds : d # e => d.parent # e.parent /\ d.depth # e.depth /\ d.id # e.id
  /\ \A d \in ds :
       \/ d.parent = Genesis /\ d.depth = 0
       \/ \E e \in ds : e.id = d.parent /\ d.depth = e.depth + 1

DeepestOf(ds, d) == \A e \in ds : e.depth < d.depth \/ (e.depth = d.depth /\ e.at <= d.at)

HasEnds(ds) ==
  ds # {} => (\E d \in ds : d.parent = Genesis) /\ (\E d \in ds : DeepestOf(ds, d))

Sound(ds, n) ==
  /\ ds \subseteq Decision
  /\ \A d \in ds : d.id <= n
  /\ IsChain(ds)
  /\ HasEnds(ds)

(* No decision is stamped after c, or before its parent. *)
Ordered(ds, c) ==
  /\ \A d \in ds : d.at <= c
  /\ \A d, e \in ds : e.id = d.parent => e.at <= d.at

(* The end of the chain, to append to: its parent and its depth. *)
IsEnd(ds, parent, depth) ==
  \/ ds = {} /\ parent = Genesis /\ depth = 0
  \/ \E d \in ds : DeepestOf(ds, d) /\ parent = d.id /\ depth = d.depth + 1

(* One recorder at most has the write lock, and its place is the end. *)
PlacesHold ==
  \A p \in Recorder : place[p] # NoPlace =>
    /\ IsEnd(decisions, place[p].parent, place[p].depth)
    /\ \A q \in Recorder : q # p => place[q] = NoPlace

LedgerInv ==
  /\ LedgerTypeOK
  /\ Sound(decisions, recorded)
  /\ backup # NoBackup => Sound(backup.decisions, recorded)
  /\ ~wentBack => Ordered(decisions, clock)
  /\ ~wentBack /\ backup # NoBackup => Ordered(backup.decisions, clock)
  /\ \A p \in Recorder : recording[p] # NotRecording => \E d \in decisions : d.id = recording[p]
  /\ PlacesHold
  /\ AnswerIsOwnOrLater

(* The rows of an insertion that follow the decision with the hash         *)
(* `parent`, one below the depth `depth`.                                  *)
LEMMA ChainedRows ==
  ASSUME NEW parent \in Nat, NEW depth \in Nat, NEW stamps \in Stamps, recorded \in Nat
  PROVE  /\ Chained(parent, depth, stamps) \subseteq Decision
         /\ Len(stamps) \in Nat \ {0} /\ DOMAIN stamps = 1..Len(stamps)
         /\ \A i \in 1..Len(stamps) : stamps[i] \in Nat
  <1>1. PICK n \in 1..MaxBatch : stamps \in [1..n -> 0..MaxStamp]
    BY DEF Stamps
  <1>2. n \in Nat \ {0} /\ 0..MaxStamp \subseteq Nat /\ Len(stamps) = n
    BY <1>1, LedgerAssumption
  <1>3. Chained(parent, depth, stamps) \subseteq Decision
    <2> SUFFICES ASSUME NEW i \in 1..n
                 PROVE  [id |-> recorded + i, parent |-> IF i = 1 THEN parent ELSE recorded + i - 1,
                         depth |-> depth + i - 1, at |-> stamps[i]] \in Decision
      BY <1>1 DEF Chained
    <2>1. stamps[i] \in Nat
      BY <1>1, <1>2
    <2>2. recorded + i \in Nat \ {0} /\ (IF i = 1 THEN parent ELSE recorded + i - 1) \in Nat
          /\ depth + i - 1 \in Nat
      BY <1>2
    <2> QED BY <2>1, <2>2 DEF Decision
  <1> QED BY <1>1, <1>2, <1>3

(* An insertion below the deepest decision, or of the genesis into an      *)
(* empty table, keeps the ledger sound.                                    *)
LEMMA InsertKeepsSound ==
  ASSUME Sound(decisions, recorded), recorded \in Nat,
         NEW parent \in Nat, NEW depth \in Nat, NEW stamps \in Stamps,
         IsEnd(decisions, parent, depth),
         recorded' = recorded + Len(stamps),
         decisions' = decisions \cup Chained(parent, depth, stamps)
  PROVE  Sound(decisions', recorded')
  <1> DEFINE n == Len(stamps)
             Row(i) == [id |-> recorded + i, parent |-> IF i = 1 THEN parent ELSE recorded + i - 1,
                        depth |-> depth + i - 1, at |-> stamps[i]]
             new == Chained(parent, depth, stamps)
  <1>1. /\ new \subseteq Decision
        /\ n \in Nat \ {0}
        /\ \A i \in 1..n : stamps[i] \in Nat
        /\ new = {Row(i) : i \in 1..n}
    BY ChainedRows DEF Chained
  <1>2. \A i \in 1..n : /\ Row(i) \in new
                       /\ Row(i).id = recorded + i
                       /\ Row(i).parent = (IF i = 1 THEN parent ELSE recorded + i - 1)
                       /\ Row(i).depth = depth + i - 1
    BY <1>1
  <1>3. \A e \in decisions : /\ e.id \in 1..recorded
                             /\ e.parent \in 0..recorded
                             /\ e.depth \in Nat /\ e.at \in Nat
    <2> TAKE e \in decisions
    <2>1. e \in Decision /\ e.id <= recorded
      BY DEF Sound
    <2>2. e.id \in Nat \ {0} /\ e.parent \in Nat /\ e.depth \in Nat /\ e.at \in Nat
      BY <2>1 DEF Decision
    <2>3. e.parent <= recorded
      <3>1. CASE e.parent = Genesis
        BY <3>1 DEF Genesis
      <3>2. CASE \E f \in decisions : f.id = e.parent
        BY <3>2 DEF Sound
      <3> QED BY <3>1, <3>2 DEF Sound, IsChain
    <2> QED BY <2>1, <2>2, <2>3
  <1>4. \A e \in decisions : e.parent # parent /\ e.depth < depth
    <2> SUFFICES ASSUME NEW e \in decisions,
                        NEW d \in decisions, DeepestOf(decisions, d), parent = d.id, depth = d.depth + 1
                 PROVE  e.parent # parent /\ e.depth < depth
      BY DEF IsEnd
    <2>1. e.depth <= d.depth
      BY <1>3 DEF DeepestOf
    <2>2. e.parent # d.id
      <3> SUFFICES ASSUME e.parent = d.id PROVE FALSE
        OBVIOUS
      <3>1. e.parent # Genesis
        BY <1>3 DEF Genesis
      <3>2. PICK f \in decisions : f.id = e.parent /\ e.depth = f.depth + 1
        BY <3>1 DEF Sound, IsChain
      <3>3. f = d
        BY <3>2 DEF Sound, IsChain
      <3> QED BY <3>2, <3>3, <2>1, <1>3
    <2> QED BY <2>1, <2>2, <1>3
  <1>5. parent \in 0..recorded
    <2>1. CASE parent = Genesis
      BY <2>1 DEF Genesis
    <2>2. CASE \E d \in decisions : parent = d.id
      BY <2>2, <1>3
    <2> QED BY <2>1, <2>2 DEF IsEnd
  <1>6. decisions' \subseteq Decision /\ \A d \in decisions' : d.id <= recorded'
    <2>1. \A i \in 1..n : recorded + i <= recorded + n
      BY <1>1
    <2>2. \A d \in new : d.id <= recorded + n
      BY <1>1, <1>2, <2>1
    <2>3. \A d \in decisions : d.id <= recorded + n
      BY <1>1, <1>3
    <2> QED BY <1>1, <2>2, <2>3 DEF Sound
  <1>7. \A d, e \in decisions' : d # e => d.parent # e.parent /\ d.depth # e.depth /\ d.id # e.id
    <2>1. ASSUME NEW d \in decisions, NEW i \in 1..n
          PROVE  d.parent # Row(i).parent /\ d.depth # Row(i).depth /\ d.id # Row(i).id
      <3>1. d.id \in 1..recorded /\ d.parent \in 0..recorded /\ d.parent # parent
            /\ d.depth \in Nat /\ d.depth < depth
        BY <1>3, <1>4
      <3> QED BY <3>1, <1>1
    <2>2. ASSUME NEW i \in 1..n, NEW j \in 1..n, i # j
          PROVE  Row(i).parent # Row(j).parent /\ Row(i).depth # Row(j).depth /\ Row(i).id # Row(j).id
      <3>1. Row(i).depth # Row(j).depth /\ Row(i).id # Row(j).id
        BY <2>2, <1>1
      <3>2. Row(i).parent # Row(j).parent
        <4>1. CASE i = 1
          BY <4>1, <2>2, <1>1, <1>5
        <4>2. CASE j = 1
          BY <4>2, <2>2, <1>1, <1>5
        <4>3. CASE i # 1 /\ j # 1
          BY <4>3, <2>2, <1>1
        <4> QED BY <4>1, <4>2, <4>3
      <3> QED BY <3>1, <3>2
    <2>3. ASSUME NEW d \in decisions', NEW e \in decisions', d # e
          PROVE  d.parent # e.parent /\ d.depth # e.depth /\ d.id # e.id
      <3>1. CASE d \in decisions /\ e \in decisions
        BY <3>1, <2>3 DEF Sound, IsChain
      <3>2. CASE d \in decisions /\ e \in new
        BY <3>2, <2>1, <1>1
      <3>3. CASE d \in new /\ e \in decisions
        BY <3>3, <2>1, <1>1
      <3>4. CASE d \in new /\ e \in new
        <4>1. PICK i \in 1..n, j \in 1..n : d = Row(i) /\ e = Row(j)
          BY <3>4, <1>1
        <4> QED BY <4>1, <2>2, <2>3
      <3> QED BY <3>1, <3>2, <3>3, <3>4
    <2> QED BY <2>3
  <1>8. \A d \in decisions' : \/ d.parent = Genesis /\ d.depth = 0
                             \/ \E e \in decisions' : e.id = d.parent /\ d.depth = e.depth + 1
    <2> TAKE d \in decisions'
    <2>1. CASE d \in decisions
      BY <2>1 DEF Sound, IsChain
    <2>2. CASE d \in new
      <3>1. PICK i \in 1..n : d = Row(i)
        BY <2>2, <1>1
      <3>2. CASE i = 1
        <4>1. d.parent = parent /\ d.depth = depth
          BY <3>1, <3>2, <1>2
        <4> QED BY <4>1 DEF IsEnd
      <3>3. CASE i # 1
        <4>1. i - 1 \in 1..n /\ recorded + (i - 1) = recorded + i - 1 /\ depth + i - 1 = (depth + (i - 1) - 1) + 1
          BY <3>3, <1>1
        <4>2. Row(i - 1) \in decisions' /\ Row(i - 1).id = d.parent /\ d.depth = Row(i - 1).depth + 1
          BY <4>1, <3>1, <3>3, <1>2
        <4> QED BY <4>2
      <3> QED BY <3>2, <3>3
    <2> QED BY <2>1, <2>2
  <1>9. (\E d \in decisions' : d.parent = Genesis) /\ (\E d \in decisions' : DeepestOf(decisions', d))
    <2>1. \E d \in decisions' : d.parent = Genesis
      <3>1. CASE decisions = {}
        <4>1. parent = Genesis /\ 1 \in 1..n
          BY <3>1, <1>1 DEF IsEnd
        <4> QED BY <4>1, <1>2
      <3>2. CASE decisions # {}
        BY <3>2 DEF Sound, HasEnds
      <3> QED BY <3>1, <3>2
    <2>2. Row(n) \in decisions' /\ Row(n).depth = depth + n - 1
      <3>1. n \in 1..n
        BY <1>1
      <3> QED BY <3>1, <1>2
    <2>3. ASSUME NEW e \in decisions, TRUE PROVE e.depth < depth + n - 1
      BY <1>1, <1>3, <1>4
    <2>4. ASSUME NEW i \in 1..n, i # n PROVE Row(i).depth < depth + n - 1
      BY <1>1, <2>4
    <2>5. Row(n).at <= Row(n).at
      BY <1>1
    <2>6. DeepestOf(decisions', Row(n))
      BY <2>2, <2>3, <2>4, <2>5, <1>1 DEF DeepestOf
    <2> QED BY <2>1, <2>2, <2>6
  <1> QED BY <1>6, <1>7, <1>8, <1>9 DEF Sound, IsChain, HasEnds, DeepestOf

(* The query for the last decision has an answer unless the table is empty. *)
LEMMA LastExists ==
  ASSUME Sound(decisions, recorded), decisions # {}
  PROVE  LastDecision \in decisions /\ DeepestOf(decisions, LastDecision)
  <1>1. \E d \in decisions : Deepest(d)
    BY DEF Sound, HasEnds, DeepestOf, Deepest
  <1>2. LastDecision \in decisions /\ Deepest(LastDecision)
    BY <1>1 DEF LastDecision
  <1> QED BY <1>2 DEF DeepestOf, Deepest

(* While the clock does not step back, an insertion keeps the stamps in    *)
(* the order of the chain.                                                 *)
LEMMA InsertKeepsOrder ==
  ASSUME Sound(decisions, recorded), recorded \in Nat, clock \in Nat, Ordered(decisions, clock),
         NEW parent \in Nat, NEW depth \in Nat, NEW stamps \in Stamps,
         parent <= recorded,
         ~StepsBack(stamps),
         clock' = stamps[Len(stamps)],
         decisions' = decisions \cup Chained(parent, depth, stamps)
  PROVE  Ordered(decisions', clock') /\ clock <= clock'
  <1> DEFINE n == Len(stamps)
             Row(i) == [id |-> recorded + i, parent |-> IF i = 1 THEN parent ELSE recorded + i - 1,
                        depth |-> depth + i - 1, at |-> stamps[i]]
             new == Chained(parent, depth, stamps)
  <1>1. /\ n \in Nat \ {0}
        /\ \A i \in 1..n : stamps[i] \in Nat
        /\ new = {Row(i) : i \in 1..n}
    BY ChainedRows DEF Chained
  <1>2. /\ \A i \in 1..n : clock <= stamps[i]
        /\ \A i, j \in 1..n : i < j => stamps[i] <= stamps[j]
    <2>1. DOMAIN stamps = 1..n
      BY ChainedRows
    <2>2. /\ \A i \in 1..n : ~(stamps[i] < clock)
          /\ \A i, j \in 1..n : ~(i < j /\ stamps[j] < stamps[i])
      BY <2>1 DEF StepsBack
    <2>3. \A i \in 1..n : clock <= stamps[i]
      BY <2>2, <1>1
    <2>4. ASSUME NEW i \in 1..n, NEW j \in 1..n, i < j PROVE stamps[i] <= stamps[j]
      <3>1. stamps[i] \in Nat /\ stamps[j] \in Nat /\ ~(stamps[j] < stamps[i])
        BY <2>2, <2>4, <1>1
      <3> QED BY <3>1
    <2> QED BY <2>3, <2>4
  <1>3. clock <= clock' /\ \A i \in 1..n : stamps[i] <= clock'
    BY <1>1, <1>2
  <1>4. \A e \in decisions : e.id \in 1..recorded /\ e.at \in Nat /\ e.at <= clock
    BY DEF Sound, Decision, Ordered
  <1>5. \A e \in decisions' : e.at <= clock'
    <2>1. clock' \in Nat
      BY <1>1
    <2> QED BY <1>1, <1>3, <1>4, <2>1
  <1>6. \A d, e \in decisions' : e.id = d.parent => e.at <= d.at
    <2> SUFFICES ASSUME NEW d \in decisions', NEW e \in decisions', e.id = d.parent
                 PROVE  e.at <= d.at
      OBVIOUS
    <2>1. CASE d \in decisions
      <3>1. d.parent <= recorded
        <4>1. CASE d.parent = Genesis
          BY <4>1 DEF Genesis
        <4>2. CASE \E f \in decisions : f.id = d.parent
          BY <4>2, <1>4
        <4> QED BY <2>1, <4>1, <4>2 DEF Sound, IsChain
      <3>2. e \in decisions
        <4> SUFFICES ASSUME e \in new PROVE FALSE
          OBVIOUS
        <4>1. PICK i \in 1..n : e = Row(i)
          BY <1>1
        <4>2. e.id = recorded + i
          BY <4>1
        <4>3. e.id \in Nat /\ e.id > recorded
          BY <4>2, <1>1
        <4> QED BY <4>3, <3>1
      <3> QED BY <2>1, <3>2 DEF Ordered
    <2>2. CASE d \in new
      <3>1. PICK i \in 1..n : d = Row(i)
        BY <2>2, <1>1
      <3>2. d.at = stamps[i]
        BY <3>1
      <3>3. CASE e \in decisions
        BY <3>2, <3>3, <1>1, <1>2, <1>4
      <3>4. CASE e \in new
        <4>1. PICK j \in 1..n : e = Row(j)
          BY <3>4, <1>1
        <4>2. e.id = recorded + j /\ e.at = stamps[j] /\ d.parent = (IF i = 1 THEN parent ELSE recorded + i - 1)
          BY <3>1, <4>1
        <4>3. j < i
          <5>1. recorded + j = d.parent
            BY <4>2
          <5>4. i \in Nat /\ j \in Nat /\ j >= 1
            BY <1>1
          <5>2. i # 1
            <6> SUFFICES ASSUME i = 1 PROVE FALSE
              OBVIOUS
            <6>1. recorded + j = parent
              BY <5>1, <4>2
            <6>2. recorded + j > recorded
              BY <5>4
            <6> QED BY <6>1, <6>2
          <5>3. recorded + j = recorded + i - 1
            BY <5>1, <5>2, <4>2
          <5> QED BY <5>4, <5>3
        <4>4. stamps[j] <= stamps[i]
          BY <4>3, <1>2
        <4> QED BY <4>2, <4>4, <3>2
      <3> QED BY <3>3, <3>4
    <2> QED BY <2>1, <2>2
  <1> QED BY <1>3, <1>5, <1>6 DEF Ordered


LEMMA LedgerInvInit == Init => LedgerInv
  <1> SUFFICES ASSUME Init PROVE LedgerInv
    OBVIOUS
  <1>1. LedgerTypeOK
    BY DEF Init, LedgerInit, LedgerTypeOK, NotRecording, NoAnswer
  <1>2. Sound(decisions, recorded) /\ Ordered(decisions, clock)
    BY DEF Init, LedgerInit, Sound, IsChain, HasEnds, Ordered
  <1>3. AnswerIsOwnOrLater /\ PlacesHold
    BY DEF Init, LedgerInit, AnswerIsOwnOrLater, NoAnswer, PlacesHold
  <1> QED BY <1>1, <1>2, <1>3 DEF Init, LedgerInit, LedgerInv

(* The place of an append, whichever kind it is, is the end of the chain.  *)
LEMMA BeginKeepsInv ==
  ASSUME LedgerInv, NEW p \in Recorder, RecordGenesis(p) \/ RecordNext(p), UNCHANGED backup
  PROVE  LedgerInv'
  <1>1. PICK parent \in Nat, depth \in Nat : Begin(p, parent, depth) /\ IsEnd(decisions, parent, depth)
    <2>1. CASE RecordGenesis(p)
      <3>1. decisions = {}
        BY <2>1 DEF RecordGenesis, LedgerInv, Sound, HasEnds
      <3> QED BY <2>1, <3>1 DEF RecordGenesis, Genesis, IsEnd
    <2>2. CASE RecordNext(p)
      <3>1. LastDecision \in decisions /\ DeepestOf(decisions, LastDecision)
        BY <2>2, LastExists DEF RecordNext, LedgerInv
      <3>2. LastDecision.id \in Nat /\ LastDecision.depth + 1 \in Nat
        BY <3>1 DEF LedgerInv, Sound, Decision
      <3>3. IsEnd(decisions, LastDecision.id, LastDecision.depth + 1)
        BY <3>1 DEF IsEnd
      <3> QED BY <2>2, <3>2, <3>3 DEF RecordNext
    <2> QED BY <2>1, <2>2
  <1>2. /\ WriteLockIsFree /\ answer' = NoAnswer
        /\ place' = [place EXCEPT ![p] = [open |-> TRUE, parent |-> parent, depth |-> depth]]
        /\ UNCHANGED <<decisions, recorded, clock, wentBack, recording>>
    BY <1>1 DEF Begin
  <1>3. place \in [Recorder -> {NoPlace} \cup Place]
    BY DEF LedgerInv, LedgerTypeOK
  <1>4. [open |-> TRUE, parent |-> parent, depth |-> depth] \in Place
    BY DEF Place
  <1>5. place' \in [Recorder -> {NoPlace} \cup Place]
    BY <1>2, <1>3, <1>4
  <1>6. PlacesHold'
    BY <1>1, <1>2, <1>3 DEF PlacesHold, WriteLockIsFree, IsEnd, DeepestOf
  <1>7. LedgerTypeOK' /\ AnswerIsOwnOrLater'
    BY <1>2, <1>5 DEF LedgerInv, LedgerTypeOK, AnswerIsOwnOrLater, NoAnswer
  <1> QED BY <1>2, <1>6, <1>7 DEF LedgerInv

(* What an append does: it is below the deepest decision, or the genesis.  *)
LEMMA InsertKeepsInv ==
  ASSUME LedgerInv, NEW p \in Recorder, NEW stamps \in Stamps, RecordInsert(p, stamps), UNCHANGED backup
  PROVE  LedgerInv'
  <1>0. place \in [Recorder -> {NoPlace} \cup Place]
    BY DEF LedgerInv, LedgerTypeOK
  <1>1. PICK parent \in Nat, depth \in Nat :
          /\ parent = place[p].parent /\ depth = place[p].depth
          /\ IsEnd(decisions, parent, depth)
          /\ \A q \in Recorder : q # p => place[q] = NoPlace
    <2>1. place[p] \in Place /\ place[p] # NoPlace
      BY <1>0 DEF RecordInsert, NoPlace, Place
    <2>2. place[p].parent \in Nat /\ place[p].depth \in Nat
      BY <2>1 DEF Place
    <2> QED BY <2>1, <2>2 DEF LedgerInv, PlacesHold
  <1>2. /\ Sound(decisions, recorded) /\ recorded \in Nat /\ clock \in Nat /\ wentBack \in BOOLEAN
        /\ recording \in [Recorder -> Nat]
    BY DEF LedgerInv, LedgerTypeOK
  <1>3. /\ decisions' = decisions \cup Chained(parent, depth, stamps)
        /\ recorded' = recorded + Len(stamps)
        /\ clock' = stamps[Len(stamps)]
        /\ wentBack' = (wentBack \/ StepsBack(stamps))
        /\ place' = [place EXCEPT ![p] = NoPlace]
        /\ recording' = [recording EXCEPT ![p] = recorded + Len(stamps)]
        /\ answer' = NoAnswer
    BY <1>1 DEF RecordInsert, ReadClock
  <1>4. Sound(decisions', recorded')
    BY <1>1, <1>2, <1>3, InsertKeepsSound
  <1>5. /\ Len(stamps) \in Nat \ {0} /\ recorded' \in Nat /\ recorded <= recorded'
        /\ clock' \in Nat
    BY <1>1, <1>2, <1>3, ChainedRows
  <1>6. LedgerTypeOK'
    <2>1. decisions' \subseteq Decision
      BY <1>4 DEF Sound
    <2>2. recording' \in [Recorder -> Nat]
      BY <1>2, <1>3, <1>5
    <2>3. wentBack' \in BOOLEAN
      BY <1>3, Zenon, <1>2
    <2>4. place' \in [Recorder -> {NoPlace} \cup Place]
      BY <1>0, <1>3
    <2> QED BY <2>1, <2>2, <2>3, <2>4, <1>3, <1>5 DEF LedgerTypeOK
  <1>7. (backup # NoBackup => Sound(backup.decisions, recorded))'
    <2> SUFFICES ASSUME backup # NoBackup PROVE Sound(backup.decisions, recorded')
      OBVIOUS
    <2>1. Sound(backup.decisions, recorded)
      BY DEF LedgerInv
    <2>2. \A d \in backup.decisions : d.id <= recorded'
      BY <2>1, <1>2, <1>5 DEF Sound, Decision
    <2> QED BY <2>1, <2>2 DEF Sound
  <1>8. ~wentBack' => /\ Ordered(decisions', clock')
                      /\ backup # NoBackup => Ordered(backup.decisions, clock')
    <2> SUFFICES ASSUME ~wentBack'
                 PROVE  Ordered(decisions', clock') /\ (backup # NoBackup => Ordered(backup.decisions, clock'))
      OBVIOUS
    <2>1. ~wentBack /\ ~StepsBack(stamps)
      BY <1>3
    <2>2. Ordered(decisions, clock)
      BY <2>1 DEF LedgerInv
    <2>3. parent <= recorded
      BY <1>1, <1>2 DEF Sound, Genesis, IsEnd
    <2>4. Ordered(decisions', clock') /\ clock <= clock'
      BY <1>1, <1>2, <1>3, <2>1, <2>2, <2>3, InsertKeepsOrder
    <2>5. ASSUME backup # NoBackup PROVE Ordered(backup.decisions, clock')
      <3>1. Ordered(backup.decisions, clock) /\ Sound(backup.decisions, recorded)
        BY <2>1, <2>5 DEF LedgerInv
      <3>2. \A d \in backup.decisions : d.at \in Nat /\ d.at <= clock
        BY <3>1 DEF Sound, Decision, Ordered
      <3>3. \A d \in backup.decisions : d.at <= clock'
        BY <3>2, <2>4, <1>2, <1>5
      <3> QED BY <3>1, <3>3 DEF Ordered
    <2> QED BY <2>4, <2>5
  <1>9. (\A q \in Recorder : recording[q] # NotRecording => \E d \in decisions : d.id = recording[q])'
    <2> SUFFICES ASSUME NEW q \in Recorder, recording'[q] # NotRecording
                 PROVE  \E d \in decisions' : d.id = recording'[q]
      OBVIOUS
    <2>1. CASE q = p
      <3> DEFINE n == Len(stamps)
                 row == [id |-> recorded + n, parent |-> IF n = 1 THEN parent ELSE recorded + n - 1,
                         depth |-> depth + n - 1, at |-> stamps[n]]
      <3>1. n \in DOMAIN stamps
        BY <1>1, <1>2, ChainedRows
      <3>2. row \in Chained(parent, depth, stamps)
        BY <3>1 DEF Chained
      <3>3. row.id = recorded + n /\ recording'[q] = recorded + n
        BY <2>1, <1>2, <1>3
      <3> QED BY <3>2, <3>3, <1>3
    <2>2. CASE q # p
      BY <2>2, <1>2, <1>3 DEF LedgerInv
    <2> QED BY <2>1, <2>2
  <1>10. AnswerIsOwnOrLater' /\ PlacesHold'
    BY <1>0, <1>1, <1>3 DEF AnswerIsOwnOrLater, NoAnswer, PlacesHold
  <1>11. backup' = backup
    OBVIOUS
  <1>12. backup' # NoBackup => Sound(backup'.decisions, recorded')
    BY <1>7, <1>11
  <1>13. ~wentBack' => Ordered(decisions', clock')
    BY <1>8
  <1>14. ~wentBack' /\ backup' # NoBackup => Ordered(backup'.decisions, clock')
    BY <1>8, <1>11
  <1> QED BY <1>4, <1>6, <1>12, <1>13, <1>14, <1>9, <1>10 DEF LedgerInv

LEMMA AnswerKeepsInv ==
  ASSUME LedgerInv, NEW p \in Recorder, RecordAnswer(p), UNCHANGED backup
  PROVE  LedgerInv'
  <1>1. PICK h \in {LatestHash, NoHash} :
          /\ recording[p] # NotRecording
          /\ answer' = [to |-> "caller", hash |-> h, own |-> recording[p]]
          /\ recording' = [recording EXCEPT ![p] = NotRecording]
          /\ UNCHANGED <<decisions, recorded, clock, wentBack, place>>
    BY DEF RecordAnswer, HashRead
  <1>2. PICK d \in decisions : d.id = recording[p]
    BY <1>1 DEF LedgerInv
  <1>3. LastDecision \in decisions /\ DeepestOf(decisions, LastDecision) /\ LatestHash = LastDecision.id
    BY <1>2, LastExists DEF LedgerInv, LatestHash, LastDecision
  <1>4. \A e \in decisions : e.id \in Nat /\ e.depth \in Nat
    BY DEF LedgerInv, Sound, Decision
  <1>5. d.depth <= LastDecision.depth
    BY <1>2, <1>3, <1>4 DEF DeepestOf
  <1>6. AnswerIsOwnOrLater'
    BY <1>1, <1>2, <1>3, <1>5 DEF AnswerIsOwnOrLater
  <1>7. LedgerTypeOK'
    <2>1. recording' \in [Recorder -> Nat]
      BY <1>1 DEF LedgerInv, LedgerTypeOK, NotRecording
    <2>2. answer' \in [to : {"caller"}, hash : Nat \cup {NoHash}, own : Nat]
      BY <1>1, <1>2, <1>3, <1>4
    <2> QED BY <1>1, <2>1, <2>2 DEF LedgerInv, LedgerTypeOK
  <1>8. \A q \in Recorder : recording'[q] # NotRecording => \E e \in decisions' : e.id = recording'[q]
    BY <1>1 DEF LedgerInv, LedgerTypeOK
  <1>9. PlacesHold'
    BY <1>1 DEF LedgerInv, PlacesHold
  <1> QED BY <1>1, <1>6, <1>7, <1>8, <1>9 DEF LedgerInv

(* The steps that leave the table alone and answer nothing of its rows. *)
LEMMA OthersKeepInv ==
  ASSUME LedgerInv, NEW p \in Recorder,
         RecordRefused(p) \/ RecordNothing(p) \/ RecorderDies(p),
         UNCHANGED backup
  PROVE  LedgerInv'
  <1>1. UNCHANGED <<decisions, recorded, clock, wentBack>>
    BY DEF RecordRefused, RecordNothing, RecorderDies
  <1>2. \/ recording' = recording
        \/ recording' = [recording EXCEPT ![p] = NotRecording]
    BY DEF RecordRefused, RecordNothing, RecorderDies
  <1>3. LatestHash \in Nat
    <2>1. CASE decisions = {}
      BY <2>1 DEF LatestHash, Genesis
    <2>2. CASE decisions # {}
      <3>1. LastDecision \in decisions
        BY <2>2, LastExists DEF LedgerInv
      <3>2. LatestHash = LastDecision.id
        BY <2>2 DEF LatestHash, LastDecision
      <3> QED BY <3>1, <3>2 DEF LedgerInv, Sound, Decision
    <2> QED BY <2>1, <2>2
  <1>4. /\ answer' \in {NoAnswer} \cup [to : {"caller"}, hash : Nat \cup {NoHash}, own : Nat]
        /\ answer' = NoAnswer \/ answer'.own = Genesis
    <2>1. CASE RecordRefused(p)
      BY <2>1 DEF RecordRefused, Refused, Genesis
    <2>2. CASE RecordNothing(p)
      BY <2>2, <1>3 DEF RecordNothing, HashRead, Genesis
    <2>3. CASE RecorderDies(p)
      BY <2>3 DEF RecorderDies
    <2> QED BY <2>1, <2>2, <2>3
  <1>5. AnswerIsOwnOrLater'
    BY <1>4 DEF AnswerIsOwnOrLater, NoAnswer
  <1>6. /\ recording' \in [Recorder -> Nat]
        /\ \A q \in Recorder : recording'[q] # NotRecording => recording'[q] = recording[q]
    BY <1>2 DEF LedgerInv, LedgerTypeOK, NotRecording
  <1>9. place' = place \/ place' = [place EXCEPT ![p] = NoPlace]
    BY DEF RecordRefused, RecordNothing, RecorderDies
  <1>10. place \in [Recorder -> {NoPlace} \cup Place]
    BY DEF LedgerInv, LedgerTypeOK
  <1>11. /\ place' \in [Recorder -> {NoPlace} \cup Place]
         /\ \A q \in Recorder : place'[q] = NoPlace \/ place'[q] = place[q]
    BY <1>9, <1>10
  <1>12. PlacesHold'
    BY <1>1, <1>11 DEF LedgerInv, PlacesHold
  <1>7. LedgerTypeOK'
    BY <1>1, <1>4, <1>6, <1>11 DEF LedgerInv, LedgerTypeOK
  <1>8. \A q \in Recorder : recording'[q] # NotRecording => \E e \in decisions' : e.id = recording'[q]
    BY <1>1, <1>6 DEF LedgerInv
  <1> QED BY <1>1, <1>5, <1>7, <1>8, <1>12 DEF LedgerInv

LEMMA BackupKeepsInv ==
  ASSUME LedgerInv, Backup
  PROVE  LedgerInv'
  <1>1. backup'.decisions = decisions /\ UNCHANGED ledgerVars
    BY DEF Backup, Tables
  <1> QED BY <1>1 DEF LedgerInv, ledgerVars, LedgerTypeOK, PlacesHold, AnswerIsOwnOrLater

LEMMA RestoreKeepsInv ==
  ASSUME LedgerInv, Restore
  PROVE  LedgerInv'
  <1>1. /\ backup # NoBackup
        /\ decisions' = backup.decisions
        /\ answer' = NoAnswer
        /\ \A q \in Recorder : recording[q] = NotRecording /\ place[q] = NoPlace
        /\ backup' = NoBackup \/ backup' = backup
        /\ UNCHANGED <<recorded, clock, wentBack, place, recording>>
    BY DEF Restore
  <1>2. Sound(decisions', recorded')
    BY <1>1 DEF LedgerInv
  <1>3. LedgerTypeOK'
    BY <1>1, <1>2 DEF LedgerInv, LedgerTypeOK, Sound
  <1>4. AnswerIsOwnOrLater' /\ PlacesHold'
    BY <1>1 DEF AnswerIsOwnOrLater, NoAnswer, PlacesHold
  <1> QED BY <1>1, <1>2, <1>3, <1>4 DEF LedgerInv

LEMMA LedgerInvStep == LedgerInv /\ [Next]_vars => LedgerInv'
  <1> SUFFICES ASSUME LedgerInv, [Next]_vars PROVE LedgerInv'
    OBVIOUS
  <1>1. CASE UNCHANGED vars
    BY <1>1 DEF vars, ledgerVars, LedgerInv, LedgerTypeOK, PlacesHold, AnswerIsOwnOrLater
  <1>2. CASE LedgerStep
    <2>1. UNCHANGED backup
      BY <1>2 DEF LedgerStep
    <2>2. PICK p \in Recorder :
            \/ RecordGenesis(p) \/ RecordNext(p)
            \/ \E stamps \in Stamps : RecordInsert(p, stamps)
            \/ RecordRefused(p) \/ RecordAnswer(p) \/ RecordNothing(p) \/ RecorderDies(p)
      BY <1>2 DEF LedgerStep, LedgerNext
    <2> QED BY <2>1, <2>2, BeginKeepsInv, InsertKeepsInv, AnswerKeepsInv, OthersKeepInv
  <1>3. CASE CheckpointsStep
    BY <1>3 DEF CheckpointsStep, ledgerVars, LedgerInv, LedgerTypeOK, PlacesHold, AnswerIsOwnOrLater
  <1>4. CASE Backup
    BY <1>4, BackupKeepsInv
  <1>5. CASE Restore
    BY <1>5, RestoreKeepsInv
  <1> QED BY <1>1, <1>2, <1>3, <1>4, <1>5 DEF Next

LEMMA LedgerInvHolds == Spec => []LedgerInv
  BY LedgerInvInit, LedgerInvStep, PTL DEF Spec

(* However many recorders append at once, in batches of any size, however  *)
(* the clock moves and whatever backup is restored, the decisions are one  *)
(* chain: BEGIN IMMEDIATE before the last decision is read suffices.       *)
THEOREM LedgerIsAlwaysAChain == Spec => []LedgerIsAChain
  <1>1. LedgerInv => LedgerIsAChain
    BY DEF LedgerInv, Sound, IsChain, LedgerIsAChain
  <1> QED BY <1>1, LedgerInvHolds, PTL

(* Unless the clock steps back validate_ledger accepts every ledger that   *)
(* the recorders build.                                                    *)
THEOREM OnlyTheClockCanInvalidate == Spec => []OnlyTheClockInvalidates
  <1>1. ASSUME LedgerInv, ~wentBack PROVE LedgerIsValid
    <2>1. /\ Sound(decisions, recorded) /\ Ordered(decisions, clock)
          /\ \A d \in decisions : d \in Decision
      BY <1>1 DEF LedgerInv, LedgerTypeOK
    <2>2. ASSUME NEW d \in decisions PROVE ~Invalid(d)
      <3>1. CASE d.parent = Genesis
        <4>1. ASSUME NEW e \in decisions, e.id = d.parent PROVE FALSE
          BY <3>1, <4>1, <2>1 DEF Decision, Genesis
        <4> QED BY <3>1, <4>1, <2>1 DEF Sound, IsChain, Invalid
      <3>2. CASE d.parent # Genesis
        <4>1. PICK e \in decisions : e.id = d.parent /\ d.depth = e.depth + 1
          BY <3>2, <2>1 DEF Sound, IsChain
        <4>2. Parents(d) = {e}
          BY <4>1, <2>1 DEF Sound, IsChain, Parents
        <4>3. d.at \in Nat /\ e.at \in Nat /\ e.at <= d.at
          BY <4>1, <2>1 DEF Ordered, Decision
        <4> QED BY <3>2, <4>1, <4>2, <4>3 DEF Invalid
      <3> QED BY <3>1, <3>2
    <2>3. ASSUME decisions # {} PROVE Cardinality(Geneses) = 1
      <3>1. PICK g \in decisions : g.parent = Genesis
        BY <2>1, <2>3 DEF Sound, HasEnds
      <3>2. Geneses = {g}
        BY <3>1, <2>1 DEF Geneses, Sound, IsChain
      <3> QED BY <3>2, FS_Singleton
    <2> QED BY <2>2, <2>3 DEF LedgerIsValid
  <1>2. LedgerInv => OnlyTheClockInvalidates
    BY <1>1 DEF OnlyTheClockInvalidates
  <1> QED BY <1>2, LedgerInvHolds, PTL

(* A caller that record answers with success has its decision in the       *)
(* ledger, and the hash it is told is of that decision or of one below it, *)
(* whoever appends between its commit and its query; or it is empty,       *)
(* because the query failed.                                               *)
THEOREM AnswerIsAlwaysOwnOrLater == Spec => []AnswerIsOwnOrLater
  <1>1. LedgerInv => AnswerIsOwnOrLater
    BY DEF LedgerInv
  <1> QED BY <1>1, LedgerInvHolds, PTL
=============================================================================
