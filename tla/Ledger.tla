------------------------------- MODULE Ledger -------------------------------
(***************************************************************************)
(* The decision ledger (src/src/lib.rs): a chain of decisions that several *)
(* processes append to, and its validation.  An append reads the last      *)
(* decision and inserts below it in one IMMEDIATE transaction; the hash    *)
(* that the caller is told is read again after it.                         *)
(*                                                                         *)
(* The wall clock may step back between any two readings.                  *)
(***************************************************************************)
EXTENDS Naturals, Sequences, FiniteSets

CONSTANTS
  Recorder,      \* processes that record decisions
  MaxDecisions,  \* bound on the decisions that are ever recorded
  MaxBatch,      \* bound on the decisions of one call
  MaxStamp,      \* bound on the clock
  NoHash         \* the empty string, told instead of a hash that cannot be read

ASSUME LedgerAssumption ==
  /\ MaxDecisions \in Nat /\ MaxBatch \in Nat \ {0} /\ MaxStamp \in Nat
  /\ NoHash \notin Nat

VARIABLES
  decisions,   \* the table
  recorded,    \* how many decisions were ever recorded: the hash of each is new
  clock,       \* the last reading of the wall clock
  wentBack,    \* has a reading ever been before an earlier one?
  place,       \* where a process that has the write lock is about to append
  recording,   \* the last decision of the append that a process has still to answer
  answer       \* the answer of the call that returned in the last step

ledgerVars == <<decisions, recorded, clock, wentBack, place, recording, answer>>

Genesis == 0  \* the parent_id "genesis" and, as an answer, "GENESIS"
NotRecording == 0

Decision == [id : Nat \ {0}, parent : Nat, depth : Nat, at : Nat]

NoPlace == [open |-> FALSE]
Place == [open : {TRUE}, parent : Nat, depth : Nat]

NoAnswer == [to |-> "nobody"]
Refused == [to |-> "caller", hash |-> Genesis, own |-> Genesis]

LedgerInit ==
  /\ decisions = {}
  /\ recorded = 0
  /\ clock = 0
  /\ wentBack = FALSE
  /\ place = [p \in Recorder |-> NoPlace]
  /\ recording = [p \in Recorder |-> NotRecording]
  /\ answer = NoAnswer

Deepest(d) == \A e \in decisions : e.depth < d.depth \/ (e.depth = d.depth /\ e.at <= d.at)

(* Mutant of LastDecision: the newest by its time stamp. *)
NewestDecision == CHOOSE d \in decisions : \A e \in decisions : e.at <= d.at

(* get_last_decision: ORDER BY causal_depth DESC, timestamp DESC *)
LastDecision == CHOOSE d \in decisions : Deepest(d)

(* Mutant of LatestHash: the newest by its time stamp. *)
NewestHash ==
  IF decisions = {} THEN Genesis
  ELSE (CHOOSE d \in decisions : \A e \in decisions : e.at <= d.at).id

(* get_latest_hash has a statement of its own. *)
LatestHash == IF decisions = {} THEN Genesis ELSE (CHOOSE d \in decisions : Deepest(d)).id

(* What a caller is told: get_latest_hash().unwrap_or_default().  The read *)
(* may fail, after a commit too.                                           *)
HashRead == {LatestHash, NoHash}

(* Mutant of Chained: the depth is not incremented from one decision of a  *)
(* batch to the next.                                                      *)
ChainedFlat(parent, depth, stamps) ==
  {[id |-> recorded + i, parent |-> IF i = 1 THEN parent ELSE recorded + i - 1,
    depth |-> depth, at |-> stamps[i]] : i \in DOMAIN stamps}

(* The rows of a batch: each decision is the parent of the next. *)
Chained(parent, depth, stamps) ==
  {[id |-> recorded + i, parent |-> IF i = 1 THEN parent ELSE recorded + i - 1,
    depth |-> depth + i - 1, at |-> stamps[i]] : i \in DOMAIN stamps}

Stamps == UNION {[1..n -> 0..MaxStamp] : n \in 1..MaxBatch}

StepsBack(stamps) ==
  \/ \E i \in DOMAIN stamps : stamps[i] < clock
  \/ \E i, j \in DOMAIN stamps : i < j /\ stamps[j] < stamps[i]

(* The readings of the clock while a transaction holds the lock. *)
ReadClock(stamps) ==
  /\ clock' = stamps[Len(stamps)]
  /\ wentBack' = (wentBack \/ StepsBack(stamps))

-----------------------------------------------------------------------------
(* insert_decision and insert_decision_batch: BEGIN IMMEDIATE waits for    *)
(* the transaction of another recorder, or fails (RecordRefused).          *)

(* Mutant of WriteLockIsFree: nobody waits. *)
WriteLockIsIgnored == TRUE

WriteLockIsFree == \A q \in Recorder : place[q] = NoPlace

Begin(p, parent, depth) ==
  /\ recording[p] = NotRecording
  /\ place[p] = NoPlace
  /\ WriteLockIsFree
  /\ place' = [place EXCEPT ![p] = [open |-> TRUE, parent |-> parent, depth |-> depth]]
  /\ answer' = NoAnswer
  /\ UNCHANGED <<decisions, recorded, clock, wentBack, recording>>

RecordGenesis(p) ==
  /\ \A d \in decisions : d.parent # Genesis
  /\ Begin(p, Genesis, 0)

RecordNext(p) ==
  /\ decisions # {}
  /\ Begin(p, LastDecision.id, LastDecision.depth + 1)

RecordInsert(p, stamps) ==
  /\ place[p] # NoPlace
  /\ recorded + Len(stamps) <= MaxDecisions
  /\ decisions' = decisions \cup Chained(place[p].parent, place[p].depth, stamps)
  /\ recorded' = recorded + Len(stamps)
  /\ ReadClock(stamps)
  /\ place' = [place EXCEPT ![p] = NoPlace]
  /\ recording' = [recording EXCEPT ![p] = recorded + Len(stamps)]
  /\ answer' = NoAnswer

(* Refused: no lock, a second genesis, a first decision that is not one,   *)
(* or an element of a batch that is not JSON, after which the transaction  *)
(* is rolled back.                                                         *)
RecordRefused(p) ==
  /\ recording[p] = NotRecording
  /\ place' = [place EXCEPT ![p] = NoPlace]
  /\ answer' = Refused
  /\ UNCHANGED <<decisions, recorded, clock, wentBack, recording>>

(* record and record_batch answer "success" with the hash they read now. *)
RecordAnswer(p) ==
  /\ recording[p] # NotRecording
  /\ \E h \in HashRead : answer' = [to |-> "caller", hash |-> h, own |-> recording[p]]
  /\ recording' = [recording EXCEPT ![p] = NotRecording]
  /\ UNCHANGED <<decisions, recorded, clock, wentBack, place>>

(* An empty batch appends nothing. *)
RecordNothing(p) ==
  /\ recording[p] = NotRecording
  /\ place[p] = NoPlace
  /\ \E h \in HashRead : answer' = [to |-> "caller", hash |-> h, own |-> Genesis]
  /\ UNCHANGED <<decisions, recorded, clock, wentBack, place, recording>>

RecorderDies(p) ==
  /\ recording[p] # NotRecording \/ place[p] # NoPlace
  /\ place' = [place EXCEPT ![p] = NoPlace]
  /\ recording' = [recording EXCEPT ![p] = NotRecording]
  /\ answer' = NoAnswer
  /\ UNCHANGED <<decisions, recorded, clock, wentBack>>

LedgerNext ==
  \E p \in Recorder :
    \/ RecordGenesis(p) \/ RecordNext(p)
    \/ \E stamps \in Stamps : RecordInsert(p, stamps)
    \/ RecordRefused(p) \/ RecordAnswer(p) \/ RecordNothing(p) \/ RecorderDies(p)

-----------------------------------------------------------------------------
(* validate_ledger, for rows whose hashes and signatures are right *)

Parents(d) == {e \in decisions : e.id = d.parent}

Invalid(d) ==
  IF d.parent = Genesis THEN d.depth # 0
  ELSE \/ Parents(d) = {}
       \/ \E e \in Parents(d) : d.depth # e.depth + 1 \/ d.at < e.at

Geneses == {d \in decisions : d.parent = Genesis}

LedgerIsValid ==
  /\ decisions # {} => Cardinality(Geneses) = 1
  /\ \A d \in decisions : ~Invalid(d)

-----------------------------------------------------------------------------
(* Properties *)

LedgerTypeOK ==
  /\ decisions \subseteq Decision
  /\ recorded \in Nat
  /\ clock \in Nat
  /\ wentBack \in BOOLEAN
  /\ place \in [Recorder -> {NoPlace} \cup Place]
  /\ recording \in [Recorder -> Nat]
  /\ answer \in {NoAnswer} \cup [to : {"caller"}, hash : Nat \cup {NoHash}, own : Nat]

(* The decisions are one chain from one genesis: no two share a parent or  *)
(* a depth, and each but the first has its parent one step up.  Recorders  *)
(* that append at once neither fork it nor leave a hole, however the clock *)
(* moves (validate_ledger itself does not look for forks).                 *)
LedgerIsAChain ==
  /\ \A d, e \in decisions : d # e => d.parent # e.parent /\ d.depth # e.depth /\ d.id # e.id
  /\ \A d \in decisions :
       \/ d.parent = Genesis /\ d.depth = 0
       \/ \E e \in decisions : e.id = d.parent /\ d.depth = e.depth + 1

(* A ledger that was only ever appended to is valid, unless the clock has  *)
(* stepped back: concurrent recorders do not produce the temporal anomaly  *)
(* that validate_ledger reports, since each stamps within its transaction. *)
OnlyTheClockInvalidates == ~wentBack => LedgerIsValid

(* A recorder that is told of success has its own decision in the ledger,  *)
(* and the hash it is told, unless that could not be read, is of this one  *)
(* or of one that another recorder has appended below it; never of an      *)
(* earlier one.                                                            *)
AnswerIsOwnOrLater ==
  answer.to = "caller" /\ answer.own # Genesis =>
    \E d \in decisions :
      /\ d.id = answer.own
      /\ answer.hash = NoHash \/ \E e \in decisions : e.id = answer.hash /\ d.depth <= e.depth
=============================================================================
