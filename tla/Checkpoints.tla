---------------------------- MODULE Checkpoints ----------------------------
(***************************************************************************)
(* Event streams and their checkpoints (src/src/events.rs): the append of  *)
(* an event, the creation of a signed checkpoint in three statements, the  *)
(* export of a stretch of a stream and the verification of an exported     *)
(* file against a checkpoint.                                              *)
(*                                                                         *)
(* A hash is the value that is hashed: the digest of an event is its body, *)
(* which holds the digest of the event before.                             *)
(***************************************************************************)
EXTENDS Naturals, Sequences, FiniteSets

CONSTANTS
  Stream,       \* tenants
  Auditor,      \* processes that create checkpoints
  MaxEvents,    \* bound on the events that are ever recorded
  MaxNumber     \* bound on checkpoint_sequence

ASSUME CheckpointsAssumption == MaxEvents \in Nat /\ MaxNumber \in Nat

VARIABLES
  events,       \* event_stream: the rows of each tenant, by sequence_number
  told,         \* how many events were ever recorded: each has an event_id of its own
  checkpoints,  \* checkpoints: the rows of each tenant, by checkpoint_sequence
  published,    \* every checkpoint document that a call has returned
  auditing      \* the create_checkpoint that a process is inside of

checkpointVars == <<events, told, checkpoints, published, auditing>>

GenesisHash == <<>>  \* GENESIS_PREV_HASH
NotAuditing == [step |-> "idle"]

Body(e) == [tenant |-> e.tenant, seq |-> e.seq, id |-> e.id, prev |-> e.prev]

Digests(file) == [i \in DOMAIN file |-> file[i].digest]

CheckpointsInit ==
  /\ events = [t \in Stream |-> <<>>]
  /\ told = 0
  /\ checkpoints = [t \in Stream |-> <<>>]
  /\ published = {}
  /\ auditing = [p \in Auditor |-> NotAuditing]

-----------------------------------------------------------------------------
(* record_event, in the transaction of the call that the event tells of *)

(* Mutant of Latest: ORDER BY sequence_number without DESC. *)
Earliest(t) == events[t][1]

Latest(t) == events[t][Len(events[t])]

RecordEvent(t) ==
  LET body == [tenant |-> t, seq |-> IF events[t] = <<>> THEN 1 ELSE Latest(t).seq + 1,
               id |-> told + 1,
               prev |-> IF events[t] = <<>> THEN GenesisHash ELSE <<Latest(t).digest>>]
  IN
  /\ told < MaxEvents
  /\ told' = told + 1
  /\ events' = [events EXCEPT ![t] =
                  Append(@, [tenant |-> t, seq |-> body.seq, id |-> body.id, prev |-> body.prev,
                             digest |-> body])]
  /\ UNCHANGED <<checkpoints, published, auditing>>

-----------------------------------------------------------------------------
(* create_checkpoint, outside of any transaction *)

NextNumber(t) ==
  IF checkpoints[t] = <<>> THEN 1 ELSE checkpoints[t][Len(checkpoints[t])].number + 1

(* The last number is read ... *)
CreateNumber(p, t) ==
  /\ auditing[p] = NotAuditing
  /\ NextNumber(t) <= MaxNumber
  /\ auditing' = [auditing EXCEPT ![p] = [step |-> "numbered", tenant |-> t,
                                          number |-> NextNumber(t), covers |-> <<>>]]
  /\ UNCHANGED <<events, told, checkpoints, published>>

(* ... then the events; without any the call fails ... *)
CreateScan(p) ==
  LET c == auditing[p] IN
  /\ c.step = "numbered"
  /\ auditing' = [auditing EXCEPT ![p] =
                    IF events[c.tenant] = <<>> THEN NotAuditing
                    ELSE [step |-> "scanned", tenant |-> c.tenant, number |-> c.number,
                          covers |-> events[c.tenant]]]
  /\ UNCHANGED <<events, told, checkpoints, published>>

(* The signed document.  `covers` is not part of it: it remembers which    *)
(* events the hash was taken of.                                           *)
Document(t, number, file) ==
  [tenant |-> t, number |-> number, first |-> file[1].seq, last |-> file[Len(file)].seq,
   root |-> Digests(file), covers |-> file]

Taken(t, number) == \E i \in DOMAIN checkpoints[t] : checkpoints[t][i].number = number

(* Mutant of CreateInsert: the number is determined by the INSERT. *)
CreateInsertNext(p) ==
  LET c == auditing[p]
      d == Document(c.tenant, NextNumber(c.tenant), c.covers)
  IN
  /\ c.step = "scanned"
  /\ checkpoints' = [checkpoints EXCEPT ![c.tenant] = Append(@, d)]
  /\ published' = published \cup {d}
  /\ auditing' = [auditing EXCEPT ![p] = NotAuditing]
  /\ UNCHANGED <<events, told>>

(* ... and the insert, where the number is unique. *)
CreateInsert(p) ==
  LET c == auditing[p]
      d == Document(c.tenant, c.number, c.covers)
  IN
  /\ c.step = "scanned"
  /\ ~Taken(c.tenant, c.number)
  /\ checkpoints' = [checkpoints EXCEPT ![c.tenant] = Append(@, d)]
  /\ published' = published \cup {d}
  /\ auditing' = [auditing EXCEPT ![p] = NotAuditing]
  /\ UNCHANGED <<events, told>>

CreateFails(p) ==
  /\ auditing[p].step = "scanned"
  /\ Taken(auditing[p].tenant, auditing[p].number)
  /\ auditing' = [auditing EXCEPT ![p] = NotAuditing]
  /\ UNCHANGED <<events, told, checkpoints, published>>

AuditorDies(p) ==
  /\ auditing[p] # NotAuditing
  /\ auditing' = [auditing EXCEPT ![p] = NotAuditing]
  /\ UNCHANGED <<events, told, checkpoints, published>>

CheckpointsNext ==
  \/ \E t \in Stream : RecordEvent(t)
  \/ \E p \in Auditor :
       \/ \E t \in Stream : CreateNumber(p, t)
       \/ CreateScan(p) \/ CreateInsert(p) \/ CreateFails(p) \/ AuditorDies(p)

-----------------------------------------------------------------------------
(* export_event_stream and verify_checkpoint_stream *)

(* The rows are selected in the order of sequence_number, as they are kept. *)
Export(t, from, limit) ==
  LET rows == events[t]
      skipped == Cardinality({i \in DOMAIN rows : rows[i].seq < from})
  IN SubSeq(rows, skipped + 1, IF Len(rows) - skipped < limit THEN Len(rows) ELSE skipped + limit)

(* What the verifier finds wrong with event i of a file.  The digest of    *)
(* the event before is expected; of a stream that does not begin with      *)
(* sequence number 1 the first event is taken at its word.                 *)
Fault(c, file, i) ==
  LET e == file[i]
      before == IF i > 1 THEN <<file[i - 1].digest>> ELSE IF c.first = 1 THEN GenesisHash ELSE e.prev
  IN
  IF e.tenant # c.tenant THEN "ERR_TENANT_MISMATCH"
  ELSE IF e.seq # c.first + i - 1 THEN "ERR_SEQUENCE_GAP"
  ELSE IF e.prev # before THEN "ERR_CHAIN_LINKAGE_BROKEN"
  ELSE IF Body(e) # e.digest THEN "ERR_EVENT_TAMPERED"
  ELSE "none"

(* Mutant of Verdict: the last sequence number need not be reached. *)
VerdictOfPart(c, file) ==
  LET faulty == {i \in DOMAIN file : Fault(c, file, i) # "none"} IN
  IF file = <<>> THEN "ERR_EMPTY_STREAM"
  ELSE IF faulty # {} THEN Fault(c, file, CHOOSE i \in faulty : \A j \in faulty : i <= j)
  ELSE IF Digests(file) # SubSeq(c.root, 1, Len(file)) THEN "ERR_STREAM_HASH_MISMATCH"
  ELSE "CHECKPOINT_VALID"

(* The verdict on a document that the trusted key has signed. *)
Verdict(c, file) ==
  LET faulty == {i \in DOMAIN file : Fault(c, file, i) # "none"} IN
  IF file = <<>> THEN "ERR_EMPTY_STREAM"
  ELSE IF faulty # {} THEN Fault(c, file, CHOOSE i \in faulty : \A j \in faulty : i <= j)
  ELSE IF c.first + Len(file) - 1 # c.last THEN "ERR_ROLLBACK_DETECTED"
  ELSE IF Digests(file) # c.root THEN "ERR_STREAM_HASH_MISMATCH"
  ELSE "CHECKPOINT_VALID"

-----------------------------------------------------------------------------
(* Properties *)

IsFile(t, file) ==
  \A i \in DOMAIN file :
    /\ file[i].tenant = t /\ file[i].seq = i /\ file[i].id \in 1..told
    /\ file[i].digest = Body(file[i])
    /\ file[i].prev = IF i = 1 THEN GenesisHash ELSE <<file[i - 1].digest>>

(* Each stream, and each stretch of one that an auditor or a checkpoint    *)
(* covers, is an unbroken hash chain that begins with number 1.            *)
CheckpointsTypeOK ==
  /\ told \in 0..MaxEvents
  /\ \A t \in Stream : IsFile(t, events[t])
  /\ \A t \in Stream : \A i \in DOMAIN checkpoints[t] :
       checkpoints[t][i] \in published /\ checkpoints[t][i].number = i
  /\ \A c \in published : c = Document(c.tenant, c.number, c.covers) /\ IsFile(c.tenant, c.covers)
  /\ \A p \in Auditor : auditing[p] = NotAuditing \/ IsFile(auditing[p].tenant, auditing[p].covers)

IsPrefixOf(a, b) == Len(a) <= Len(b) /\ a = SubSeq(b, 1, Len(a))

(* Of two checkpoints of a tenant the one with the greater number covers   *)
(* all that the other covers, and both cover a beginning of the stream,    *)
(* although number and events are read by two statements between which     *)
(* others append events and insert checkpoints.                            *)
CheckpointsGrow ==
  \A t \in Stream : \A i \in DOMAIN checkpoints[t] :
    /\ IsPrefixOf(checkpoints[t][i].covers, events[t])
    /\ \A j \in DOMAIN checkpoints[t] :
         checkpoints[t][i].number < checkpoints[t][j].number =>
           IsPrefixOf(checkpoints[t][i].covers, checkpoints[t][j].covers)

(* Files: what the streams export, and these with one event left out, one  *)
(* exchanged with its neighbour, one given another id or tenant, or one    *)
(* rewritten with a digest to match.                                       *)
Exports == {Export(t, from, limit) : t \in Stream, from \in 1..2, limit \in 0..MaxEvents}

Restated(e, id, t) == [tenant |-> t, seq |-> e.seq, id |-> id, prev |-> e.prev, digest |-> e.digest]

Rewritten(e, id) ==
  [tenant |-> e.tenant, seq |-> e.seq, id |-> id, prev |-> e.prev, digest |-> Body(Restated(e, id, e.tenant))]

WithoutOne(file) == {SubSeq(file, 1, i - 1) \o SubSeq(file, i + 1, Len(file)) : i \in 1..Len(file)}

WithOther(file) ==
  {[file EXCEPT ![i] = file[i + 1]] : i \in 1..(Len(file) - 1)}
    \cup {[file EXCEPT ![i] = Restated(file[i], 0, file[i].tenant)] : i \in 1..Len(file)}
    \cup {[file EXCEPT ![i] = Restated(file[i], file[i].id, t)] : i \in 1..Len(file), t \in Stream}
    \cup {[file EXCEPT ![i] = Rewritten(file[i], 0)] : i \in 1..Len(file)}

Altered(file) == WithoutOne(file) \cup WithOther(file)

(* A checkpoint that was ever published verifies exactly one file, the     *)
(* events that it covers: neither a file that was altered in any of these  *)
(* ways, nor one that ends early (a limited export), nor one that goes on, *)
(* nor the stream of a database that was restored from before it.          *)
VerdictIsExact ==
  \A c \in published :
    /\ Verdict(c, c.covers) = "CHECKPOINT_VALID"
    /\ \A file \in Exports \cup (UNION {Altered(f) : f \in Exports}) \cup Altered(c.covers) :
         Verdict(c, file) = "CHECKPOINT_VALID" => file = c.covers
=============================================================================
