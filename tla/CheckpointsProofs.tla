------------------------- MODULE CheckpointsProofs -------------------------
(***************************************************************************)
(* Event streams and checkpoints for any number of tenants, auditors,      *)
(* events, checkpoints and restores, and the verification of any file.     *)
(*                                                                         *)
(* The invariant is that of the tables, which a backup has too, with what  *)
(* an auditor has read by now: its number is at most one more than the     *)
(* table's last, and the checkpoints below it cover no more than it has    *)
(* scanned.  The rows have no type that could be written down once and for *)
(* all, because a digest holds the digest before; S stands for the set of  *)
(* rows seen so far.                                                       *)
(***************************************************************************)
EXTENDS LedgerProofs, SequenceTheorems

(* A row of event_stream, or a line of an exported file. *)
IsRow(e) == e = [tenant |-> e.tenant, seq |-> e.seq, id |-> e.id, prev |-> e.prev, digest |-> e.digest]

-----------------------------------------------------------------------------
(* Prefixes *)

LEMMA PrefixElements ==
  ASSUME NEW S, NEW a \in Seq(S), NEW b \in Seq(S)
  PROVE  IsPrefixOf(a, b) <=> Len(a) <= Len(b) /\ \A i \in 1..Len(a) : a[i] = b[i]
  <1>1. Len(a) \in Nat /\ Len(b) \in Nat
    BY LenProperties
  <1>2. ASSUME Len(a) <= Len(b)
        PROVE  /\ SubSeq(b, 1, Len(a)) \in Seq(S) /\ Len(SubSeq(b, 1, Len(a))) = Len(a)
               /\ \A i \in 1..Len(a) : SubSeq(b, 1, Len(a))[i] = b[i]
    <2>1. \A i \in 1..Len(a) : b[i] \in S
      BY <1>1, <1>2, ElementOfSeq
    <2>2. /\ SubSeq(b, 1, Len(a)) \in Seq(S)
          /\ Len(SubSeq(b, 1, Len(a))) = IF 1 <= Len(a) THEN Len(a) - 1 + 1 ELSE 0
          /\ \A i \in 1..(Len(a) - 1 + 1) : SubSeq(b, 1, Len(a))[i] = b[1 + i - 1]
      BY <1>1, <2>1, SubSeqProperties
    <2> QED BY <1>1, <2>2
  <1>3. ASSUME IsPrefixOf(a, b) PROVE Len(a) <= Len(b) /\ \A i \in 1..Len(a) : a[i] = b[i]
    BY <1>2, <1>3 DEF IsPrefixOf
  <1>4. ASSUME Len(a) <= Len(b), \A i \in 1..Len(a) : a[i] = b[i] PROVE IsPrefixOf(a, b)
    <2>1. a = SubSeq(b, 1, Len(a))
      BY <1>2, <1>4, SeqEqual
    <2> QED BY <1>4, <2>1 DEF IsPrefixOf
  <1> QED BY <1>3, <1>4

LEMMA PrefixReflexive ==
  ASSUME NEW S, NEW a \in Seq(S)
  PROVE  IsPrefixOf(a, a)
  BY PrefixElements, LenProperties

LEMMA PrefixAppend ==
  ASSUME NEW S, NEW a \in Seq(S), NEW b \in Seq(S), NEW e \in S, IsPrefixOf(a, b)
  PROVE  IsPrefixOf(a, Append(b, e))
  <1>1. /\ Append(b, e) \in Seq(S) /\ Len(Append(b, e)) = Len(b) + 1
        /\ \A i \in 1..Len(b) : Append(b, e)[i] = b[i]
    BY AppendProperties
  <1>2. Len(a) \in Nat /\ Len(b) \in Nat
    BY LenProperties
  <1>3. Len(a) <= Len(b) /\ \A i \in 1..Len(a) : a[i] = b[i]
    BY PrefixElements
  <1>4. Len(a) <= Len(Append(b, e)) /\ \A i \in 1..Len(a) : a[i] = Append(b, e)[i]
    BY <1>1, <1>2, <1>3
  <1> QED BY <1>1, <1>4, PrefixElements

-----------------------------------------------------------------------------
(* The verification of a file *)

LEMMA SameInterval ==
  ASSUME NEW m \in Nat, NEW n \in Nat, 1..m = 1..n
  PROVE  m = n
  <1>1. CASE m < n
    <2>1. n \in 1..n /\ n \notin 1..m
      BY <1>1
    <2> QED BY <2>1
  <1>2. CASE n < m
    <2>1. m \in 1..m /\ m \notin 1..n
      BY <1>2
    <2> QED BY <2>1
  <1> QED BY <1>1, <1>2

(* Files whose rows have the same digests are the same, when each digest   *)
(* is that of its row.                                                     *)
LEMMA DigestsIdentify ==
  ASSUME NEW S, \A e \in S : IsRow(e), NEW f \in Seq(S), NEW g \in Seq(S),
         \A i \in 1..Len(f) : f[i].digest = Body(f[i]),
         \A i \in 1..Len(g) : g[i].digest = Body(g[i]),
         Digests(f) = Digests(g)
  PROVE  f = g
  <1>1. /\ Len(f) \in Nat /\ DOMAIN f = 1..Len(f)
        /\ Len(g) \in Nat /\ DOMAIN g = 1..Len(g)
    BY LenProperties
  <1>2. /\ DOMAIN Digests(f) = 1..Len(f) /\ DOMAIN Digests(g) = 1..Len(g)
        /\ \A i \in 1..Len(f) : Digests(f)[i] = f[i].digest
        /\ \A i \in 1..Len(g) : Digests(g)[i] = g[i].digest
    BY <1>1 DEF Digests
  <1>3. Len(f) = Len(g)
    <2>1. 1..Len(f) = 1..Len(g)
      BY <1>2
    <2> QED BY <1>1, <2>1, SameInterval
  <1>4. ASSUME NEW i \in 1..Len(f) PROVE f[i] = g[i]
    <2>1. f[i] \in S /\ g[i] \in S
      BY <1>3, ElementOfSeq
    <2>2. Body(f[i]) = Body(g[i]) /\ f[i].digest = g[i].digest
      BY <1>2, <1>3
    <2>3. f[i].tenant = g[i].tenant /\ f[i].seq = g[i].seq /\ f[i].id = g[i].id /\ f[i].prev = g[i].prev
      BY <2>2 DEF Body
    <2>4. /\ f[i] = [tenant |-> f[i].tenant, seq |-> f[i].seq, id |-> f[i].id,
                     prev |-> f[i].prev, digest |-> f[i].digest]
          /\ g[i] = [tenant |-> g[i].tenant, seq |-> g[i].seq, id |-> g[i].id,
                     prev |-> g[i].prev, digest |-> g[i].digest]
      BY <2>1, Zenon DEF IsRow
    <2> QED BY <2>2, <2>3, <2>4, Zenon
  <1> QED BY <1>3, <1>4, SeqEqual

(* verify_checkpoint_stream accepts no file but the one that the document  *)
(* covers ...                                                              *)
LEMMA NoOtherFileVerifies ==
  ASSUME NEW S, \A e \in S : IsRow(e), NEW t, NEW number, NEW covers \in Seq(S),
         \A i \in 1..Len(covers) : covers[i].digest = Body(covers[i]),
         NEW file \in Seq(S),
         Verdict(Document(t, number, covers), file) = "CHECKPOINT_VALID"
  PROVE  file = covers
  <1> DEFINE c == Document(t, number, covers)
             faulty == {i \in DOMAIN file : Fault(c, file, i) # "none"}
  <1>1. c.root = Digests(covers)
    BY DEF Document
  <1> HIDE DEF c
  <1>2. \A i \in DOMAIN file : Fault(c, file, i) # "CHECKPOINT_VALID"
    BY DEF Fault
  <1>3. faulty = {}
    <2> SUFFICES ASSUME faulty # {} PROVE FALSE
      OBVIOUS
    <2> DEFINE j == CHOOSE k \in faulty : \A l \in faulty : k <= l
    <2>1. file # <<>>
      BY EmptySeq
    <2>2. Fault(c, file, j) = "CHECKPOINT_VALID"
      BY <2>1 DEF Verdict, c
    <2> QED BY <1>2, <2>2 DEF Fault
  <1>4. Digests(file) = c.root
    BY <1>3 DEF Verdict, c
  <1>5. \A i \in 1..Len(file) : file[i].digest = Body(file[i])
    <2>1. \A i \in DOMAIN file : Fault(c, file, i) = "none"
      BY <1>3
    <2>2. \A i \in DOMAIN file : Body(file[i]) = file[i].digest
      BY <2>1 DEF Fault
    <2> QED BY <2>2, LenProperties
  <1> QED BY <1>1, <1>4, <1>5, DigestsIdentify

(* The rows of a file of the tenant t, of n events recorded so far. *)
FileOf(t, file, n) ==
  \A i \in DOMAIN file :
    /\ file[i].tenant = t /\ file[i].seq = i /\ file[i].id \in 1..n
    /\ file[i].digest = Body(file[i])
    /\ file[i].prev = IF i = 1 THEN GenesisHash ELSE <<file[i - 1].digest>>

(* ... and it does accept that one, if it is a tenant's events from number *)
(* 1 on.                                                                   *)
LEMMA CoveredFileVerifies ==
  ASSUME NEW S, NEW t, NEW number, NEW n \in Nat, NEW covers \in Seq(S), covers # <<>>,
         FileOf(t, covers, n)
  PROVE  Verdict(Document(t, number, covers), covers) = "CHECKPOINT_VALID"
  <1> DEFINE c == Document(t, number, covers)
             faulty == {i \in DOMAIN covers : Fault(c, covers, i) # "none"}
  <1>1. Len(covers) \in Nat \ {0} /\ DOMAIN covers = 1..Len(covers)
    BY LenProperties, EmptySeq
  <1>2. 1 \in DOMAIN covers /\ Len(covers) \in DOMAIN covers
    BY <1>1
  <1>3. covers[1].seq = 1 /\ covers[Len(covers)].seq = Len(covers)
    BY <1>2 DEF FileOf
  <1>4. c.tenant = t /\ c.first = 1 /\ c.last = Len(covers) /\ c.root = Digests(covers)
    BY <1>3 DEF Document
  <1> HIDE DEF c
  <1>5. ASSUME NEW i \in DOMAIN covers PROVE Fault(c, covers, i) = "none"
    <2>1. /\ covers[i].tenant = t /\ covers[i].seq = i
          /\ covers[i].digest = Body(covers[i])
          /\ covers[i].prev = IF i = 1 THEN GenesisHash ELSE <<covers[i - 1].digest>>
      BY DEF FileOf
    <2>2. i \in Nat /\ i >= 1 /\ 1 + i - 1 = i
      BY <1>1
    <2>3. covers[i].prev = IF i > 1 THEN <<covers[i - 1].digest>>
                           ELSE IF c.first = 1 THEN GenesisHash ELSE covers[i].prev
      BY <1>4, <2>1, <2>2
    <2> QED BY <1>4, <2>1, <2>2, <2>3 DEF Fault
  <1>6. faulty = {}
    BY <1>5
  <1>7. c.first + Len(covers) - 1 = c.last
    BY <1>1, <1>4
  <1> QED BY <1>4, <1>6, <1>7 DEF Verdict, c

(* verify_checkpoint_stream accepts a file if and only if it is the events *)
(* that the document was taken of, whatever rows the file is made of and   *)
(* however many it has.                                                    *)
THEOREM OnlyTheCoveredFileVerifies ==
  ASSUME NEW S, \A e \in S : IsRow(e), NEW t, NEW number, NEW n \in Nat,
         NEW covers \in Seq(S), covers # <<>>, FileOf(t, covers, n),
         NEW file \in Seq(S)
  PROVE  Verdict(Document(t, number, covers), file) = "CHECKPOINT_VALID" <=> file = covers
  <1>1. \A i \in 1..Len(covers) : covers[i].digest = Body(covers[i])
    BY LenProperties DEF FileOf
  <1>2. Verdict(Document(t, number, covers), file) = "CHECKPOINT_VALID" => file = covers
    BY <1>1, NoOtherFileVerifies
  <1>3. Verdict(Document(t, number, covers), covers) = "CHECKPOINT_VALID"
    BY CoveredFileVerifies
  <1> QED BY <1>2, <1>3

-----------------------------------------------------------------------------
(* The invariant *)

LEMMA FileIsFileOf == \A t, file : IsFile(t, file) <=> FileOf(t, file, told)
  BY DEF IsFile, FileOf

(* The streams and checkpoints of a database, or of a backup of one, where *)
(* the documents P have been published.                                    *)
TablesOK(S, P, n, ev, cp) ==
  /\ ev \in [Stream -> Seq(S)]
  /\ cp \in [Stream -> Seq(P)]
  /\ \A t \in Stream : FileOf(t, ev[t], n)
  /\ \A t \in Stream : \A i \in DOMAIN cp[t] :
       cp[t][i].number = i /\ IsPrefixOf(cp[t][i].covers, ev[t])
  /\ \A t \in Stream : \A i, j \in DOMAIN cp[t] :
       i < j => IsPrefixOf(cp[t][i].covers, cp[t][j].covers)

DocumentOK(S, n, c) ==
  /\ c.covers \in Seq(S) /\ c.covers # <<>>
  /\ c = Document(c.tenant, c.number, c.covers)
  /\ FileOf(c.tenant, c.covers, n)

(* The number is the next one or taken by now. *)
NumberOK(c, cp) ==
  c.tenant \in Stream /\ c.number \in 1..(Len(cp[c.tenant]) + 1)

ScanOK(S, c, ev, cp) ==
  /\ c.covers \in Seq(S) /\ c.covers # <<>>
  /\ IsPrefixOf(c.covers, ev[c.tenant])
  /\ \A i \in DOMAIN cp[c.tenant] : i < c.number => IsPrefixOf(cp[c.tenant][i].covers, c.covers)

AuditOK(S, n, c, ev, cp) ==
  \/ c = NotAuditing
  \/ /\ c = [step |-> "numbered", tenant |-> c.tenant, number |-> c.number, covers |-> <<>>]
     /\ NumberOK(c, cp)
  \/ /\ c = [step |-> "scanned", tenant |-> c.tenant, number |-> c.number, covers |-> c.covers]
     /\ NumberOK(c, cp)
     /\ ScanOK(S, c, ev, cp)
     /\ FileOf(c.tenant, c.covers, n)

CheckpointsInv(S) ==
  /\ told \in 0..MaxEvents
  /\ \A e \in S : IsRow(e)
  /\ TablesOK(S, published, told, events, checkpoints)
  /\ backup # NoBackup => TablesOK(S, published, told, backup.events, backup.checkpoints)
  /\ \A c \in published : DocumentOK(S, told, c)
  /\ \A p \in Auditor : AuditOK(S, told, auditing[p], events, checkpoints)

LEMMA FileMonotone ==
  ASSUME NEW n \in Nat, NEW m \in Nat, n <= m, NEW t, NEW file, FileOf(t, file, n)
  PROVE  FileOf(t, file, m)
  <1>1. \A k \in 1..n : k \in 1..m
    OBVIOUS
  <1> QED BY <1>1 DEF FileOf

LEMMA TablesMonotone ==
  ASSUME NEW S, NEW T, S \subseteq T, NEW P, NEW Q, P \subseteq Q,
         NEW n \in Nat, NEW m \in Nat, n <= m,
         NEW ev, NEW cp, TablesOK(S, P, n, ev, cp)
  PROVE  TablesOK(T, Q, m, ev, cp)
  <1>1. \A t \in Stream : ev[t] \in Seq(T) /\ cp[t] \in Seq(Q)
    <2> TAKE t \in Stream
    <2>1. ev[t] \in Seq(S) /\ cp[t] \in Seq(P)
      BY DEF TablesOK
    <2> QED BY <2>1, SeqMonotonic
  <1>2. ev \in [Stream -> Seq(T)] /\ cp \in [Stream -> Seq(Q)]
    BY <1>1 DEF TablesOK
  <1>3. \A t \in Stream : FileOf(t, ev[t], m)
    BY FileMonotone DEF TablesOK
  <1> QED BY <1>2, <1>3 DEF TablesOK

LEMMA DocumentMonotone ==
  ASSUME NEW S, NEW T, S \subseteq T, NEW n \in Nat, NEW m \in Nat, n <= m,
         NEW c, DocumentOK(S, n, c)
  PROVE  DocumentOK(T, m, c)
  BY SeqMonotonic, FileMonotone DEF DocumentOK

LEMMA AuditMonotone ==
  ASSUME NEW S, NEW T, S \subseteq T, NEW n \in Nat, NEW m \in Nat, n <= m,
         NEW c, NEW ev, NEW cp, AuditOK(S, n, c, ev, cp)
  PROVE  AuditOK(T, m, c, ev, cp)
  <1>1. CASE c = NotAuditing \/ c.step = "numbered"
    BY <1>1 DEF AuditOK
  <1>2. CASE /\ c = [step |-> "scanned", tenant |-> c.tenant, number |-> c.number, covers |-> c.covers]
             /\ NumberOK(c, cp)
             /\ ScanOK(S, c, ev, cp)
             /\ FileOf(c.tenant, c.covers, n)
    <2>1. ScanOK(T, c, ev, cp)
      BY <1>2, SeqMonotonic DEF ScanOK
    <2>2. FileOf(c.tenant, c.covers, m)
      BY <1>2, FileMonotone
    <2> QED BY <1>2, <2>1, <2>2 DEF AuditOK
  <1> QED BY <1>1, <1>2 DEF AuditOK

-----------------------------------------------------------------------------
(* The steps *)

LEMMA Numbers ==
  ASSUME NEW S, CheckpointsInv(S), NEW t \in Stream
  PROVE  /\ Len(checkpoints[t]) \in Nat /\ DOMAIN checkpoints[t] = 1..Len(checkpoints[t])
         /\ NextNumber(t) = Len(checkpoints[t]) + 1
         /\ Len(events[t]) \in Nat /\ DOMAIN events[t] = 1..Len(events[t])
         /\ events[t] \in Seq(S) /\ checkpoints[t] \in Seq(published)
         /\ told \in Nat
  <1>1. events[t] \in Seq(S) /\ checkpoints[t] \in Seq(published) /\ told \in Nat
    BY CheckpointsAssumption DEF CheckpointsInv, TablesOK
  <1>2. /\ Len(checkpoints[t]) \in Nat /\ DOMAIN checkpoints[t] = 1..Len(checkpoints[t])
        /\ Len(events[t]) \in Nat /\ DOMAIN events[t] = 1..Len(events[t])
    BY <1>1, LenProperties
  <1>3. \A i \in DOMAIN checkpoints[t] : checkpoints[t][i].number = i
    BY DEF CheckpointsInv, TablesOK
  <1>4. NextNumber(t) = Len(checkpoints[t]) + 1
    <2>1. CASE checkpoints[t] = <<>>
      BY <2>1, <1>2 DEF NextNumber
    <2>2. CASE checkpoints[t] # <<>>
      <3>1. Len(checkpoints[t]) \in DOMAIN checkpoints[t]
        BY <2>2, <1>1, <1>2, EmptySeq
      <3>2. checkpoints[t][Len(checkpoints[t])].number = Len(checkpoints[t])
        BY <3>1, <1>3
      <3> QED BY <2>2, <3>2 DEF NextNumber
    <2> QED BY <2>1, <2>2
  <1> QED BY <1>1, <1>2, <1>4

LEMMA RecordEventKeepsInv ==
  ASSUME NEW S, CheckpointsInv(S), NEW t \in Stream, RecordEvent(t), UNCHANGED backup
  PROVE  \E T : CheckpointsInv(T)'
  <1> DEFINE body == [tenant |-> t, seq |-> IF events[t] = <<>> THEN 1 ELSE Latest(t).seq + 1,
                      id |-> told + 1,
                      prev |-> IF events[t] = <<>> THEN GenesisHash ELSE <<Latest(t).digest>>]
             e == [tenant |-> t, seq |-> body.seq, id |-> body.id, prev |-> body.prev, digest |-> body]
             ev == Append(events[t], e)
  <1>1. /\ Len(events[t]) \in Nat /\ DOMAIN events[t] = 1..Len(events[t])
        /\ events[t] \in Seq(S) /\ told \in Nat
    BY Numbers
  <1>2. /\ told < MaxEvents /\ told' = told + 1
        /\ events' = [events EXCEPT ![t] = ev]
        /\ UNCHANGED <<checkpoints, published, auditing>>
    BY DEF RecordEvent
  <1>3. told' \in 0..MaxEvents /\ told' \in Nat /\ told <= told'
    BY <1>1, <1>2, CheckpointsAssumption
  <1>4. e.tenant = t /\ e.seq = body.seq /\ e.id = told + 1 /\ e.prev = body.prev /\ e.digest = body
    OBVIOUS
  <1>5. IsRow(e) /\ Body(e) = body
    <2>1. body = [tenant |-> t, seq |-> body.seq, id |-> told + 1, prev |-> body.prev]
      OBVIOUS
    <2> HIDE DEF body
    <2> QED BY <1>4, <2>1 DEF IsRow, Body
  <1>6. /\ body.seq = Len(events[t]) + 1
        /\ body.prev = IF Len(events[t]) = 0 THEN GenesisHash ELSE <<events[t][Len(events[t])].digest>>
    <2>1. CASE events[t] = <<>>
      BY <2>1
    <2>2. CASE events[t] # <<>>
      <3>1. Len(events[t]) # 0 /\ Len(events[t]) \in DOMAIN events[t]
        BY <2>2, <1>1, EmptySeq
      <3>2. FileOf(t, events[t], told)
        BY DEF CheckpointsInv, TablesOK
      <3>3. Latest(t) = events[t][Len(events[t])] /\ Latest(t).seq = Len(events[t])
        BY <3>1, <3>2 DEF Latest, FileOf
      <3> QED BY <2>2, <3>1, <3>3
    <2> QED BY <2>1, <2>2
  <1> HIDE DEF body
  <1>0. PICK T : T = S \cup {e}
    OBVIOUS
  <1>7. events[t] \in Seq(T) /\ e \in T /\ S \subseteq T
    BY <1>0, <1>1, SeqMonotonic
  <1> HIDE DEF e
  <1>8. /\ ev \in Seq(T) /\ Len(ev) = Len(events[t]) + 1
        /\ \A i \in 1..Len(events[t]) : ev[i] = events[t][i]
        /\ ev[Len(events[t]) + 1] = e
        /\ DOMAIN ev = 1..(Len(events[t]) + 1)
    BY <1>7, AppendProperties, LenProperties
  <1>9. \A f \in Seq(T) : IsPrefixOf(f, events[t]) => IsPrefixOf(f, ev)
    BY <1>7, PrefixAppend
  <1> HIDE DEF ev
  <1>10. FileOf(t, ev, told')
    <2> SUFFICES ASSUME NEW i \in 1..(Len(events[t]) + 1)
                 PROVE  /\ ev[i].tenant = t /\ ev[i].seq = i /\ ev[i].id \in 1..told'
                        /\ ev[i].digest = Body(ev[i])
                        /\ ev[i].prev = IF i = 1 THEN GenesisHash ELSE <<ev[i - 1].digest>>
      BY <1>8 DEF FileOf
    <2>1. CASE i \in 1..Len(events[t])
      <3>4. FileOf(t, events[t], told)
        BY DEF CheckpointsInv, TablesOK
      <3>1. /\ events[t][i].tenant = t /\ events[t][i].seq = i /\ events[t][i].id \in 1..told
            /\ events[t][i].digest = Body(events[t][i])
            /\ events[t][i].prev = IF i = 1 THEN GenesisHash ELSE <<events[t][i - 1].digest>>
        BY <2>1, <3>4, <1>1 DEF FileOf
      <3>2. ev[i] = events[t][i] /\ (i # 1 => ev[i - 1] = events[t][i - 1])
        BY <2>1, <1>1, <1>8
      <3>3. events[t][i].id \in 1..told'
        BY <3>1, <1>1, <1>2
      <3> QED BY <3>1, <3>2, <3>3
    <2>2. CASE i = Len(events[t]) + 1
      <3>1. ev[i] = e
        BY <2>2, <1>8
      <3>2. e.tenant = t /\ e.seq = i /\ e.id \in 1..told' /\ e.digest = Body(e)
        BY <2>2, <1>1, <1>2, <1>4, <1>5, <1>6
      <3>3. e.prev = IF i = 1 THEN GenesisHash ELSE <<ev[i - 1].digest>>
        <4>1. CASE Len(events[t]) = 0
          BY <4>1, <2>2, <1>4, <1>6
        <4>2. CASE Len(events[t]) # 0
          <5>1. i # 1 /\ i - 1 = Len(events[t]) /\ Len(events[t]) \in 1..Len(events[t])
            BY <4>2, <2>2, <1>1
          <5>2. ev[i - 1] = events[t][Len(events[t])]
            BY <5>1, <1>8
          <5> QED BY <4>2, <5>1, <5>2, <1>4, <1>6
        <4> QED BY <4>1, <4>2
      <3> QED BY <3>1, <3>2, <3>3
    <2> QED BY <2>1, <2>2, <1>1
  <1>11. /\ TablesOK(T, published, told', events, checkpoints)
         /\ backup # NoBackup => TablesOK(T, published, told', backup.events, backup.checkpoints)
    BY <1>1, <1>3, <1>7, TablesMonotone DEF CheckpointsInv
  <1>12. \A u \in Stream : events'[u] = IF u = t THEN ev ELSE events[u]
    BY <1>2 DEF CheckpointsInv, TablesOK
  <1>13. \A c \in published : c.covers \in Seq(T)
    BY <1>7, SeqMonotonic DEF CheckpointsInv, DocumentOK
  <1>14. TablesOK(T, published', told', events', checkpoints')
    <2>1. events' \in [Stream -> Seq(T)]
      BY <1>2, <1>8, <1>11 DEF TablesOK
    <2>2. \A u \in Stream : FileOf(u, events'[u], told')
      BY <1>10, <1>11, <1>12 DEF TablesOK
    <2>3. ASSUME NEW u \in Stream, NEW i \in DOMAIN checkpoints[u]
          PROVE  IsPrefixOf(checkpoints[u][i].covers, events'[u])
      <3>1. checkpoints[u][i] \in published
        BY Numbers, ElementOfSeq
      <3>2. IsPrefixOf(checkpoints[u][i].covers, events[u])
        BY <1>11 DEF TablesOK
      <3> QED BY <3>1, <3>2, <1>9, <1>12, <1>13
    <2> QED BY <2>1, <2>2, <2>3, <1>2, <1>11 DEF TablesOK
  <1>15. ASSUME NEW p \in Auditor PROVE AuditOK(T, told', auditing[p], events', checkpoints)
    <2> DEFINE c == auditing[p]
    <2>1. AuditOK(T, told', c, events, checkpoints)
      BY <1>1, <1>3, <1>7, AuditMonotone DEF CheckpointsInv
    <2> SUFFICES AuditOK(T, told', c, events', checkpoints)
      OBVIOUS
    <2> HIDE DEF c
    <2>2. CASE c = NotAuditing \/ c.step = "numbered"
      BY <2>1, <2>2 DEF AuditOK
    <2>3. CASE /\ c = [step |-> "scanned", tenant |-> c.tenant, number |-> c.number, covers |-> c.covers]
               /\ NumberOK(c, checkpoints)
               /\ ScanOK(T, c, events, checkpoints)
               /\ FileOf(c.tenant, c.covers, told')
      <3>1. c.tenant \in Stream /\ c.covers \in Seq(T) /\ IsPrefixOf(c.covers, events[c.tenant])
        BY <2>3 DEF NumberOK, ScanOK
      <3>2. IsPrefixOf(c.covers, events'[c.tenant])
        BY <3>1, <1>9, <1>12
      <3>3. ScanOK(T, c, events', checkpoints)
        BY <2>3, <3>2 DEF ScanOK
      <3> QED BY <2>3, <3>3 DEF AuditOK
    <2> QED BY <2>1, <2>2, <2>3 DEF AuditOK
  <1>16. \A c \in published : DocumentOK(T, told', c)
    BY <1>1, <1>3, <1>7, DocumentMonotone DEF CheckpointsInv
  <1>17. \A x \in T : IsRow(x)
    BY <1>0, <1>5 DEF CheckpointsInv
  <1>18. backup' # NoBackup => TablesOK(T, published', told', backup'.events, backup'.checkpoints)
    <2>1. backup' = backup /\ published' = published
      BY <1>2
    <2> QED BY <2>1, <1>11
  <1>19. \A c \in published' : DocumentOK(T, told', c)
    BY <1>2, <1>16
  <1>20. \A p \in Auditor : AuditOK(T, told', auditing'[p], events', checkpoints')
    BY <1>2, <1>15
  <1>21. CheckpointsInv(T)'
    BY <1>3, <1>14, <1>17, <1>18, <1>19, <1>20 DEF CheckpointsInv
  <1> QED BY <1>21

(* The calls of an auditor that leave the tables alone. *)
LEMMA AuditKeepsInv ==
  ASSUME NEW S, CheckpointsInv(S), NEW p \in Auditor, NEW c,
         auditing' = [auditing EXCEPT ![p] = c],
         AuditOK(S, told, c, events, checkpoints),
         UNCHANGED <<events, told, checkpoints, published, backup>>
  PROVE  CheckpointsInv(S)'
  <1>1. \A q \in Auditor : AuditOK(S, told, auditing'[q], events, checkpoints)
    BY DEF CheckpointsInv
  <1> QED BY <1>1 DEF CheckpointsInv

LEMMA ReadsKeepInv ==
  ASSUME NEW S, CheckpointsInv(S), NEW p \in Auditor,
         \/ \E t \in Stream : CreateNumber(p, t)
         \/ CreateScan(p) \/ CreateFails(p) \/ AuditorDies(p),
         UNCHANGED backup
  PROVE  CheckpointsInv(S)'
  <1>1. UNCHANGED <<events, told, checkpoints, published>>
    BY DEF CreateNumber, CreateScan, CreateFails, AuditorDies
  <1>2. AuditOK(S, told, NotAuditing, events, checkpoints)
    BY DEF AuditOK
  <1>3. CASE \E t \in Stream : CreateNumber(p, t)
    <2>1. PICK t \in Stream : CreateNumber(p, t)
      BY <1>3
    <2> DEFINE c == [step |-> "numbered", tenant |-> t, number |-> NextNumber(t), covers |-> <<>>]
    <2>2. auditing' = [auditing EXCEPT ![p] = c]
      BY <2>1 DEF CreateNumber
    <2>3. NumberOK(c, checkpoints)
      <3>1. NextNumber(t) = Len(checkpoints[t]) + 1 /\ Len(checkpoints[t]) \in Nat
        BY Numbers
      <3> QED BY <3>1 DEF NumberOK
    <2>4. AuditOK(S, told, c, events, checkpoints)
      BY <2>3 DEF AuditOK
    <2> QED BY <1>1, <2>2, <2>4, AuditKeepsInv
  <1>4. CASE CreateScan(p)
    <2> DEFINE c == auditing[p]
    <2>1. c.step = "numbered" /\ AuditOK(S, told, c, events, checkpoints)
      BY <1>4 DEF CreateScan, CheckpointsInv
    <2>2. NumberOK(c, checkpoints) /\ c.tenant \in Stream
      BY <2>1 DEF AuditOK, NotAuditing, NumberOK
    <2>3. CASE events[c.tenant] = <<>>
      <3>1. auditing' = [auditing EXCEPT ![p] = NotAuditing]
        BY <1>4, <2>3 DEF CreateScan
      <3> QED BY <1>1, <1>2, <3>1, AuditKeepsInv
    <2>4. CASE events[c.tenant] # <<>>
      <3> DEFINE d == [step |-> "scanned", tenant |-> c.tenant, number |-> c.number,
                       covers |-> events[c.tenant]]
      <3>1. auditing' = [auditing EXCEPT ![p] = d]
        BY <1>4, <2>4 DEF CreateScan
      <3>2. events[c.tenant] \in Seq(S) /\ IsPrefixOf(events[c.tenant], events[c.tenant])
        BY <2>2, Numbers, PrefixReflexive
      <3>3. /\ FileOf(c.tenant, events[c.tenant], told)
            /\ \A i \in DOMAIN checkpoints[c.tenant] :
                 IsPrefixOf(checkpoints[c.tenant][i].covers, events[c.tenant])
        BY <2>2 DEF CheckpointsInv, TablesOK
      <3>4. d.step = "scanned" /\ d.tenant = c.tenant /\ d.number = c.number /\ d.covers = events[c.tenant]
        OBVIOUS
      <3>5. d = [step |-> "scanned", tenant |-> d.tenant, number |-> d.number, covers |-> d.covers]
        OBVIOUS
      <3> HIDE DEF d
      <3>6. NumberOK(d, checkpoints)
        BY <2>2, <3>4 DEF NumberOK
      <3>7. ScanOK(S, d, events, checkpoints)
        BY <2>4, <3>2, <3>3, <3>4 DEF ScanOK
      <3>8. AuditOK(S, told, d, events, checkpoints)
        BY <3>3, <3>4, <3>5, <3>6, <3>7 DEF AuditOK
      <3> QED BY <1>1, <3>1, <3>8, AuditKeepsInv
    <2> QED BY <2>3, <2>4
  <1>5. CASE CreateFails(p) \/ AuditorDies(p)
    <2>1. auditing' = [auditing EXCEPT ![p] = NotAuditing]
      BY <1>5 DEF CreateFails, AuditorDies
    <2> QED BY <1>1, <1>2, <2>1, AuditKeepsInv
  <1> QED BY <1>3, <1>4, <1>5

(* The insert succeeds only with the number that is next, and the document *)
(* covers all that the earlier ones do, whoever inserted in between.       *)
LEMMA CreateInsertKeepsInv ==
  ASSUME NEW S, CheckpointsInv(S), NEW p \in Auditor, CreateInsert(p), UNCHANGED backup
  PROVE  CheckpointsInv(S)'
  <1> DEFINE c == auditing[p]
             t == c.tenant
             d == Document(c.tenant, c.number, c.covers)
             n == Len(checkpoints[t])
             rows == Append(checkpoints[t], d)
  <1>1. /\ c.step = "scanned" /\ ~Taken(t, c.number)
        /\ checkpoints' = [checkpoints EXCEPT ![t] = rows]
        /\ published' = published \cup {d}
        /\ auditing' = [auditing EXCEPT ![p] = NotAuditing]
        /\ UNCHANGED <<events, told>>
    BY DEF CreateInsert
  <1>2. NumberOK(c, checkpoints) /\ ScanOK(S, c, events, checkpoints) /\ FileOf(t, c.covers, told)
    <2>1. AuditOK(S, told, c, events, checkpoints) /\ c.step # "numbered" /\ c # NotAuditing
      BY <1>1 DEF CheckpointsInv, NotAuditing
    <2> SUFFICES /\ NumberOK(c, checkpoints) /\ ScanOK(S, c, events, checkpoints)
                 /\ FileOf(c.tenant, c.covers, told)
      OBVIOUS
    <2> HIDE DEF c
    <2> QED BY <2>1 DEF AuditOK
  <1>3. /\ t \in Stream /\ n \in Nat /\ DOMAIN checkpoints[t] = 1..n /\ told \in Nat
        /\ checkpoints[t] \in Seq(published)
    BY <1>2, Numbers DEF NumberOK
  <1>4. c.number = n + 1
    <2>1. \A i \in 1..n : checkpoints[t][i].number = i
      BY <1>3 DEF CheckpointsInv, TablesOK
    <2>2. c.number \in 1..(n + 1)
      BY <1>2 DEF NumberOK
    <2>3. c.number \notin 1..n
      BY <1>1, <1>3, <2>1 DEF Taken
    <2> QED BY <1>3, <2>2, <2>3
  <1>5. d.tenant = t /\ d.number = n + 1 /\ d.covers = c.covers
    BY <1>4 DEF Document
  <1>6. DocumentOK(S, told, d)
    BY <1>2, <1>4, <1>5 DEF DocumentOK, ScanOK
  <1> HIDE DEF d
  <1>7. /\ rows \in Seq(published') /\ Len(rows) = n + 1
        /\ \A i \in 1..n : rows[i] = checkpoints[t][i]
        /\ rows[n + 1] = d
        /\ DOMAIN rows = 1..(n + 1)
    <2>1. checkpoints[t] \in Seq(published') /\ d \in published'
      BY <1>1, <1>3, SeqMonotonic
    <2> QED BY <2>1, AppendProperties, LenProperties
  <1> HIDE DEF rows
  <1>8. \A u \in Stream : checkpoints'[u] = IF u = t THEN rows ELSE checkpoints[u]
    BY <1>1 DEF CheckpointsInv, TablesOK
  <1>9. TablesOK(S, published', told, events, checkpoints)
    BY <1>1, <1>3, TablesMonotone DEF CheckpointsInv
  <1>10. /\ IsPrefixOf(d.covers, events[t])
         /\ \A i \in 1..n : IsPrefixOf(checkpoints[t][i].covers, d.covers)
    BY <1>2, <1>3, <1>4, <1>5 DEF ScanOK
  <1>11. TablesOK(S, published', told', events', checkpoints')
    <2>1. checkpoints' \in [Stream -> Seq(published')]
      BY <1>1, <1>3, <1>7, <1>9 DEF TablesOK
    <2>2. ASSUME NEW u \in Stream, NEW i \in DOMAIN checkpoints'[u]
          PROVE  checkpoints'[u][i].number = i /\ IsPrefixOf(checkpoints'[u][i].covers, events[u])
      <3>1. CASE u # t
        BY <3>1, <1>8, <1>9 DEF TablesOK
      <3>2. CASE u = t /\ i = n + 1
        BY <3>2, <1>5, <1>7, <1>8, <1>10
      <3>3. CASE u = t /\ i # n + 1
        <4>1. i \in 1..n
          BY <2>2, <3>3, <1>3, <1>7, <1>8
        <4>2. checkpoints'[u][i] = checkpoints[t][i]
          BY <3>3, <4>1, <1>7, <1>8
        <4> QED BY <3>3, <4>1, <4>2, <1>3, <1>9 DEF TablesOK
      <3> QED BY <3>1, <3>2, <3>3
    <2>3. ASSUME NEW u \in Stream, NEW i \in DOMAIN checkpoints'[u], NEW j \in DOMAIN checkpoints'[u], i < j
          PROVE  IsPrefixOf(checkpoints'[u][i].covers, checkpoints'[u][j].covers)
      <3>1. CASE u # t
        BY <3>1, <2>3, <1>8, <1>9 DEF TablesOK
      <3>2. CASE u = t
        <4>4. i \in 1..(n + 1) /\ j \in 1..(n + 1) /\ checkpoints'[u] = rows
          BY <3>2, <1>7, <1>8
        <4>5. i \in 1..n
          <5>1. i < j
            BY <2>3
          <5> QED BY <4>4, <5>1, <1>3
        <4>1. i \in 1..n /\ checkpoints'[u][i] = checkpoints[t][i] /\ j \in 1..(n + 1)
          BY <4>4, <4>5, <1>7
        <4>2. CASE j = n + 1
          BY <3>2, <4>1, <4>2, <4>4, <1>7, <1>10
        <4>3. CASE j # n + 1
          <5>1. j \in 1..n
            BY <4>3, <4>4, <1>3
          <5>2. checkpoints'[u][j] = checkpoints[t][j]
            BY <4>4, <5>1, <1>7
          <5> QED BY <2>3, <4>1, <5>1, <5>2, <1>3, <1>9 DEF TablesOK
        <4> QED BY <4>2, <4>3
      <3> QED BY <3>1, <3>2
    <2> QED BY <1>1, <1>9, <2>1, <2>2, <2>3 DEF TablesOK
  <1>12. ASSUME NEW q \in Auditor PROVE AuditOK(S, told, auditing'[q], events, checkpoints')
    <2>1. CASE auditing'[q] = NotAuditing
      BY <2>1 DEF AuditOK
    <2>2. CASE auditing'[q] # NotAuditing
      <3>1. PICK a : a = auditing[q]
        OBVIOUS
      <3>2. auditing'[q] = a /\ AuditOK(S, told, a, events, checkpoints)
        BY <2>2, <3>1, <1>1 DEF CheckpointsInv
      <3>3. a.tenant \in Stream /\ NumberOK(a, checkpoints)
        BY <2>2, <3>2 DEF AuditOK, NumberOK
      <3>4. /\ Len(checkpoints[a.tenant]) \in Nat
            /\ DOMAIN checkpoints[a.tenant] = 1..Len(checkpoints[a.tenant])
        BY <3>3, Numbers
      <3>5. NumberOK(a, checkpoints')
        <4>1. CASE a.tenant = t
          BY <4>1, <3>3, <1>3, <1>7, <1>8 DEF NumberOK
        <4>2. CASE a.tenant # t
          BY <4>2, <3>3, <1>8 DEF NumberOK
        <4> QED BY <4>1, <4>2
      <3>6. ScanOK(S, a, events, checkpoints) => ScanOK(S, a, events, checkpoints')
        <4> SUFFICES ASSUME ScanOK(S, a, events, checkpoints),
                            NEW i \in DOMAIN checkpoints'[a.tenant], i < a.number
                     PROVE  IsPrefixOf(checkpoints'[a.tenant][i].covers, a.covers)
          BY DEF ScanOK
        <4>1. CASE a.tenant = t
          <5>1. a.number \in 1..(n + 1) /\ i \in 1..(n + 1)
            BY <4>1, <3>3, <1>3, <1>7, <1>8 DEF NumberOK
          <5>2. i \in 1..n /\ checkpoints'[a.tenant][i] = checkpoints[a.tenant][i]
            BY <4>1, <5>1, <1>3, <1>7, <1>8
          <5> QED BY <4>1, <5>2, <1>3 DEF ScanOK
        <4>2. CASE a.tenant # t
          BY <4>2, <3>3, <1>8 DEF ScanOK
        <4> QED BY <4>1, <4>2
      <3> QED BY <2>2, <3>2, <3>5, <3>6 DEF AuditOK
    <2> QED BY <2>1, <2>2
  <1>13. \A x \in published' : DocumentOK(S, told', x)
    BY <1>1, <1>6 DEF CheckpointsInv
  <1>14. backup' # NoBackup => TablesOK(S, published', told', backup'.events, backup'.checkpoints)
    <2>1. backup' = backup /\ told' = told /\ published \subseteq published'
      BY <1>1
    <2> QED BY <2>1, <1>3, TablesMonotone DEF CheckpointsInv
  <1>15. told' \in 0..MaxEvents /\ \A e \in S : IsRow(e)
    BY <1>1 DEF CheckpointsInv
  <1>16. \A q \in Auditor : AuditOK(S, told', auditing'[q], events', checkpoints')
    BY <1>1, <1>12
  <1> QED BY <1>11, <1>13, <1>14, <1>15, <1>16 DEF CheckpointsInv

LEMMA BackupKeepsTables ==
  ASSUME NEW S, CheckpointsInv(S), Backup
  PROVE  CheckpointsInv(S)'
  <1>1. /\ backup'.events = events /\ backup'.checkpoints = checkpoints
        /\ UNCHANGED <<events, told, checkpoints, published, auditing>>
    BY DEF Backup, Tables, checkpointVars
  <1> QED BY <1>1 DEF CheckpointsInv

LEMMA RestoreKeepsTables ==
  ASSUME NEW S, CheckpointsInv(S), Restore
  PROVE  CheckpointsInv(S)'
  <1>1. /\ backup # NoBackup
        /\ events' = backup.events /\ checkpoints' = backup.checkpoints
        /\ \A q \in Auditor : auditing[q] = NotAuditing
        /\ backup' = NoBackup \/ backup' = backup
        /\ UNCHANGED <<told, published, auditing>>
    BY DEF Restore
  <1>2. TablesOK(S, published', told', events', checkpoints')
    BY <1>1 DEF CheckpointsInv
  <1>3. backup' # NoBackup => TablesOK(S, published', told', backup'.events, backup'.checkpoints)
    BY <1>1 DEF CheckpointsInv
  <1>4. \A q \in Auditor : AuditOK(S, told', auditing'[q], events', checkpoints')
    BY <1>1 DEF AuditOK
  <1> QED BY <1>1, <1>2, <1>3, <1>4 DEF CheckpointsInv

LEMMA StillKeepsInv ==
  ASSUME NEW S, CheckpointsInv(S), UNCHANGED <<checkpointVars, backup>>
  PROVE  CheckpointsInv(S)'
  BY DEF CheckpointsInv, checkpointVars

LEMMA CheckpointsInvStep ==
  (\E S : CheckpointsInv(S)) /\ [Next]_vars => (\E S : CheckpointsInv(S))'
  <1> SUFFICES ASSUME NEW S, CheckpointsInv(S), [Next]_vars
               PROVE  \E T : CheckpointsInv(T)'
    OBVIOUS
  <1>1. CASE UNCHANGED vars
    BY <1>1, StillKeepsInv DEF vars
  <1>2. CASE LedgerStep
    BY <1>2, StillKeepsInv DEF LedgerStep
  <1>3. CASE CheckpointsStep
    <2>1. UNCHANGED backup
      BY <1>3 DEF CheckpointsStep
    <2>2. \/ \E t \in Stream : RecordEvent(t)
          \/ \E p \in Auditor :
               \/ \E t \in Stream : CreateNumber(p, t)
               \/ CreateScan(p) \/ CreateInsert(p) \/ CreateFails(p) \/ AuditorDies(p)
      BY <1>3 DEF CheckpointsStep, CheckpointsNext
    <2> QED BY <2>1, <2>2, RecordEventKeepsInv, ReadsKeepInv, CreateInsertKeepsInv
  <1>4. CASE Backup
    BY <1>4, BackupKeepsTables
  <1>5. CASE Restore
    BY <1>5, RestoreKeepsTables
  <1> QED BY <1>1, <1>2, <1>3, <1>4, <1>5 DEF Next

LEMMA CheckpointsInvInit == Init => \E S : CheckpointsInv(S)
  <1> SUFFICES ASSUME Init PROVE CheckpointsInv({})
    OBVIOUS
  <1>1. \A S : <<>> \in Seq(S) /\ DOMAIN <<>> = {}
    BY EmptySeq
  <1>2. TablesOK({}, published, told, events, checkpoints)
    BY <1>1 DEF Init, CheckpointsInit, TablesOK, FileOf
  <1>3. told \in 0..MaxEvents
    BY CheckpointsAssumption DEF Init, CheckpointsInit
  <1> QED BY <1>2, <1>3 DEF Init, CheckpointsInit, CheckpointsInv, AuditOK

LEMMA CheckpointsInvHolds == Spec => [](\E S : CheckpointsInv(S))
  BY CheckpointsInvInit, CheckpointsInvStep, PTL DEF Spec

-----------------------------------------------------------------------------
(* Theorems *)

(* Every stream, and whatever an auditor or a checkpoint covers, is an     *)
(* unbroken hash chain from number 1, and checkpoints are numbered without *)
(* a gap, through any number of restores.                                  *)
THEOREM StreamsAreChains == Spec => []CheckpointsTypeOK
  <1>1. ASSUME NEW S, CheckpointsInv(S) PROVE CheckpointsTypeOK
    <2>1. \A t \in Stream : IsFile(t, events[t])
      BY <1>1, FileIsFileOf DEF CheckpointsInv, TablesOK
    <2>2. ASSUME NEW t \in Stream, NEW i \in DOMAIN checkpoints[t]
          PROVE  checkpoints[t][i] \in published /\ checkpoints[t][i].number = i
      <3>1. checkpoints[t] \in Seq(published) /\ DOMAIN checkpoints[t] = 1..Len(checkpoints[t])
        BY <1>1, Numbers
      <3>2. checkpoints[t][i] \in published
        BY <3>1, ElementOfSeq
      <3> QED BY <1>1, <3>2 DEF CheckpointsInv, TablesOK
    <2>3. \A c \in published : c = Document(c.tenant, c.number, c.covers) /\ IsFile(c.tenant, c.covers)
      BY <1>1, FileIsFileOf DEF CheckpointsInv, DocumentOK
    <2>4. ASSUME NEW p \in Auditor
          PROVE  auditing[p] = NotAuditing \/ IsFile(auditing[p].tenant, auditing[p].covers)
      <3> DEFINE c == auditing[p]
      <3>1. AuditOK(S, told, c, events, checkpoints)
        BY <1>1 DEF CheckpointsInv
      <3>2. c.covers = <<>> => FileOf(c.tenant, c.covers, told)
        <4>1. DOMAIN <<>> = {}
          OBVIOUS
        <4> QED BY <4>1 DEF FileOf
      <3> HIDE DEF c
      <3>3. c = NotAuditing \/ c.covers = <<>> \/ FileOf(c.tenant, c.covers, told)
        BY <3>1 DEF AuditOK
      <3> QED BY <3>2, <3>3, FileIsFileOf DEF c
    <2> QED BY <1>1, <2>1, <2>2, <2>3, <2>4 DEF CheckpointsInv, CheckpointsTypeOK
  <1>2. (\E S : CheckpointsInv(S)) => CheckpointsTypeOK
    BY <1>1
  <1> QED BY <1>2, CheckpointsInvHolds, PTL

(* A checkpoint covers all that those with lower numbers cover, although   *)
(* create_checkpoint reads the number, reads the events and inserts in     *)
(* three statements, and although a restore takes the table back.          *)
THEOREM CheckpointsAlwaysGrow == Spec => []CheckpointsGrow
  <1>1. ASSUME NEW S, CheckpointsInv(S) PROVE CheckpointsGrow
    <2> SUFFICES ASSUME NEW t \in Stream, NEW i \in DOMAIN checkpoints[t]
                 PROVE  /\ IsPrefixOf(checkpoints[t][i].covers, events[t])
                        /\ \A j \in DOMAIN checkpoints[t] :
                             checkpoints[t][i].number < checkpoints[t][j].number =>
                               IsPrefixOf(checkpoints[t][i].covers, checkpoints[t][j].covers)
      BY DEF CheckpointsGrow
    <2>1. /\ \A j \in DOMAIN checkpoints[t] : checkpoints[t][j].number = j
          /\ IsPrefixOf(checkpoints[t][i].covers, events[t])
          /\ \A j \in DOMAIN checkpoints[t] :
               i < j => IsPrefixOf(checkpoints[t][i].covers, checkpoints[t][j].covers)
      BY <1>1 DEF CheckpointsInv, TablesOK
    <2> QED BY <2>1
  <1>2. (\E S : CheckpointsInv(S)) => CheckpointsGrow
    BY <1>1
  <1> QED BY <1>2, CheckpointsInvHolds, PTL

(* VerdictIsExact, of every file that there can be. *)
VerdictIsExactForAll ==
  \A c \in published :
    /\ Verdict(c, c.covers) = "CHECKPOINT_VALID"
    /\ \A S : \A file \in Seq(S) :
         (\A e \in S : IsRow(e)) /\ Verdict(c, file) = "CHECKPOINT_VALID" => file = c.covers

(* A checkpoint that was ever published verifies the events it covers and  *)
(* no other file, be it from before a restore or put together by hand.     *)
THEOREM VerdictIsAlwaysExact == Spec => []VerdictIsExactForAll
  <1>1. ASSUME NEW S, CheckpointsInv(S) PROVE VerdictIsExactForAll
    <2> SUFFICES ASSUME NEW c \in published
                 PROVE  /\ Verdict(c, c.covers) = "CHECKPOINT_VALID"
                        /\ \A T : \A file \in Seq(T) :
                             (\A e \in T : IsRow(e)) /\ Verdict(c, file) = "CHECKPOINT_VALID" =>
                               file = c.covers
      BY DEF VerdictIsExactForAll
    <2>1. /\ c = Document(c.tenant, c.number, c.covers) /\ c.covers \in Seq(S) /\ c.covers # <<>>
          /\ FileOf(c.tenant, c.covers, told) /\ told \in Nat /\ \A e \in S : IsRow(e)
      BY <1>1, CheckpointsAssumption DEF CheckpointsInv, DocumentOK
    <2>2. Verdict(c, c.covers) = "CHECKPOINT_VALID"
      BY <2>1, CoveredFileVerifies
    <2>3. ASSUME NEW T, NEW file \in Seq(T), \A e \in T : IsRow(e), Verdict(c, file) = "CHECKPOINT_VALID"
          PROVE  file = c.covers
      <3>1. PICK U : U = S \cup T
        OBVIOUS
      <3>2. file \in Seq(U) /\ c.covers \in Seq(U) /\ \A e \in U : IsRow(e)
        BY <2>1, <2>3, <3>1, SeqMonotonic
      <3>3. Verdict(Document(c.tenant, c.number, c.covers), file) = "CHECKPOINT_VALID"
        BY <2>1, <2>3
      <3> QED BY <2>1, <3>2, <3>3, OnlyTheCoveredFileVerifies
    <2> QED BY <2>2, <2>3
  <1>2. (\E S : CheckpointsInv(S)) => VerdictIsExactForAll
    BY <1>1
  <1> QED BY <1>2, CheckpointsInvHolds, PTL

-----------------------------------------------------------------------------
(* The files that VerdictIsExact tries *)

HasRows(file) == \E S : file \in Seq(S) /\ \A e \in S : IsRow(e)

LEMMA ExportHasRows ==
  ASSUME NEW S, CheckpointsInv(S), NEW t \in Stream, NEW from \in Nat, NEW limit \in Nat
  PROVE  HasRows(Export(t, from, limit))
  <1> DEFINE rows == events[t]
             early == {i \in DOMAIN rows : rows[i].seq < from}
             skipped == Cardinality(early)
             end == IF Len(rows) - skipped < limit THEN Len(rows) ELSE skipped + limit
  <1>1. rows \in Seq(S) /\ Len(rows) \in Nat /\ DOMAIN rows = 1..Len(rows) /\ \A e \in S : IsRow(e)
    BY Numbers DEF CheckpointsInv
  <1>2. skipped \in Nat
    <2>1. IsFiniteSet(1..Len(rows)) /\ early \in SUBSET (1..Len(rows))
      BY <1>1, FS_Interval
    <2> QED BY <2>1, FS_Subset, FS_CardinalityType
  <1> HIDE DEF skipped, early
  <1>3. end \in Int /\ end <= Len(rows)
    BY <1>1, <1>2
  <1> HIDE DEF end
  <1>4. \A i \in (skipped + 1)..end : rows[i] \in S
    BY <1>1, <1>2, <1>3, ElementOfSeq
  <1>5. SubSeq(rows, skipped + 1, end) \in Seq(S)
    BY <1>2, <1>3, <1>4, SubSeqProperties
  <1>6. Export(t, from, limit) = SubSeq(rows, skipped + 1, end)
    BY DEF Export, skipped, early, end
  <1> QED BY <1>1, <1>5, <1>6 DEF HasRows

LEMMA ExchangedHasRows ==
  ASSUME NEW S, \A e \in S : IsRow(e), NEW file \in Seq(S), NEW i \in 1..Len(file), NEW r, IsRow(r)
  PROVE  HasRows([file EXCEPT ![i] = r])
  <1>1. PICK T : T = S \cup {r}
    OBVIOUS
  <1>2. file \in Seq(T) /\ r \in T /\ \A e \in T : IsRow(e)
    BY <1>1, SeqMonotonic
  <1>3. [file EXCEPT ![i] = r] \in Seq(T)
    BY <1>2, ExceptSeq
  <1> QED BY <1>2, <1>3 DEF HasRows

LEMMA AlteredHasRows ==
  ASSUME NEW file, HasRows(file), NEW other \in Altered(file)
  PROVE  HasRows(other)
  <1>1. PICK S : file \in Seq(S) /\ \A e \in S : IsRow(e)
    BY DEF HasRows
  <1>2. Len(file) \in Nat /\ \A i \in 1..Len(file) : file[i] \in S
    BY <1>1, LenProperties, ElementOfSeq
  <1>3. \A e, id, t : IsRow(Restated(e, id, t)) /\ IsRow(Rewritten(e, id))
    BY DEF IsRow, Restated, Rewritten
  <1>4. CASE other \in WithoutOne(file)
    <2>1. PICK i \in 1..Len(file) : other = SubSeq(file, 1, i - 1) \o SubSeq(file, i + 1, Len(file))
      BY <1>4 DEF WithoutOne
    <2>2. /\ i - 1 \in Int /\ i + 1 \in Int
          /\ \A j \in 1..(i - 1) : file[j] \in S
          /\ \A j \in (i + 1)..Len(file) : file[j] \in S
      BY <1>2
    <2>3. SubSeq(file, 1, i - 1) \in Seq(S) /\ SubSeq(file, i + 1, Len(file)) \in Seq(S)
      BY <1>2, <2>2, SubSeqProperties
    <2>4. other \in Seq(S)
      BY <2>1, <2>3, ConcatProperties
    <2> QED BY <1>1, <2>4 DEF HasRows
  <1>5. CASE other \in WithOther(file)
    <2>1. ASSUME NEW i \in 1..Len(file), NEW r, IsRow(r), other = [file EXCEPT ![i] = r]
          PROVE  HasRows(other)
      BY <1>1, <2>1, ExchangedHasRows
    <2>2. CASE \E i \in 1..(Len(file) - 1) : other = [file EXCEPT ![i] = file[i + 1]]
      <3>1. PICK i \in 1..(Len(file) - 1) : other = [file EXCEPT ![i] = file[i + 1]]
        BY <2>2
      <3>2. i \in 1..Len(file) /\ IsRow(file[i + 1])
        BY <1>1, <1>2
      <3> QED BY <2>1, <3>1, <3>2
    <2>3. CASE \E i \in 1..Len(file) : \E e, id, t : other = [file EXCEPT ![i] = Restated(e, id, t)]
      BY <1>3, <2>1, <2>3
    <2>4. CASE \E i \in 1..Len(file) : \E e, id : other = [file EXCEPT ![i] = Rewritten(e, id)]
      BY <1>3, <2>1, <2>4
    <2> QED BY <1>5, <2>2, <2>3, <2>4 DEF WithOther
  <1> QED BY <1>4, <1>5 DEF Altered

(* A checkpoint that was ever published verifies the events it covers, and *)
(* no export of the streams as they are, whole or cut off at its limit, and *)
(* no export or covered file in which an event was left out, exchanged,    *)
(* restated or rewritten with a digest to match (verify_checkpoint_stream). *)
THEOREM CheckpointsVerifyTheirEventsOnly == Spec => []VerdictIsExact
  <1>1. ASSUME NEW S, CheckpointsInv(S), VerdictIsExactForAll PROVE VerdictIsExact
    <2> SUFFICES ASSUME NEW c \in published,
                        NEW file \in Exports \cup (UNION {Altered(f) : f \in Exports}) \cup Altered(c.covers)
                 PROVE  HasRows(file)
      BY <1>1 DEF VerdictIsExact, VerdictIsExactForAll, HasRows
    <2>1. HasRows(c.covers)
      BY <1>1 DEF CheckpointsInv, DocumentOK, HasRows
    <2>2. ASSUME NEW f \in Exports PROVE HasRows(f)
      <3>1. PICK t \in Stream, from \in 1..2, limit \in 0..MaxEvents : f = Export(t, from, limit)
        BY DEF Exports
      <3>2. from \in Nat /\ limit \in Nat
        BY CheckpointsAssumption
      <3> QED BY <1>1, <3>1, <3>2, ExportHasRows
    <2> QED BY <2>1, <2>2, AlteredHasRows
  <1>2. (\E S : CheckpointsInv(S)) /\ VerdictIsExactForAll => VerdictIsExact
    BY <1>1
  <1> QED BY <1>2, CheckpointsInvHolds, VerdictIsAlwaysExact, PTL

-----------------------------------------------------------------------------
(* The two halves of the file together *)

(* The ledger, the streams and the checkpoints keep their types, and the   *)
(* streams their hash chains, through appends, backups and restores.       *)
THEOREM TypeCorrect == Spec => []TypeOK
  <1> DEFINE Restores == restores \in 0..MaxRestores
  <1>1. Init => Restores
    BY StorageAssumption DEF Init
  <1>2. Restores /\ [Next]_vars => Restores'
    <2> SUFFICES ASSUME Restores, [Next]_vars PROVE restores' \in 0..MaxRestores
      OBVIOUS
    <2>1. CASE Restore
      BY <2>1, StorageAssumption DEF Restore
    <2>2. CASE ~Restore
      <3>1. restores' = restores
        BY <2>2 DEF Next, LedgerStep, CheckpointsStep, Backup, vars
      <3> QED BY <3>1
    <2> QED BY <2>1, <2>2
  <1>3. Spec => []Restores
    BY <1>1, <1>2, PTL DEF Spec
  <1>4. LedgerInv => LedgerTypeOK
    BY DEF LedgerInv
  <1>5. LedgerTypeOK /\ CheckpointsTypeOK /\ Restores => TypeOK
    BY DEF TypeOK
  <1> QED BY <1>3, <1>4, <1>5, LedgerInvHolds, StreamsAreChains, PTL
=============================================================================
