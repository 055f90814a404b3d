--------------------------- MODULE ExecutorProofs ---------------------------
(***************************************************************************)
(* Proofs about Executor for any number of permits, workers and operators, *)
(* any clock and any adapter.                                              *)
(***************************************************************************)
EXTENDS Executor, TLAPS

(* What an adapter makes of an answer is a status; it is SUCCEEDED only if *)
(* the service has accepted the request and, for GitHub, FAILED only if it *)
(* has refused it (the adapters' try/except).                              *)
LEMMA AnswerLemma ==
  ASSUME Adapter \in AdapterKind, NEW s \in ReqStatus, NEW a \in AnswersFor(s)
  PROVE  /\ Classify(Adapter, a) \in Settled
         /\ Classify(Adapter, a) = "SUCCEEDED" => s = "applied"
         /\ Adapter = "github" /\ Classify(Adapter, a) = "FAILED" => s = "refused"
<1>1. \/ a \in {"no_answer", "server_error"}
      \/ s = "applied" /\ a \in {"ok", "garbled"}
      \/ s = "refused" /\ a = "rejected"
  BY DEF AnswersFor
<1>2. QED
  BY <1>1 DEF Classify, Settled, AdapterKind

-----------------------------------------------------------------------------
(* Every handler of the executor keeps the types, and a worker that is     *)
(* inside execute_permit holds a permit.                                   *)
LEMMA TypeStep ==
  ASSUME TypeOK, HoldsPermit, [Next]_vars
  PROVE  TypeOK' /\ HoldsPermit'
<1> USE DEF TypeOK, HoldsPermit, rows, workers, service, others
<1>1. ASSUME NEW w \in Worker, NEW p \in Permit, VerifyPermit(w, p)
      PROVE  TypeOK' /\ HoldsPermit'
  BY <1>1 DEF VerifyPermit, Goto, Location
<1>2. ASSUME NEW w \in Worker, StartConsumption(w)
      PROVE  TypeOK' /\ HoldsPermit'
  BY <1>2 DEF StartConsumption, Goto, Location, RowStatus
<1>3. ASSUME NEW w \in Worker, StartRefused(w)
      PROVE  TypeOK' /\ HoldsPermit'
  BY <1>3 DEF StartRefused, Leave, Goto, Location, Settled
<1>4. ASSUME NEW w \in Worker, RejectUnsupported(w)
      PROVE  TypeOK' /\ HoldsPermit'
  BY <1>4 DEF RejectUnsupported, Settling, Goto, Location, Settled
<1>5. ASSUME NEW w \in Worker, RejectBinding(w)
      PROVE  TypeOK' /\ HoldsPermit'
  BY <1>5 DEF RejectBinding, Settling, Goto, Location, Settled
<1>6. ASSUME NEW w \in Worker, SendRequest(w)
      PROVE  TypeOK' /\ HoldsPermit'
  BY <1>6 DEF SendRequest, Goto, Location, ReqStatus
<1>7. ASSUME NEW w \in Worker, TakeAnswer(w)
      PROVE  TypeOK' /\ HoldsPermit'
  <2>1. held[w] \in Permit
    BY <1>7 DEF TakeAnswer
  <2>2. PICK a \in AnswersFor(request[held[w]]) :
          LET s == Classify(Adapter, a) IN Settling(w, s, s = "UNKNOWN")
    BY <1>7 DEF TakeAnswer
  <2>3. Classify(Adapter, a) \in Settled
    BY <2>1, AnswerLemma, ExecutorAssumption DEF ExecutorAssumption
  <2>4. QED
    BY <1>7, <2>1, <2>2, <2>3 DEF TakeAnswer, Settling, Goto, Location
<1>8. ASSUME NEW w \in Worker, ReadState(w)
      PROVE  TypeOK' /\ HoldsPermit'
  BY <1>8 DEF ReadState, Raise, Leave, Settling, Goto, Location, Settled
<1>9. ASSUME NEW w \in Worker, WriteOutcome(w)
      PROVE  TypeOK' /\ HoldsPermit'
  BY <1>9 DEF WriteOutcome, Leave, Goto, Location, Settled, RowStatus
<1>10. ASSUME NEW w \in Worker, WriteRefused(w)
      PROVE  TypeOK' /\ HoldsPermit'
  BY <1>10 DEF WriteRefused, Raise, Leave, Settling, Goto, Location, Settled
<1>11. ASSUME NEW w \in Worker, LocalFault(w)
      PROVE  TypeOK' /\ HoldsPermit'
  BY <1>11 DEF LocalFault, Raise, Leave, Settling, Goto, Location, Settled
<1>12. ASSUME NEW w \in Worker, Crash(w)
      PROVE  TypeOK' /\ HoldsPermit'
  BY <1>12 DEF Crash, Leave, Goto, Location, Settled
<1>13. ASSUME NEW o \in Operator, ListAbandoned(o)
      PROVE  TypeOK' /\ HoldsPermit'
  BY <1>13 DEF ListAbandoned, Abandoned
<1>14. ASSUME NEW o \in Operator, MarkAbandoned(o)
      PROVE  TypeOK' /\ HoldsPermit'
  BY <1>14 DEF MarkAbandoned, Oldest, RowStatus, Settled
<1>15. ASSUME NEW o \in Operator, AbandonPass(o)
      PROVE  TypeOK' /\ HoldsPermit'
  BY <1>15 DEF AbandonPass
<1>16. ASSUME NEW o \in Operator, RecoveryFails(o)
      PROVE  TypeOK' /\ HoldsPermit'
  BY <1>16 DEF RecoveryFails
<1>17. ASSUME NEW p \in Permit, ApplyEffect(p)
      PROVE  TypeOK' /\ HoldsPermit'
  BY <1>17 DEF ApplyEffect, ReqStatus
<1>18. ASSUME NEW p \in Permit, RefuseEffect(p)
      PROVE  TypeOK' /\ HoldsPermit'
  BY <1>18 DEF RefuseEffect, ReqStatus
<1>19. ASSUME NEW p \in Permit, GateBlocks(p)
      PROVE  TypeOK' /\ HoldsPermit'
  BY <1>19 DEF GateBlocks
<1>20. ASSUME Tick
      PROVE  TypeOK' /\ HoldsPermit'
  BY <1>20 DEF Tick
<1>21. ASSUME UNCHANGED vars
      PROVE  TypeOK' /\ HoldsPermit'
  BY <1>21 DEF vars
<1>22. QED
  BY <1>1, <1>2, <1>3, <1>4, <1>5, <1>6, <1>7, <1>8, <1>9, <1>10, <1>11,
     <1>12, <1>13, <1>14, <1>15, <1>16, <1>17, <1>18, <1>19, <1>20, <1>21
  DEF Next, WorkerStep, RecoveryStep

(* Every variable keeps its type, whatever calls, crashes and recovery     *)
(* passes overlap.                                                         *)
THEOREM TypeCorrect == Spec => []TypeOK
<1>1. Init => TypeOK /\ HoldsPermit
  BY ExecutorAssumption
  DEF Init, TypeOK, HoldsPermit, RowStatus, Settled, Location, ReqStatus, ExecutorAssumption
<1>2. TypeOK /\ HoldsPermit /\ [Next]_vars => TypeOK' /\ HoldsPermit'
  BY TypeStep
<1>3. QED
  BY <1>1, <1>2, PTL DEF Spec

(* A row is only inserted when neither the permit nor its action has one,  *)
(* so its worker is the only one (start_consumption).                      *)
LEMMA OwnerStep ==
  ASSUME TypeOK, HoldsPermit, OneOwner, [Next]_vars
  PROVE  OneOwner'
<1> USE DEF TypeOK, HoldsPermit, OneOwner, Owns, rows, workers, service, others
<1>1. ASSUME NEW w \in Worker, NEW p \in Permit, VerifyPermit(w, p)
      PROVE  OneOwner'
  BY <1>1 DEF VerifyPermit, Goto
<1>2. ASSUME NEW w \in Worker, StartConsumption(w)
      PROVE  OneOwner'
  BY <1>2 DEF StartConsumption, Goto, Siblings
<1>3. ASSUME NEW w \in Worker, StartRefused(w)
      PROVE  OneOwner'
  BY <1>3 DEF StartRefused, Leave, Goto
<1>4. ASSUME NEW w \in Worker, RejectUnsupported(w)
      PROVE  OneOwner'
  BY <1>4 DEF RejectUnsupported, Settling, Goto
<1>5. ASSUME NEW w \in Worker, RejectBinding(w)
      PROVE  OneOwner'
  BY <1>5 DEF RejectBinding, Settling, Goto
<1>6. ASSUME NEW w \in Worker, SendRequest(w)
      PROVE  OneOwner'
  BY <1>6 DEF SendRequest, Goto
<1>7. ASSUME NEW w \in Worker, TakeAnswer(w)
      PROVE  OneOwner'
  BY <1>7 DEF TakeAnswer, Settling, Goto
<1>8. ASSUME NEW w \in Worker, ReadState(w)
      PROVE  OneOwner'
  BY <1>8 DEF ReadState, Raise, Leave, Settling, Goto
<1>9. ASSUME NEW w \in Worker, WriteOutcome(w)
      PROVE  OneOwner'
  BY <1>9 DEF WriteOutcome, Leave, Goto, Settled
<1>10. ASSUME NEW w \in Worker, WriteRefused(w)
      PROVE  OneOwner'
  <2>1. CASE handling[w]
    BY <1>10, <2>1 DEF WriteRefused, Raise, Leave, Goto
  <2>2. CASE ~handling[w]
    BY <1>10, <2>2 DEF WriteRefused, Raise, Settling, Goto
  <2>3. QED
    BY <2>1, <2>2
<1>11. ASSUME NEW w \in Worker, LocalFault(w)
      PROVE  OneOwner'
  BY <1>11 DEF LocalFault, Raise, Leave, Settling, Goto
<1>12. ASSUME NEW w \in Worker, Crash(w)
      PROVE  OneOwner'
  BY <1>12 DEF Crash, Leave, Goto
<1>13. ASSUME NEW o \in Operator, ListAbandoned(o)
      PROVE  OneOwner'
  BY <1>13 DEF ListAbandoned
<1>14. ASSUME NEW o \in Operator, MarkAbandoned(o)
      PROVE  OneOwner'
  BY <1>14 DEF MarkAbandoned, Oldest
<1>15. ASSUME NEW o \in Operator, AbandonPass(o)
      PROVE  OneOwner'
  BY <1>15 DEF AbandonPass
<1>16. ASSUME NEW o \in Operator, RecoveryFails(o)
      PROVE  OneOwner'
  BY <1>16 DEF RecoveryFails
<1>17. ASSUME NEW p \in Permit, ApplyEffect(p)
      PROVE  OneOwner'
  BY <1>17 DEF ApplyEffect
<1>18. ASSUME NEW p \in Permit, RefuseEffect(p)
      PROVE  OneOwner'
  BY <1>18 DEF RefuseEffect
<1>19. ASSUME NEW p \in Permit, GateBlocks(p)
      PROVE  OneOwner'
  BY <1>19 DEF GateBlocks
<1>20. ASSUME Tick
      PROVE  OneOwner'
  BY <1>20 DEF Tick
<1>21. ASSUME UNCHANGED vars
      PROVE  OneOwner'
  BY <1>21 DEF vars
<1>22. QED
  BY <1>1, <1>2, <1>3, <1>4, <1>5, <1>6, <1>7, <1>8, <1>9, <1>10, <1>11,
     <1>12, <1>13, <1>14, <1>15, <1>16, <1>17, <1>18, <1>19, <1>20, <1>21
  DEF Next, WorkerStep, RecoveryStep

(* Only the worker that consumed a permit sends its request, and once.     *)
LEMMA RequestStep ==
  ASSUME TypeOK, HoldsPermit, OneOwner, RequestIsOwned, [Next]_vars
  PROVE  RequestIsOwned'
<1> USE DEF TypeOK, HoldsPermit, OneOwner, Owns, RequestIsOwned, rows, workers, service, others
<1>1. ASSUME NEW w \in Worker, NEW p \in Permit, VerifyPermit(w, p)
      PROVE  RequestIsOwned'
  BY <1>1 DEF VerifyPermit, Goto
<1>2. ASSUME NEW w \in Worker, StartConsumption(w)
      PROVE  RequestIsOwned'
  BY <1>2 DEF StartConsumption, Goto, Siblings
<1>3. ASSUME NEW w \in Worker, StartRefused(w)
      PROVE  RequestIsOwned'
  BY <1>3 DEF StartRefused, Leave, Goto
<1>4. ASSUME NEW w \in Worker, RejectUnsupported(w)
      PROVE  RequestIsOwned'
  BY <1>4 DEF RejectUnsupported, Settling, Goto
<1>5. ASSUME NEW w \in Worker, RejectBinding(w)
      PROVE  RequestIsOwned'
  BY <1>5 DEF RejectBinding, Settling, Goto
<1>6. ASSUME NEW w \in Worker, SendRequest(w)
      PROVE  RequestIsOwned'
  BY <1>6 DEF SendRequest, Goto
<1>7. ASSUME NEW w \in Worker, TakeAnswer(w)
      PROVE  RequestIsOwned'
  BY <1>7 DEF TakeAnswer, Settling, Goto
<1>8. ASSUME NEW w \in Worker, ReadState(w)
      PROVE  RequestIsOwned'
  BY <1>8 DEF ReadState, Raise, Leave, Settling, Goto
<1>9. ASSUME NEW w \in Worker, WriteOutcome(w)
      PROVE  RequestIsOwned'
  BY <1>9 DEF WriteOutcome, Leave, Goto, Settled
<1>10. ASSUME NEW w \in Worker, WriteRefused(w)
      PROVE  RequestIsOwned'
  BY <1>10 DEF WriteRefused, Raise, Leave, Settling, Goto
<1>11. ASSUME NEW w \in Worker, LocalFault(w)
      PROVE  RequestIsOwned'
  BY <1>11 DEF LocalFault, Raise, Leave, Settling, Goto
<1>12. ASSUME NEW w \in Worker, Crash(w)
      PROVE  RequestIsOwned'
  BY <1>12 DEF Crash, Leave, Goto
<1>13. ASSUME NEW o \in Operator, ListAbandoned(o)
      PROVE  RequestIsOwned'
  BY <1>13 DEF ListAbandoned
<1>14. ASSUME NEW o \in Operator, MarkAbandoned(o)
      PROVE  RequestIsOwned'
  BY <1>14 DEF MarkAbandoned, Oldest
<1>15. ASSUME NEW o \in Operator, AbandonPass(o)
      PROVE  RequestIsOwned'
  BY <1>15 DEF AbandonPass
<1>16. ASSUME NEW o \in Operator, RecoveryFails(o)
      PROVE  RequestIsOwned'
  BY <1>16 DEF RecoveryFails
<1>17. ASSUME NEW p \in Permit, ApplyEffect(p)
      PROVE  RequestIsOwned'
  BY <1>17 DEF ApplyEffect
<1>18. ASSUME NEW p \in Permit, RefuseEffect(p)
      PROVE  RequestIsOwned'
  BY <1>18 DEF RefuseEffect
<1>19. ASSUME NEW p \in Permit, GateBlocks(p)
      PROVE  RequestIsOwned'
  BY <1>19 DEF GateBlocks
<1>20. ASSUME Tick
      PROVE  RequestIsOwned'
  BY <1>20 DEF Tick
<1>21. ASSUME UNCHANGED vars
      PROVE  RequestIsOwned'
  BY <1>21 DEF vars
<1>22. QED
  BY <1>1, <1>2, <1>3, <1>4, <1>5, <1>6, <1>7, <1>8, <1>9, <1>10, <1>11,
     <1>12, <1>13, <1>14, <1>15, <1>16, <1>17, <1>18, <1>19, <1>20, <1>21
  DEF Next, WorkerStep, RecoveryStep

(* SUCCEEDED goes from an answer of the service to the row, by way of the  *)
(* verdict of one worker.                                                  *)
LEMMA SuccessStep ==
  ASSUME TypeOK, HoldsPermit, OneOwner, RequestIsOwned, SuccessIsEarned, [Next]_vars
  PROVE  SuccessIsEarned'
<1> USE DEF TypeOK, HoldsPermit, RequestIsOwned, SuccessIsEarned, rows, workers, service, others
<1>1. ASSUME NEW w \in Worker, NEW p \in Permit, VerifyPermit(w, p)
      PROVE  SuccessIsEarned'
  BY <1>1 DEF VerifyPermit, Goto
<1>2. ASSUME NEW w \in Worker, StartConsumption(w)
      PROVE  SuccessIsEarned'
  BY <1>2 DEF StartConsumption, Goto, Siblings
<1>3. ASSUME NEW w \in Worker, StartRefused(w)
      PROVE  SuccessIsEarned'
  BY <1>3 DEF StartRefused, Leave, Goto
<1>4. ASSUME NEW w \in Worker, RejectUnsupported(w)
      PROVE  SuccessIsEarned'
  BY <1>4 DEF RejectUnsupported, Settling, Goto
<1>5. ASSUME NEW w \in Worker, RejectBinding(w)
      PROVE  SuccessIsEarned'
  BY <1>5 DEF RejectBinding, Settling, Goto
<1>6. ASSUME NEW w \in Worker, SendRequest(w)
      PROVE  SuccessIsEarned'
  BY <1>6 DEF SendRequest, Goto
<1>7. ASSUME NEW w \in Worker, TakeAnswer(w)
      PROVE  SuccessIsEarned'
  <2>1. held[w] \in Permit /\ request[held[w]] \in ReqStatus
    BY <1>7 DEF TakeAnswer, TypeOK, HoldsPermit
  <2>2. PICK a \in AnswersFor(request[held[w]]) :
          LET s == Classify(Adapter, a) IN Settling(w, s, s = "UNKNOWN")
    BY <1>7 DEF TakeAnswer
  <2>3. Classify(Adapter, a) = "SUCCEEDED" => request[held[w]] = "applied"
    BY <2>1, AnswerLemma, ExecutorAssumption DEF ExecutorAssumption
  <2>4. QED
    BY <1>7, <2>1, <2>2, <2>3 DEF TakeAnswer, Settling, Goto
<1>8. ASSUME NEW w \in Worker, ReadState(w)
      PROVE  SuccessIsEarned'
  BY <1>8 DEF ReadState, Raise, Leave, Settling, Goto
<1>9. ASSUME NEW w \in Worker, WriteOutcome(w)
      PROVE  SuccessIsEarned'
  BY <1>9 DEF WriteOutcome, Leave, Goto, Settled
<1>10. ASSUME NEW w \in Worker, WriteRefused(w)
      PROVE  SuccessIsEarned'
  BY <1>10 DEF WriteRefused, Raise, Leave, Settling, Goto
<1>11. ASSUME NEW w \in Worker, LocalFault(w)
      PROVE  SuccessIsEarned'
  BY <1>11 DEF LocalFault, Raise, Leave, Settling, Goto
<1>12. ASSUME NEW w \in Worker, Crash(w)
      PROVE  SuccessIsEarned'
  BY <1>12 DEF Crash, Leave, Goto
<1>13. ASSUME NEW o \in Operator, ListAbandoned(o)
      PROVE  SuccessIsEarned'
  BY <1>13 DEF ListAbandoned
<1>14. ASSUME NEW o \in Operator, MarkAbandoned(o)
      PROVE  SuccessIsEarned'
  BY <1>14 DEF MarkAbandoned, Oldest
<1>15. ASSUME NEW o \in Operator, AbandonPass(o)
      PROVE  SuccessIsEarned'
  BY <1>15 DEF AbandonPass
<1>16. ASSUME NEW o \in Operator, RecoveryFails(o)
      PROVE  SuccessIsEarned'
  BY <1>16 DEF RecoveryFails
<1>17. ASSUME NEW p \in Permit, ApplyEffect(p)
      PROVE  SuccessIsEarned'
  BY <1>17 DEF ApplyEffect
<1>18. ASSUME NEW p \in Permit, RefuseEffect(p)
      PROVE  SuccessIsEarned'
  BY <1>18 DEF RefuseEffect
<1>19. ASSUME NEW p \in Permit, GateBlocks(p)
      PROVE  SuccessIsEarned'
  BY <1>19 DEF GateBlocks
<1>20. ASSUME Tick
      PROVE  SuccessIsEarned'
  BY <1>20 DEF Tick
<1>21. ASSUME UNCHANGED vars
      PROVE  SuccessIsEarned'
  BY <1>21 DEF vars
<1>22. QED
  BY <1>1, <1>2, <1>3, <1>4, <1>5, <1>6, <1>7, <1>8, <1>9, <1>10, <1>11,
     <1>12, <1>13, <1>14, <1>15, <1>16, <1>17, <1>18, <1>19, <1>20, <1>21
  DEF Next, WorkerStep, RecoveryStep

(* The invariant of every execution.                                       *)
THEOREM ConsumptionInvariant == Spec => []ConsumptionInv
<1>1. Init => ConsumptionInv
  BY ExecutorAssumption
  DEF Init, ConsumptionInv, TypeOK, HoldsPermit, OneOwner, Owns, RequestIsOwned, SuccessIsEarned,
      RowStatus, Settled, Location, ReqStatus, ExecutorAssumption
<1>2. ConsumptionInv /\ [Next]_vars => ConsumptionInv'
  BY TypeStep, OwnerStep, RequestStep, SuccessStep DEF ConsumptionInv
<1>3. QED
  BY <1>1, <1>2, PTL DEF Spec

(* No action has its effect twice, for any number of workers, permits,     *)
(* crashes, time-outs and recovery passes: the row's unique keys come      *)
(* before the one request, which its worker never repeats.                 *)
THEOREM AtMostOnce == Spec => []AtMostOneEffect
<1>1. ConsumptionInv => AtMostOneEffect
  BY DEF ConsumptionInv, OneOwner, RequestIsOwned, AtMostOneEffect, Siblings
<1>2. QED
  BY <1>1, ConsumptionInvariant, PTL

(* A stored SUCCEEDED is true of the world.                                *)
THEOREM SuccessIsTrue == Spec => []SucceededIsTrue
<1>1. ConsumptionInv => SucceededIsTrue
  BY DEF ConsumptionInv, RequestIsOwned, SuccessIsEarned, SucceededIsTrue
<1>2. QED
  BY <1>1, ConsumptionInvariant, PTL

-----------------------------------------------------------------------------

(* A receipt is handed out with the UPDATE that settles the row.           *)
LEMMA ReceiptStep ==
  ASSUME TypeOK, HoldsPermit, ReceiptsMatchRow, [Next]_vars
  PROVE  ReceiptsMatchRow'
<1> USE DEF TypeOK, HoldsPermit, ReceiptsMatchRow, rows, workers, service, others
<1>1. ASSUME NEW w \in Worker, NEW p \in Permit, VerifyPermit(w, p)
      PROVE  ReceiptsMatchRow'
  BY <1>1 DEF VerifyPermit, Goto
<1>2. ASSUME NEW w \in Worker, StartConsumption(w)
      PROVE  ReceiptsMatchRow'
  BY <1>2 DEF StartConsumption, Siblings, Settled
<1>3. ASSUME NEW w \in Worker, StartRefused(w)
      PROVE  ReceiptsMatchRow'
  BY <1>3 DEF StartRefused, Leave, Goto
<1>4. ASSUME NEW w \in Worker, RejectUnsupported(w)
      PROVE  ReceiptsMatchRow'
  BY <1>4 DEF RejectUnsupported, Settling, Goto
<1>5. ASSUME NEW w \in Worker, RejectBinding(w)
      PROVE  ReceiptsMatchRow'
  BY <1>5 DEF RejectBinding, Settling, Goto
<1>6. ASSUME NEW w \in Worker, SendRequest(w)
      PROVE  ReceiptsMatchRow'
  BY <1>6 DEF SendRequest, Goto
<1>7. ASSUME NEW w \in Worker, TakeAnswer(w)
      PROVE  ReceiptsMatchRow'
  BY <1>7 DEF TakeAnswer, Settling, Goto
<1>8. ASSUME NEW w \in Worker, ReadState(w)
      PROVE  ReceiptsMatchRow'
  BY <1>8 DEF ReadState, Raise, Leave, Settling, Goto
<1>9. ASSUME NEW w \in Worker, WriteOutcome(w)
      PROVE  ReceiptsMatchRow'
  BY <1>9 DEF WriteOutcome, Leave, Goto, Settled
<1>10. ASSUME NEW w \in Worker, WriteRefused(w)
      PROVE  ReceiptsMatchRow'
  BY <1>10 DEF WriteRefused, Raise, Leave, Settling, Goto
<1>11. ASSUME NEW w \in Worker, LocalFault(w)
      PROVE  ReceiptsMatchRow'
  BY <1>11 DEF LocalFault, Raise, Leave, Settling, Goto
<1>12. ASSUME NEW w \in Worker, Crash(w)
      PROVE  ReceiptsMatchRow'
  BY <1>12 DEF Crash, Leave, Goto
<1>13. ASSUME NEW o \in Operator, ListAbandoned(o)
      PROVE  ReceiptsMatchRow'
  BY <1>13 DEF ListAbandoned
<1>14. ASSUME NEW o \in Operator, MarkAbandoned(o)
      PROVE  ReceiptsMatchRow'
  BY <1>14 DEF MarkAbandoned, Oldest, Settled
<1>15. ASSUME NEW o \in Operator, AbandonPass(o)
      PROVE  ReceiptsMatchRow'
  BY <1>15 DEF AbandonPass
<1>16. ASSUME NEW o \in Operator, RecoveryFails(o)
      PROVE  ReceiptsMatchRow'
  BY <1>16 DEF RecoveryFails
<1>17. ASSUME NEW p \in Permit, ApplyEffect(p)
      PROVE  ReceiptsMatchRow'
  BY <1>17 DEF ApplyEffect
<1>18. ASSUME NEW p \in Permit, RefuseEffect(p)
      PROVE  ReceiptsMatchRow'
  BY <1>18 DEF RefuseEffect
<1>19. ASSUME NEW p \in Permit, GateBlocks(p)
      PROVE  ReceiptsMatchRow'
  BY <1>19 DEF GateBlocks
<1>20. ASSUME Tick
      PROVE  ReceiptsMatchRow'
  BY <1>20 DEF Tick
<1>21. ASSUME UNCHANGED vars
      PROVE  ReceiptsMatchRow'
  BY <1>21 DEF vars
<1>22. QED
  BY <1>1, <1>2, <1>3, <1>4, <1>5, <1>6, <1>7, <1>8, <1>9, <1>10, <1>11,
     <1>12, <1>13, <1>14, <1>15, <1>16, <1>17, <1>18, <1>19, <1>20, <1>21
  DEF Next, WorkerStep, RecoveryStep

(* A caller's receipt and the row agree for ever.                          *)
THEOREM ReceiptsAgree == Spec => []ReceiptsMatchRow
<1>1. Init => TypeOK /\ HoldsPermit /\ ReceiptsMatchRow
  BY ExecutorAssumption
  DEF Init, TypeOK, HoldsPermit, ReceiptsMatchRow, RowStatus, Settled, Location, ReqStatus,
      ExecutorAssumption
<1>2. TypeOK /\ HoldsPermit /\ ReceiptsMatchRow /\ [Next]_vars
        => TypeOK' /\ HoldsPermit' /\ ReceiptsMatchRow'
  BY TypeStep, ReceiptStep
<1>3. QED
  BY <1>1, <1>2, PTL DEF Spec

(* What a step does to one row. *)
RowIsFinal(p) ==
  /\ row[p] \in Settled => row'[p] = row[p]
  /\ row[p] # "ABSENT" => row'[p] # "ABSENT" /\ startedAt'[p] = startedAt[p]

(* Every UPDATE asks for a STARTED row, every INSERT for no row.           *)
LEMMA FinalStep ==
  ASSUME TypeOK, HoldsPermit, NEW q \in Permit, [Next]_vars
  PROVE  RowIsFinal(q)
<1> USE DEF TypeOK, HoldsPermit, RowIsFinal, Settled, rows, workers, service, others
<1>1. ASSUME NEW w \in Worker, NEW p \in Permit, VerifyPermit(w, p)
      PROVE  RowIsFinal(q)
  BY <1>1 DEF VerifyPermit, Goto
<1>2. ASSUME NEW w \in Worker, StartConsumption(w)
      PROVE  RowIsFinal(q)
  BY <1>2 DEF StartConsumption, Goto, Siblings
<1>3. ASSUME NEW w \in Worker, StartRefused(w)
      PROVE  RowIsFinal(q)
  BY <1>3 DEF StartRefused, Leave, Goto
<1>4. ASSUME NEW w \in Worker, RejectUnsupported(w)
      PROVE  RowIsFinal(q)
  BY <1>4 DEF RejectUnsupported, Settling, Goto
<1>5. ASSUME NEW w \in Worker, RejectBinding(w)
      PROVE  RowIsFinal(q)
  BY <1>5 DEF RejectBinding, Settling, Goto
<1>6. ASSUME NEW w \in Worker, SendRequest(w)
      PROVE  RowIsFinal(q)
  BY <1>6 DEF SendRequest, Goto
<1>7. ASSUME NEW w \in Worker, TakeAnswer(w)
      PROVE  RowIsFinal(q)
  BY <1>7 DEF TakeAnswer, Settling, Goto
<1>8. ASSUME NEW w \in Worker, ReadState(w)
      PROVE  RowIsFinal(q)
  BY <1>8 DEF ReadState, Raise, Leave, Settling, Goto
<1>9. ASSUME NEW w \in Worker, WriteOutcome(w)
      PROVE  RowIsFinal(q)
  BY <1>9 DEF WriteOutcome, Leave, Goto, Settled
<1>10. ASSUME NEW w \in Worker, WriteRefused(w)
      PROVE  RowIsFinal(q)
  BY <1>10 DEF WriteRefused, Raise, Leave, Settling, Goto
<1>11. ASSUME NEW w \in Worker, LocalFault(w)
      PROVE  RowIsFinal(q)
  BY <1>11 DEF LocalFault, Raise, Leave, Settling, Goto
<1>12. ASSUME NEW w \in Worker, Crash(w)
      PROVE  RowIsFinal(q)
  BY <1>12 DEF Crash, Leave, Goto
<1>13. ASSUME NEW o \in Operator, ListAbandoned(o)
      PROVE  RowIsFinal(q)
  BY <1>13 DEF ListAbandoned
<1>14. ASSUME NEW o \in Operator, MarkAbandoned(o)
      PROVE  RowIsFinal(q)
  BY <1>14 DEF MarkAbandoned, Oldest
<1>15. ASSUME NEW o \in Operator, AbandonPass(o)
      PROVE  RowIsFinal(q)
  BY <1>15 DEF AbandonPass
<1>16. ASSUME NEW o \in Operator, RecoveryFails(o)
      PROVE  RowIsFinal(q)
  BY <1>16 DEF RecoveryFails
<1>17. ASSUME NEW p \in Permit, ApplyEffect(p)
      PROVE  RowIsFinal(q)
  BY <1>17 DEF ApplyEffect
<1>18. ASSUME NEW p \in Permit, RefuseEffect(p)
      PROVE  RowIsFinal(q)
  BY <1>18 DEF RefuseEffect
<1>19. ASSUME NEW p \in Permit, GateBlocks(p)
      PROVE  RowIsFinal(q)
  BY <1>19 DEF GateBlocks
<1>20. ASSUME Tick
      PROVE  RowIsFinal(q)
  BY <1>20 DEF Tick
<1>21. ASSUME UNCHANGED vars
      PROVE  RowIsFinal(q)
  BY <1>21 DEF vars
<1>22. QED
  BY <1>1, <1>2, <1>3, <1>4, <1>5, <1>6, <1>7, <1>8, <1>9, <1>10, <1>11,
     <1>12, <1>13, <1>14, <1>15, <1>16, <1>17, <1>18, <1>19, <1>20, <1>21
  DEF Next, WorkerStep, RecoveryStep

(* A settled execution keeps its status, a started one its row.            *)
THEOREM SettledForGood == Spec => SettledIsFinal
<1>1. Init => TypeOK /\ HoldsPermit
  BY ExecutorAssumption
  DEF Init, TypeOK, HoldsPermit, RowStatus, Settled, Location, ReqStatus, ExecutorAssumption
<1>2. TypeOK /\ HoldsPermit /\ [Next]_vars => TypeOK' /\ HoldsPermit'
  BY TypeStep
<1>3. TypeOK /\ HoldsPermit /\ [Next]_vars
        => [\A p \in Permit :
              /\ row[p] \in Settled => row'[p] = row[p]
              /\ row[p] # "ABSENT" => row'[p] # "ABSENT" /\ startedAt'[p] = startedAt[p]]_vars
  BY FinalStep DEF RowIsFinal
<1>4. QED
  BY <1>1, <1>2, <1>3, PTL DEF Spec, SettledIsFinal

(* Only VerifyPermit takes a permit up, and it refuses a dead one.         *)
LEMMA DeadStep ==
  ASSUME TypeOK, HoldsPermit, NEW q \in Permit, Dead(q), [Next]_vars
  PROVE  Dead(q)'
<1> USE DEF TypeOK, HoldsPermit, Dead, rows, workers, service, others
<1>0. NoPermit # q /\ ExpiresAt[q] \in Nat
  BY ExecutorAssumption DEF ExecutorAssumption
<1>1. ASSUME NEW w \in Worker, NEW p \in Permit, VerifyPermit(w, p)
      PROVE  Dead(q)'
  BY <1>0, <1>1 DEF VerifyPermit, Goto
<1>2. ASSUME NEW w \in Worker, StartConsumption(w)
      PROVE  Dead(q)'
  BY <1>2 DEF StartConsumption, Goto, Siblings
<1>3. ASSUME NEW w \in Worker, StartRefused(w)
      PROVE  Dead(q)'
  BY <1>0, <1>3 DEF StartRefused, Leave, Goto
<1>4. ASSUME NEW w \in Worker, RejectUnsupported(w)
      PROVE  Dead(q)'
  BY <1>4 DEF RejectUnsupported, Settling, Goto
<1>5. ASSUME NEW w \in Worker, RejectBinding(w)
      PROVE  Dead(q)'
  BY <1>5 DEF RejectBinding, Settling, Goto
<1>6. ASSUME NEW w \in Worker, SendRequest(w)
      PROVE  Dead(q)'
  BY <1>6 DEF SendRequest, Goto
<1>7. ASSUME NEW w \in Worker, TakeAnswer(w)
      PROVE  Dead(q)'
  BY <1>7 DEF TakeAnswer, Settling, Goto
<1>8. ASSUME NEW w \in Worker, ReadState(w)
      PROVE  Dead(q)'
  BY <1>0, <1>8 DEF ReadState, Raise, Leave, Settling, Goto
<1>9. ASSUME NEW w \in Worker, WriteOutcome(w)
      PROVE  Dead(q)'
  BY <1>0, <1>9 DEF WriteOutcome, Leave, Goto, Settled
<1>10. ASSUME NEW w \in Worker, WriteRefused(w)
      PROVE  Dead(q)'
  BY <1>0, <1>10 DEF WriteRefused, Raise, Leave, Settling, Goto
<1>11. ASSUME NEW w \in Worker, LocalFault(w)
      PROVE  Dead(q)'
  BY <1>0, <1>11 DEF LocalFault, Raise, Leave, Settling, Goto
<1>12. ASSUME NEW w \in Worker, Crash(w)
      PROVE  Dead(q)'
  BY <1>0, <1>12 DEF Crash, Leave, Goto
<1>13. ASSUME NEW o \in Operator, ListAbandoned(o)
      PROVE  Dead(q)'
  BY <1>13 DEF ListAbandoned
<1>14. ASSUME NEW o \in Operator, MarkAbandoned(o)
      PROVE  Dead(q)'
  BY <1>14 DEF MarkAbandoned, Oldest
<1>15. ASSUME NEW o \in Operator, AbandonPass(o)
      PROVE  Dead(q)'
  BY <1>15 DEF AbandonPass
<1>16. ASSUME NEW o \in Operator, RecoveryFails(o)
      PROVE  Dead(q)'
  BY <1>16 DEF RecoveryFails
<1>17. ASSUME NEW p \in Permit, ApplyEffect(p)
      PROVE  Dead(q)'
  BY <1>17 DEF ApplyEffect
<1>18. ASSUME NEW p \in Permit, RefuseEffect(p)
      PROVE  Dead(q)'
  BY <1>18 DEF RefuseEffect
<1>19. ASSUME NEW p \in Permit, GateBlocks(p)
      PROVE  Dead(q)'
  BY <1>19 DEF GateBlocks
<1>20. ASSUME Tick
      PROVE  Dead(q)'
  BY <1>0, <1>20 DEF Tick
<1>21. ASSUME UNCHANGED vars
      PROVE  Dead(q)'
  BY <1>21 DEF vars
<1>22. QED
  BY <1>1, <1>2, <1>3, <1>4, <1>5, <1>6, <1>7, <1>8, <1>9, <1>10, <1>11,
     <1>12, <1>13, <1>14, <1>15, <1>16, <1>17, <1>18, <1>19, <1>20, <1>21
  DEF Next, WorkerStep, RecoveryStep

(* An expired or blocked permit that nobody has verified is never          *)
(* consumed.                                                               *)
THEOREM DeadForGood == Spec => DeadStaysDead
<1>1. Init => TypeOK /\ HoldsPermit
  BY ExecutorAssumption
  DEF Init, TypeOK, HoldsPermit, RowStatus, Settled, Location, ReqStatus, ExecutorAssumption
<1>2. TypeOK /\ HoldsPermit /\ [Next]_vars => TypeOK' /\ HoldsPermit'
  BY TypeStep
<1>3. TypeOK /\ HoldsPermit /\ [Next]_vars => [\A p \in Permit : Dead(p) => Dead(p)']_vars
  BY DeadStep
<1>4. QED
  BY <1>1, <1>2, <1>3, PTL DEF Spec, DeadStaysDead

-----------------------------------------------------------------------------

(* Every handler, seen from outside: the insert consumes, the service has  *)
(* its effect, the two UPDATEs settle, and nothing else shows.             *)
LEMMA VisibleStep ==
  ASSUME ConsumptionInv, [Next]_vars
  PROVE  [C!Next]_(C!vars)
<1> USE DEF rows, workers, service, others, C!vars
<1>1. ASSUME NEW w \in Worker, NEW p \in Permit, VerifyPermit(w, p)
      PROVE  [C!Next]_(C!vars)
  BY <1>1 DEF VerifyPermit, Goto
<1>2. ASSUME NEW w \in Worker, StartConsumption(w)
      PROVE  [C!Next]_(C!vars)
  <2>1. C!Consume(held[w])
    BY <1>2 DEF StartConsumption, Siblings, C!Consume, C!Siblings
  <2>2. held[w] \in Permit
    BY <1>2 DEF ConsumptionInv, HoldsPermit, StartConsumption
  <2>3. QED
    BY <2>1, <2>2 DEF C!Next
<1>3. ASSUME NEW w \in Worker, StartRefused(w)
      PROVE  [C!Next]_(C!vars)
  BY <1>3 DEF StartRefused, Leave, Goto
<1>4. ASSUME NEW w \in Worker, RejectUnsupported(w)
      PROVE  [C!Next]_(C!vars)
  BY <1>4 DEF RejectUnsupported, Settling, Goto
<1>5. ASSUME NEW w \in Worker, RejectBinding(w)
      PROVE  [C!Next]_(C!vars)
  BY <1>5 DEF RejectBinding, Settling, Goto
<1>6. ASSUME NEW w \in Worker, SendRequest(w)
      PROVE  [C!Next]_(C!vars)
  BY <1>6 DEF SendRequest, Goto
<1>7. ASSUME NEW w \in Worker, TakeAnswer(w)
      PROVE  [C!Next]_(C!vars)
  BY <1>7 DEF TakeAnswer, Settling, Goto
<1>8. ASSUME NEW w \in Worker, ReadState(w)
      PROVE  [C!Next]_(C!vars)
  BY <1>8 DEF ReadState, Raise, Leave, Settling, Goto
<1>9. ASSUME NEW w \in Worker, WriteOutcome(w)
      PROVE  [C!Next]_(C!vars)
  <2>1. held[w] \in Permit /\ verdict[w] \in C!Settled
    BY <1>9 DEF ConsumptionInv, HoldsPermit, TypeOK, WriteOutcome, Settled, C!Settled
  <2>2. verdict[w] = "SUCCEEDED" => effects[held[w]] = 1
    BY <1>9, <2>1 DEF ConsumptionInv, RequestIsOwned, SuccessIsEarned, WriteOutcome
  <2>3. C!Settle(held[w], verdict[w])
    BY <1>9, <2>2 DEF WriteOutcome, C!Settle
  <2>4. QED
    BY <2>1, <2>3 DEF C!Next
<1>10. ASSUME NEW w \in Worker, WriteRefused(w)
      PROVE  [C!Next]_(C!vars)
  BY <1>10 DEF WriteRefused, Raise, Leave, Settling, Goto
<1>11. ASSUME NEW w \in Worker, LocalFault(w)
      PROVE  [C!Next]_(C!vars)
  BY <1>11 DEF LocalFault, Raise, Leave, Settling, Goto
<1>12. ASSUME NEW w \in Worker, Crash(w)
      PROVE  [C!Next]_(C!vars)
  BY <1>12 DEF Crash, Leave, Goto
<1>13. ASSUME NEW o \in Operator, ListAbandoned(o)
      PROVE  [C!Next]_(C!vars)
  BY <1>13 DEF ListAbandoned
<1>14. ASSUME NEW o \in Operator, MarkAbandoned(o)
      PROVE  [C!Next]_(C!vars)
  <2>1. PICK p \in Oldest(pending[o]) :
          /\ row[p] = "STARTED"
          /\ row' = [row EXCEPT ![p] = "UNKNOWN"]
          /\ UNCHANGED service
    BY <1>14 DEF MarkAbandoned
  <2>2. p \in Permit
    BY <2>1 DEF ConsumptionInv, TypeOK, Oldest
  <2>3. C!Settle(p, "UNKNOWN") /\ "UNKNOWN" \in C!Settled
    BY <2>1 DEF C!Settle, C!Settled
  <2>4. QED
    BY <2>2, <2>3 DEF C!Next
<1>15. ASSUME NEW o \in Operator, AbandonPass(o)
      PROVE  [C!Next]_(C!vars)
  BY <1>15 DEF AbandonPass
<1>16. ASSUME NEW o \in Operator, RecoveryFails(o)
      PROVE  [C!Next]_(C!vars)
  BY <1>16 DEF RecoveryFails
<1>17. ASSUME NEW p \in Permit, ApplyEffect(p)
      PROVE  [C!Next]_(C!vars)
  <2>1. row[p] # "ABSENT" /\ effects[p] = 0
    BY <1>17 DEF ConsumptionInv, RequestIsOwned, ApplyEffect
  <2>2. C!Effect(p)
    BY <1>17, <2>1 DEF ConsumptionInv, TypeOK, ApplyEffect, C!Effect
  <2>3. QED
    BY <2>2 DEF C!Next
<1>18. ASSUME NEW p \in Permit, RefuseEffect(p)
      PROVE  [C!Next]_(C!vars)
  BY <1>18 DEF RefuseEffect
<1>19. ASSUME NEW p \in Permit, GateBlocks(p)
      PROVE  [C!Next]_(C!vars)
  BY <1>19 DEF GateBlocks
<1>20. ASSUME Tick
      PROVE  [C!Next]_(C!vars)
  BY <1>20 DEF Tick
<1>21. ASSUME UNCHANGED vars
      PROVE  [C!Next]_(C!vars)
  BY <1>21 DEF vars
<1>22. QED
  BY <1>1, <1>2, <1>3, <1>4, <1>5, <1>6, <1>7, <1>8, <1>9, <1>10, <1>11,
     <1>12, <1>13, <1>14, <1>15, <1>16, <1>17, <1>18, <1>19, <1>20, <1>21
  DEF Next, WorkerStep, RecoveryStep

(* The executor keeps the promise of Consumption.                          *)
THEOREM ImplementsConsumption == Spec => ConsumptionSpec
<1>1. Init => C!Init
  BY DEF Init, C!Init
<1>2. ConsumptionInv /\ [Next]_vars => [C!Next]_(C!vars)
  BY VisibleStep
<1>3. QED
  BY <1>1, <1>2, ConsumptionInvariant, PTL DEF Spec, ConsumptionSpec, C!Spec

-----------------------------------------------------------------------------

(* GitHub's adapter says FAILED only before it sends or after a refusal,   *)
(* and a worker whose row is still STARTED has not been in a handler.      *)
LEMMA FailureStep ==
  ASSUME Adapter = "github", ~LocalFaults,
         TypeOK, HoldsPermit, OneOwner, RequestIsOwned, FailureIsEarned, [Next]_vars
  PROVE  FailureIsEarned'
<1> USE DEF TypeOK, HoldsPermit, OneOwner, Owns, RequestIsOwned, FailureIsEarned,
           rows, workers, service, others
<1>1. ASSUME NEW w \in Worker, NEW p \in Permit, VerifyPermit(w, p)
      PROVE  FailureIsEarned'
  BY <1>1 DEF VerifyPermit, Goto
<1>2. ASSUME NEW w \in Worker, StartConsumption(w)
      PROVE  FailureIsEarned'
  BY <1>2 DEF StartConsumption, Goto, Siblings
<1>3. ASSUME NEW w \in Worker, StartRefused(w)
      PROVE  FailureIsEarned'
  BY <1>3 DEF StartRefused, Leave, Goto
<1>4. ASSUME NEW w \in Worker, RejectUnsupported(w)
      PROVE  FailureIsEarned'
  BY <1>4 DEF RejectUnsupported, Settling, Goto
<1>5. ASSUME NEW w \in Worker, RejectBinding(w)
      PROVE  FailureIsEarned'
  BY <1>5 DEF RejectBinding, Settling, Goto
<1>6. ASSUME NEW w \in Worker, SendRequest(w)
      PROVE  FailureIsEarned'
  BY <1>6 DEF SendRequest, Goto
<1>7. ASSUME NEW w \in Worker, TakeAnswer(w)
      PROVE  FailureIsEarned'
  <2>1. held[w] \in Permit /\ request[held[w]] \in ReqStatus
    BY <1>7 DEF TakeAnswer, TypeOK, HoldsPermit
  <2>2. PICK a \in AnswersFor(request[held[w]]) :
          LET s == Classify(Adapter, a) IN Settling(w, s, s = "UNKNOWN")
    BY <1>7 DEF TakeAnswer
  <2>3. Classify(Adapter, a) = "FAILED" => request[held[w]] = "refused"
    BY <2>1, AnswerLemma, ExecutorAssumption DEF ExecutorAssumption
  <2>4. QED
    BY <1>7, <2>1, <2>2, <2>3 DEF TakeAnswer, Settling, Goto
<1>8. ASSUME NEW w \in Worker, ReadState(w)
      PROVE  FailureIsEarned'
  BY <1>8 DEF ReadState, Raise, Leave, Settling, Goto
<1>9. ASSUME NEW w \in Worker, WriteOutcome(w)
      PROVE  FailureIsEarned'
  BY <1>9 DEF WriteOutcome, Leave, Goto, Settled
<1>10. ASSUME NEW w \in Worker, WriteRefused(w)
      PROVE  FailureIsEarned'
  BY <1>10 DEF WriteRefused, Raise, Leave, Settling, Goto
<1>11. ASSUME NEW w \in Worker, LocalFault(w)
      PROVE  FailureIsEarned'
  BY <1>11 DEF LocalFault, Raise, Leave, Settling, Goto
<1>12. ASSUME NEW w \in Worker, Crash(w)
      PROVE  FailureIsEarned'
  BY <1>12 DEF Crash, Leave, Goto
<1>13. ASSUME NEW o \in Operator, ListAbandoned(o)
      PROVE  FailureIsEarned'
  BY <1>13 DEF ListAbandoned
<1>14. ASSUME NEW o \in Operator, MarkAbandoned(o)
      PROVE  FailureIsEarned'
  BY <1>14 DEF MarkAbandoned, Oldest
<1>15. ASSUME NEW o \in Operator, AbandonPass(o)
      PROVE  FailureIsEarned'
  BY <1>15 DEF AbandonPass
<1>16. ASSUME NEW o \in Operator, RecoveryFails(o)
      PROVE  FailureIsEarned'
  BY <1>16 DEF RecoveryFails
<1>17. ASSUME NEW p \in Permit, ApplyEffect(p)
      PROVE  FailureIsEarned'
  BY <1>17 DEF ApplyEffect
<1>18. ASSUME NEW p \in Permit, RefuseEffect(p)
      PROVE  FailureIsEarned'
  BY <1>18 DEF RefuseEffect
<1>19. ASSUME NEW p \in Permit, GateBlocks(p)
      PROVE  FailureIsEarned'
  BY <1>19 DEF GateBlocks
<1>20. ASSUME Tick
      PROVE  FailureIsEarned'
  BY <1>20 DEF Tick
<1>21. ASSUME UNCHANGED vars
      PROVE  FailureIsEarned'
  BY <1>21 DEF vars
<1>22. QED
  BY <1>1, <1>2, <1>3, <1>4, <1>5, <1>6, <1>7, <1>8, <1>9, <1>10, <1>11,
     <1>12, <1>13, <1>14, <1>15, <1>16, <1>17, <1>18, <1>19, <1>20, <1>21
  DEF Next, WorkerStep, RecoveryStep

LEMMA FailureInvHolds ==
  ASSUME Adapter = "github", ~LocalFaults
  PROVE  Spec => [](ConsumptionInv /\ FailureIsEarned)
<1>1. Init => ConsumptionInv /\ FailureIsEarned
  BY ExecutorAssumption
  DEF Init, ConsumptionInv, TypeOK, HoldsPermit, OneOwner, Owns, RequestIsOwned, SuccessIsEarned,
      FailureIsEarned, RowStatus, Settled, Location, ReqStatus, ExecutorAssumption
<1>2. ConsumptionInv /\ FailureIsEarned /\ [Next]_vars => ConsumptionInv' /\ FailureIsEarned'
  BY TypeStep, OwnerStep, RequestStep, SuccessStep, FailureStep DEF ConsumptionInv
<1>3. QED
  BY <1>1, <1>2, PTL DEF Spec

(* With the GitHub adapter, and where signing and the database do not fail *)
(* after the consumption, a worker that is about to record FAILED, and a   *)
(* row that says so, belong to a request that will not be applied.         *)
THEOREM GitHubFailureIsEarned ==
  ASSUME Adapter = "github", ~LocalFaults
  PROVE  Spec => []FailureIsEarned
BY FailureInvHolds, PTL

(* Then a FAILED row says that the effect has not happened and will not.   *)
THEOREM GitHubFailureIsTrue ==
  ASSUME Adapter = "github", ~LocalFaults
  PROVE  Spec => []FailedIsTrue
<1>1. ConsumptionInv /\ FailureIsEarned => FailedIsTrue
  BY DEF ConsumptionInv, RequestIsOwned, FailureIsEarned, FailedIsTrue
<1>2. QED
  BY <1>1, FailureInvHolds, PTL
=============================================================================
