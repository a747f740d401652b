------------------------ MODULE Idempotency_proofs ------------------------
(***************************************************************************)
(* Proofs about Idempotency for every set of callers, keys and payloads,   *)
(* every assignment of keys and payloads to callers, and every poll bound. *)
(*                                                                         *)
(* AtMostOnce is not inductive: a step that completes a second caller of a *)
(* key must be impossible.  The strengthening is ClaimHeld: while a caller *)
(* is between its claim and its finalize, its key's record is PENDING with *)
(* that caller's fingerprint, and no other caller of the key is there.     *)
(***************************************************************************)
EXTENDS Idempotency, TLAPS

ClaimHeld ==
    \A c \in Callers : pc[c] \in Owning =>
        /\ Rec(c).status = "PENDING"
        /\ FingerprintMatches(c)
        /\ \A d \in Callers : pc[d] \in Owning /\ KeyOf[d] = KeyOf[c] => d = c

FingerprintKept ==
    \A k \in Keys : record[k].status = "ABSENT" <=> record[k].fingerprint = <<>>

ResponseIsTheRow ==
    \A k \in Keys : record[k].status = "COMPLETED" =>
        record[k].response = record[k].fingerprint

IInv ==
    /\ TypeOK
    /\ ClaimHeld
    /\ FingerprintKept
    /\ ResponseIsTheRow
    /\ EffectIffCompleted
    /\ AnswerIsTheEffect

USE KeyOfAssumption, PayloadOfAssumption, PollAttemptsAssumption

(***************************************************************************)
(* The transaction steps, by what they do to the database: only a claim, a *)
(* completion and a failure write, and each starts from a record it may    *)
(* write over.                                                             *)
(***************************************************************************)
LocalStep(c) ==
    \/ Call(c) \/ ClaimConflict(c) \/ Operate(c) \/ OperationRaises(c)
    \/ FlushFails(c) \/ Replay(c) \/ ReplayRefused(c) \/ Poll(c) \/ Crash(c)

LEMMA NextCases ==
    ASSUME NEW c \in Callers,
           Call(c) \/ Step(c) \/ OperationRaises(c) \/ FlushFails(c) \/ Crash(c)
    PROVE  Claim(c) \/ Complete(c) \/ Fail(c) \/ LocalStep(c)
BY DEF Step, LocalStep

LEMMA InitIInv == Init => IInv
BY DEF Init, IInv, TypeOK, ClaimHeld, FingerprintKept, ResponseIsTheRow,
       EffectIffCompleted, AnswerIsTheEffect, Record, NoRecord, Statuses,
       Nullable, Locations, Owning, Ended

LEMMA NextRead ==
    \A n \in 0 .. PollAttempts - 1 :
        n # PollAttempts - 1 => n + 1 \in 0 .. PollAttempts - 1
OBVIOUS

LEMMA Singleton == Len(<<>>) = 0 /\ \A x : <<x>> # <<>> /\ Len(<<x>>) = 1
<1>1. \A x : Len(<<x>>) = 1
  OBVIOUS
<1>2. Len(<<>>) = 0
  OBVIOUS
<1>3. QED
  BY <1>1, <1>2

\* The type invariant is kept by every step on its own.
LEMMA TypeStep == TypeOK /\ [Next]_vars => TypeOK'
<1> SUFFICES ASSUME TypeOK, [Next]_vars PROVE TypeOK'
  OBVIOUS
<1> USE DEF TypeOK, Locations, Owning, Ended, Nullable
<1>1. CASE UNCHANGED vars
  BY <1>1 DEF vars
<1>2. ASSUME NEW c \in Callers, Call(c) PROVE TypeOK'
  BY <1>2 DEF Call
<1>3. ASSUME NEW c \in Callers, Claim(c) PROVE TypeOK'
  BY <1>3 DEF Claim, ClaimWhen, Goto, Record, Statuses
<1>4. ASSUME NEW c \in Callers, ClaimConflict(c) PROVE TypeOK'
  BY <1>4 DEF ClaimConflict, Goto
<1>5. ASSUME NEW c \in Callers, Operate(c) PROVE TypeOK'
  BY <1>5 DEF Operate, Goto
<1>6. ASSUME NEW c \in Callers, OperationRaises(c) \/ FlushFails(c) \/ Crash(c)
      PROVE  TypeOK'
  BY <1>6 DEF OperationRaises, FlushFails, Crash, Goto
<1>7. ASSUME NEW c \in Callers, Complete(c) PROVE TypeOK'
  <2>1. <<PayloadOf[c]>> \in Nullable(Payloads) /\ KeyOf[c] \in Keys
    OBVIOUS
  <2>2. record' \in [Keys -> Record]
    <3> HIDE DEF Nullable
    <3>1. \A r \in Record : [r EXCEPT !.status = "COMPLETED",
                                     !.response = <<PayloadOf[c]>>] \in Record
      BY <2>1 DEF Record, Statuses
    <3>2. record' = [record EXCEPT ![KeyOf[c]] =
                        [@ EXCEPT !.status = "COMPLETED",
                                  !.response = <<PayloadOf[c]>>]]
      BY <1>7, <2>1 DEF Complete, Record
    <3>3. QED
      BY <2>1, <3>1, <3>2
  <2>3. effects' \in [Keys -> Seq(Payloads)]
    BY <1>7 DEF Complete
  <2>4. pc' \in [Callers -> Locations]
    BY <1>7 DEF Complete
  <2>5. answer' \in [Callers -> Nullable(Payloads)]
    <3> HIDE DEF Nullable
    <3>1. QED
      BY <1>7, <2>1 DEF Complete
  <2>6. QED
    BY <1>7, <2>2, <2>3, <2>4, <2>5 DEF Complete
<1>8. ASSUME NEW c \in Callers, Fail(c) PROVE TypeOK'
  BY <1>8 DEF Fail, Goto, Record, Statuses
<1>9. ASSUME NEW c \in Callers, Replay(c) PROVE TypeOK'
  BY <1>9 DEF Replay, Goto, Rec, Record
<1>10. ASSUME NEW c \in Callers, ReplayRefused(c) PROVE TypeOK'
  BY <1>10 DEF ReplayRefused, Goto
<1>11. ASSUME NEW c \in Callers, Poll(c) PROVE TypeOK'
  <2>1. polls[c] \in 0 .. PollAttempts - 1
    OBVIOUS
  <2>2. polls[c] # PollAttempts - 1 => polls[c] + 1 \in 0 .. PollAttempts - 1
    BY <2>1, NextRead
  <2>3. polls' \in [Callers -> 0 .. PollAttempts - 1]
    BY <1>11, <2>2 DEF Poll, PollUntil
  <2>4. pc' \in [Callers -> Locations]
    BY <1>11 DEF Poll, PollUntil
  <2>5. QED
    BY <1>11, <2>3, <2>4 DEF Poll, PollUntil
<1>12. QED
  BY <1>1, <1>2, <1>3, <1>4, <1>5, <1>6, <1>7, <1>8, <1>9, <1>10, <1>11
     DEF Next, Step

\* A step of c that does not write the database moves only c, and only a
\* replay of the completed row lets it return.
LEMMA LocalStepShape ==
    ASSUME TypeOK, NEW c \in Callers, LocalStep(c)
    PROVE  /\ UNCHANGED <<record, effects>>
           /\ \A d \in Callers \ {c} : pc'[d] = pc[d] /\ answer'[d] = answer[d]
           /\ pc'[c] \in Owning => pc[c] \in Owning
           /\ pc'[c] = "returned" =>
                \/ pc[c] = "returned" /\ answer'[c] = answer[c]
                \/ /\ FingerprintMatches(c)
                   /\ Rec(c).status = "COMPLETED"
                   /\ answer'[c] = Rec(c).response
<1> USE DEF TypeOK, Owning, Ended
<1>1. CASE Call(c)
  BY <1>1 DEF Call
<1>2. CASE ClaimConflict(c) \/ Operate(c) \/ OperationRaises(c) \/ FlushFails(c)
  BY <1>2 DEF ClaimConflict, Operate, OperationRaises, FlushFails, Goto
<1>3. CASE Replay(c)
  BY <1>3 DEF Replay, Goto
<1>4. CASE ReplayRefused(c)
  BY <1>4 DEF ReplayRefused, Goto
<1>5. CASE Poll(c)
  BY <1>5 DEF Poll, PollUntil
<1>6. CASE Crash(c)
  BY <1>6 DEF Crash
<1>7. QED
  BY <1>1, <1>2, <1>3, <1>4, <1>5, <1>6 DEF LocalStep

LEMMA LocalStepKeeps ==
    ASSUME IInv, NEW c \in Callers, LocalStep(c), TypeOK'
    PROVE  IInv'
<1>1. TypeOK
  BY DEF IInv
<1>2. /\ UNCHANGED <<record, effects>>
      /\ \A d \in Callers \ {c} : pc'[d] = pc[d] /\ answer'[d] = answer[d]
      /\ pc'[c] \in Owning => pc[c] \in Owning
      /\ pc'[c] = "returned" =>
           \/ pc[c] = "returned" /\ answer'[c] = answer[c]
           \/ /\ FingerprintMatches(c)
              /\ Rec(c).status = "COMPLETED"
              /\ answer'[c] = Rec(c).response
  BY <1>1, LocalStepShape
<1>3. FingerprintKept' /\ ResponseIsTheRow' /\ EffectIffCompleted'
  BY <1>2 DEF IInv, FingerprintKept, ResponseIsTheRow, EffectIffCompleted
<1>4. \A d \in Callers : pc'[d] \in Owning => pc[d] \in Owning
  BY <1>2
<1>5. ClaimHeld'
  BY <1>2, <1>4 DEF IInv, ClaimHeld, Rec, FingerprintMatches
<1>6. AnswerIsTheEffect'
  <2> SUFFICES ASSUME NEW d \in Callers, pc'[d] = "returned"
               PROVE  answer'[d] = <<PayloadOf[d]>> /\ effects'[KeyOf[d]] = answer'[d]
    BY DEF AnswerIsTheEffect
  <2>1. CASE pc[d] = "returned" /\ answer'[d] = answer[d]
    BY <2>1, <1>2 DEF IInv, AnswerIsTheEffect
  <2>2. CASE d = c /\ ~(pc[c] = "returned" /\ answer'[c] = answer[c])
    <3>1. FingerprintMatches(c) /\ Rec(c).status = "COMPLETED"
          /\ answer'[c] = Rec(c).response
      BY <2>2, <1>2
    <3>2. KeyOf[c] \in Keys
      OBVIOUS
    <3>3. QED
      BY <2>2, <3>1, <3>2, <1>2
         DEF IInv, ResponseIsTheRow, EffectIffCompleted, FingerprintMatches, Rec
  <2>3. QED
    BY <2>1, <2>2, <1>2
<1>7. QED
  BY <1>3, <1>5, <1>6 DEF IInv

(***************************************************************************)
(* The three steps that write the database.                                *)
(***************************************************************************)
LEMMA ClaimKeeps ==
    ASSUME IInv, NEW c \in Callers, Claim(c), TypeOK'
    PROVE  IInv'
<1> DEFINE k == KeyOf[c]
<1>1. /\ k \in Keys /\ record[k].status = "ABSENT"
      /\ pc[c] = "claim" /\ pc' = [pc EXCEPT ![c] = "operate"]
      /\ record' = [record EXCEPT ![k] =
                       [status |-> "PENDING", fingerprint |-> <<PayloadOf[c]>>,
                        response |-> <<>>]]
      /\ UNCHANGED <<effects, polls, answer>>
  BY DEF Claim, ClaimWhen, Rec, Goto
<1>2. record \in [Keys -> Record] /\ pc \in [Callers -> Locations]
  BY DEF IInv, TypeOK
<1>3. /\ record'[k].status = "PENDING"
      /\ record'[k].fingerprint = <<PayloadOf[c]>>
      /\ \A j \in Keys \ {k} : record'[j] = record[j]
  BY <1>1, <1>2
<1>4. \A d \in Callers : pc[d] \in Owning => KeyOf[d] # k
  BY <1>1 DEF IInv, ClaimHeld, Rec
<1>5. pc'[c] = "operate" /\ \A d \in Callers \ {c} : pc'[d] = pc[d]
  BY <1>1, <1>2
<1>6. ClaimHeld'
  <2> SUFFICES ASSUME NEW d \in Callers, pc'[d] \in Owning
               PROVE  /\ record'[KeyOf[d]].status = "PENDING"
                      /\ record'[KeyOf[d]].fingerprint = <<PayloadOf[d]>>
                      /\ \A e \in Callers :
                            pc'[e] \in Owning /\ KeyOf[e] = KeyOf[d] => e = d
    BY DEF ClaimHeld, Rec, FingerprintMatches
  <2>1. CASE d = c
    BY <2>1, <1>3, <1>4, <1>5
  <2>2. CASE d # c
    BY <2>2, <1>3, <1>4, <1>5 DEF IInv, ClaimHeld, Rec, FingerprintMatches
  <2>3. QED
    BY <2>1, <2>2
<1>7. FingerprintKept'
  BY <1>3 DEF IInv, FingerprintKept
<1>8. ResponseIsTheRow'
  BY <1>3 DEF IInv, ResponseIsTheRow
<1>9. EffectIffCompleted'
  BY <1>1, <1>3 DEF IInv, EffectIffCompleted
<1>10. AnswerIsTheEffect'
  BY <1>1, <1>5 DEF IInv, AnswerIsTheEffect
<1>11. QED
  BY <1>6, <1>7, <1>8, <1>9, <1>10 DEF IInv

LEMMA CompleteKeeps ==
    ASSUME IInv, NEW c \in Callers, Complete(c), TypeOK'
    PROVE  IInv'
<1> DEFINE k == KeyOf[c]
<1>1. k \in Keys /\ pc[c] = "commit"
  BY DEF Complete
<1>2. /\ record \in [Keys -> Record] /\ pc \in [Callers -> Locations]
      /\ effects \in [Keys -> Seq(Payloads)]
      /\ answer \in [Callers -> Nullable(Payloads)]
  BY DEF IInv, TypeOK
<1>3. /\ record[k].status = "PENDING"
      /\ record[k].fingerprint = <<PayloadOf[c]>>
      /\ \A d \in Callers : pc[d] \in Owning /\ KeyOf[d] = k => d = c
  BY <1>1 DEF IInv, ClaimHeld, Rec, FingerprintMatches, Owning
<1>4. /\ record'[k].status = "COMPLETED"
      /\ record'[k].fingerprint = <<PayloadOf[c]>>
      /\ record'[k].response = <<PayloadOf[c]>>
      /\ \A j \in Keys \ {k} : record'[j] = record[j]
  BY <1>1, <1>2, <1>3 DEF Complete, Record
<1>5. effects[k] = <<>>
  BY <1>1, <1>3 DEF IInv, EffectIffCompleted
<1>6. /\ effects'[k] = <<PayloadOf[c]>>
      /\ \A j \in Keys \ {k} : effects'[j] = effects[j]
  BY <1>1, <1>2, <1>5 DEF Complete
<1>7. /\ pc'[c] \in Ended
      /\ \A d \in Callers \ {c} : pc'[d] = pc[d] /\ answer'[d] = answer[d]
      /\ pc'[c] = "returned" => answer'[c] = <<PayloadOf[c]>>
  BY <1>2 DEF Complete, Ended
<1>8. ClaimHeld'
  <2> SUFFICES ASSUME NEW d \in Callers, pc'[d] \in Owning
               PROVE  /\ record'[KeyOf[d]].status = "PENDING"
                      /\ record'[KeyOf[d]].fingerprint = <<PayloadOf[d]>>
                      /\ \A e \in Callers :
                            pc'[e] \in Owning /\ KeyOf[e] = KeyOf[d] => e = d
    BY DEF ClaimHeld, Rec, FingerprintMatches
  <2>1. d # c /\ pc[d] \in Owning
    BY <1>7 DEF Owning, Ended
  <2>2. KeyOf[d] \in Keys \ {k}
    BY <2>1, <1>3
  <2>3. \A e \in Callers : pc'[e] \in Owning => pc[e] \in Owning
    BY <1>7 DEF Owning, Ended
  <2>4. QED
    BY <2>1, <2>2, <2>3, <1>4 DEF IInv, ClaimHeld, Rec, FingerprintMatches
<1>9. FingerprintKept'
  BY <1>4 DEF IInv, FingerprintKept
<1>10. ResponseIsTheRow'
  BY <1>4 DEF IInv, ResponseIsTheRow
<1>11. EffectIffCompleted'
  BY <1>4, <1>6 DEF IInv, EffectIffCompleted
<1>12. AnswerIsTheEffect'
  <2> SUFFICES ASSUME NEW d \in Callers, pc'[d] = "returned"
               PROVE  /\ answer'[d] = <<PayloadOf[d]>>
                      /\ effects'[KeyOf[d]] = answer'[d]
    BY DEF AnswerIsTheEffect
  <2>1. CASE d = c
    BY <2>1, <1>6, <1>7
  <2>2. CASE d # c
    <3>1. /\ answer'[d] = <<PayloadOf[d]>>
          /\ effects[KeyOf[d]] = answer'[d]
      BY <2>2, <1>7 DEF IInv, AnswerIsTheEffect
    <3>2. KeyOf[d] # k
      BY <3>1, <1>5, Singleton
    <3>3. QED
      BY <3>1, <3>2, <1>6
  <2>3. QED
    BY <2>1, <2>2
<1>13. QED
  BY <1>8, <1>9, <1>10, <1>11, <1>12 DEF IInv

LEMMA FailKeeps ==
    ASSUME IInv, NEW c \in Callers, Fail(c), TypeOK'
    PROVE  IInv'
<1> DEFINE k == KeyOf[c]
<1>1. /\ k \in Keys /\ pc[c] = "fail" /\ pc' = [pc EXCEPT ![c] = "raised"]
      /\ record' = [record EXCEPT ![k].status = "FAILED"]
      /\ UNCHANGED <<effects, polls, answer>>
  BY DEF Fail, Goto
<1>2. record \in [Keys -> Record] /\ pc \in [Callers -> Locations]
  BY DEF IInv, TypeOK
<1>3. /\ record[k].status = "PENDING"
      /\ record[k].fingerprint = <<PayloadOf[c]>>
      /\ \A d \in Callers : pc[d] \in Owning /\ KeyOf[d] = k => d = c
  BY <1>1 DEF IInv, ClaimHeld, Rec, FingerprintMatches, Owning
<1>4. /\ record'[k].status = "FAILED"
      /\ record'[k].fingerprint = <<PayloadOf[c]>>
      /\ \A j \in Keys \ {k} : record'[j] = record[j]
  BY <1>1, <1>2, <1>3 DEF Record
<1>5. pc'[c] = "raised" /\ \A d \in Callers \ {c} : pc'[d] = pc[d]
  BY <1>1, <1>2
<1>6. ClaimHeld'
  <2> SUFFICES ASSUME NEW d \in Callers, pc'[d] \in Owning
               PROVE  /\ record'[KeyOf[d]].status = "PENDING"
                      /\ record'[KeyOf[d]].fingerprint = <<PayloadOf[d]>>
                      /\ \A e \in Callers :
                            pc'[e] \in Owning /\ KeyOf[e] = KeyOf[d] => e = d
    BY DEF ClaimHeld, Rec, FingerprintMatches
  <2>1. d # c /\ pc[d] \in Owning
    BY <1>5 DEF Owning
  <2>2. KeyOf[d] \in Keys \ {k}
    BY <2>1, <1>3
  <2>3. \A e \in Callers : pc'[e] \in Owning => pc[e] \in Owning
    BY <1>5 DEF Owning
  <2>4. QED
    BY <2>1, <2>2, <2>3, <1>4 DEF IInv, ClaimHeld, Rec, FingerprintMatches
<1>7. FingerprintKept'
  BY <1>4 DEF IInv, FingerprintKept
<1>8. ResponseIsTheRow'
  BY <1>4 DEF IInv, ResponseIsTheRow
<1>9. EffectIffCompleted'
  BY <1>1, <1>3, <1>4 DEF IInv, EffectIffCompleted
<1>10. AnswerIsTheEffect'
  BY <1>1, <1>5 DEF IInv, AnswerIsTheEffect
<1>11. QED
  BY <1>6, <1>7, <1>8, <1>9, <1>10 DEF IInv

(***************************************************************************)
(* The inductive invariant, and what follows from it.                      *)
(***************************************************************************)
LEMMA StepIInv == IInv /\ [Next]_vars => IInv'
<1> SUFFICES ASSUME IInv, [Next]_vars PROVE IInv'
  OBVIOUS
<1>1. TypeOK'
  BY TypeStep DEF IInv
<1>2. CASE UNCHANGED vars
  BY <1>2 DEF vars, IInv, TypeOK, ClaimHeld, FingerprintKept, ResponseIsTheRow,
              EffectIffCompleted, AnswerIsTheEffect, Rec, FingerprintMatches
<1>3. CASE Next
  <2>1. PICK c \in Callers : Call(c) \/ Step(c) \/ OperationRaises(c)
                              \/ FlushFails(c) \/ Crash(c)
    BY <1>3 DEF Next
  <2>2. Claim(c) \/ Complete(c) \/ Fail(c) \/ LocalStep(c)
    BY <2>1, NextCases
  <2>3. QED
    BY <2>2, <1>1, ClaimKeeps, CompleteKeeps, FailKeeps, LocalStepKeeps
<1>4. QED
  BY <1>2, <1>3

LEMMA Invariance == Spec => []IInv
BY InitIInv, StepIInv, PTL DEF Spec

\* Every reachable state is well typed, for any callers, keys and poll bound.
THEOREM TypeCorrect == Spec => []TypeOK
<1>1. IInv => TypeOK
  BY DEF IInv
<1>2. QED
  BY <1>1, Invariance, PTL

\* Phase A's unique insert gives at-most-once: no key ever has two business
\* rows, whatever number of callers overlap on it, crash and repeat.
THEOREM AtMostOneRow == Spec => []AtMostOnce
<1>1. IInv => AtMostOnce
  <2> SUFFICES ASSUME IInv, NEW k \in Keys PROVE Len(effects[k]) <= 1
    BY DEF AtMostOnce
  <2>1. effects[k] = <<>> \/ effects[k] = record[k].fingerprint
    BY DEF IInv, EffectIffCompleted
  <2>2. record[k].fingerprint \in Nullable(Payloads)
    BY DEF IInv, TypeOK, Record
  <2>3. effects[k] = <<>> \/ \E x \in Payloads : effects[k] = <<x>>
    BY <2>1, <2>2 DEF Nullable
  <2>4. Len(effects[k]) \in {0, 1}
    BY <2>3, Singleton
  <2>5. \A n \in {0, 1} : n <= 1
    OBVIOUS
  <2>6. QED
    BY <2>4, <2>5
<1>2. QED
  BY <1>1, Invariance, PTL

\* A business row and its COMPLETED record are visible together or not at all.
THEOREM RowWithRecord == Spec => []EffectIffCompleted
<1>1. IInv => EffectIffCompleted
  BY DEF IInv
<1>2. QED
  BY <1>1, Invariance, PTL

\* Whoever got an answer got the one committed row, for the payload it sent.
THEOREM HonestAnswers == Spec => []AnswerIsTheEffect
<1>1. IInv => AnswerIsTheEffect
  BY DEF IInv
<1>2. QED
  BY <1>1, Invariance, PTL

\* What a claim's holder and every other caller can do to a settled record:
\* nothing.
LEMMA SettledStep == IInv /\ [Next]_vars =>
                       \A k \in Keys : Settled(k) => record'[k] = record[k]
<1> SUFFICES ASSUME IInv, [Next]_vars, NEW k \in Keys, Settled(k)
             PROVE  record'[k] = record[k]
  OBVIOUS
<1>1. TypeOK /\ ClaimHeld
  BY DEF IInv
<1>2. CASE UNCHANGED vars
  BY <1>2 DEF vars
<1>3. CASE Next
  <2>1. PICK c \in Callers : Call(c) \/ Step(c) \/ OperationRaises(c)
                              \/ FlushFails(c) \/ Crash(c)
    BY <1>3 DEF Next
  <2>2. CASE Claim(c)
    BY <2>2, <1>1 DEF Claim, ClaimWhen, Rec, Settled, TypeOK
  <2>3. CASE Complete(c)
    <3>1. Rec(c).status = "PENDING"
      BY <2>3, <1>1 DEF Complete, ClaimHeld, Owning
    <3>2. KeyOf[c] # k
      BY <3>1 DEF Rec, Settled
    <3>3. QED
      BY <2>3, <3>2, <1>1 DEF Complete, TypeOK
  <2>4. CASE Fail(c)
    <3>1. Rec(c).status = "PENDING"
      BY <2>4, <1>1 DEF Fail, Goto, ClaimHeld, Owning
    <3>2. KeyOf[c] # k
      BY <3>1 DEF Rec, Settled
    <3>3. QED
      BY <2>4, <3>2, <1>1 DEF Fail, TypeOK
  <2>5. CASE LocalStep(c)
    BY <2>5, <1>1, LocalStepShape
  <2>6. QED
    BY <2>1, <2>2, <2>3, <2>4, <2>5, NextCases
<1>4. QED
  BY <1>2, <1>3

\* No late, crashed or zombie caller changes a COMPLETED or FAILED record.
THEOREM SettledForGood == Spec => SettledIsFinal
BY Invariance, SettledStep, PTL DEF Spec, SettledIsFinal

(***************************************************************************)
(* Refinement: a completion performs the register, a recorded failure      *)
(* refuses it, a replay tells, and every other step stutters.              *)
(***************************************************************************)
LEMMA RefinementInit == Init => Once!Init
BY DEF Init, Once!Init, NoRecord

LEMMA RefinementStep == IInv /\ [Next]_vars => [Once!Next]_(Once!vars)
<1> SUFFICES ASSUME IInv, [Next]_vars PROVE [Once!Next]_(Once!vars)
  OBVIOUS
<1>1. TypeOK /\ ClaimHeld /\ EffectIffCompleted /\ ResponseIsTheRow
  BY DEF IInv
<1>2. CASE UNCHANGED vars
  BY <1>2 DEF vars, Once!vars
<1>3. ASSUME NEW c \in Callers, Claim(c) PROVE UNCHANGED Once!vars
  <2>1. \A k \in Keys : record'[k].status = "FAILED" <=> record[k].status = "FAILED"
    BY <1>3, <1>1 DEF Claim, ClaimWhen, Rec, TypeOK
  <2>2. \A d \in Callers : pc'[d] = "returned" <=> pc[d] = "returned"
    BY <1>3, <1>1 DEF Claim, ClaimWhen, Goto, TypeOK
  <2>3. QED
    BY <1>3, <2>1, <2>2 DEF Claim, ClaimWhen, Once!vars
<1>4. ASSUME NEW c \in Callers, Complete(c) PROVE Once!Perform(c)
  <2>1. Rec(c).status = "PENDING" /\ KeyOf[c] \in Keys
    BY <1>4, <1>1 DEF Complete, ClaimHeld, Owning
  <2>2. effects[KeyOf[c]] = <<>>
    BY <2>1, <1>1 DEF EffectIffCompleted, Rec
  <2>3. effects' = [effects EXCEPT ![KeyOf[c]] = <<PayloadOf[c]>>]
    BY <1>4, <2>1, <2>2, <1>1 DEF Complete, TypeOK
  <2>4. \A k \in Keys : record'[k].status = "FAILED" <=> record[k].status = "FAILED"
    BY <1>4, <2>1, <1>1 DEF Complete, TypeOK, Record, Rec
  <2>5. \/ \A d \in Callers : pc'[d] = "returned" <=> pc[d] = "returned"
        \/ \A d \in Callers : pc'[d] = "returned" <=> pc[d] = "returned" \/ d = c
    BY <1>4, <1>1 DEF Complete, TypeOK
  <2>6. QED
    BY <2>1, <2>2, <2>3, <2>4, <2>5 DEF Once!Perform, Rec
<1>5. ASSUME NEW c \in Callers, Fail(c) PROVE Once!Refuse(c)
  <2>1. Rec(c).status = "PENDING" /\ KeyOf[c] \in Keys
    BY <1>5, <1>1 DEF Fail, Goto, ClaimHeld, Owning
  <2>2. effects[KeyOf[c]] = <<>>
    BY <2>1, <1>1 DEF EffectIffCompleted, Rec
  <2>3. \A k \in Keys : record'[k].status = "FAILED" <=>
                           record[k].status = "FAILED" \/ k = KeyOf[c]
    BY <1>5, <2>1, <1>1 DEF Fail, TypeOK, Record, Rec
  <2>4. \A d \in Callers : pc'[d] = "returned" <=> pc[d] = "returned"
    BY <1>5, <1>1 DEF Fail, Goto, TypeOK
  <2>5. QED
    BY <1>5, <2>1, <2>2, <2>3, <2>4 DEF Once!Refuse, Fail, Rec
<1>6. ASSUME NEW c \in Callers, LocalStep(c)
      PROVE  Once!Tell(c) \/ UNCHANGED Once!vars
  <2>1. /\ UNCHANGED <<record, effects>>
        /\ \A d \in Callers \ {c} : pc'[d] = pc[d]
        /\ pc'[c] = "returned" =>
             \/ pc[c] = "returned"
             \/ FingerprintMatches(c) /\ Rec(c).status = "COMPLETED"
    BY <1>6, <1>1, LocalStepShape
  <2>2. pc[c] # "returned"
    BY <1>6 DEF LocalStep, Call, ClaimConflict, Operate, OperationRaises,
                FlushFails, Replay, ReplayRefused, Poll, PollUntil, Crash, Goto, Ended
  <2>3. CASE pc'[c] = "returned"
    <3>1. effects[KeyOf[c]] = <<PayloadOf[c]>>
      BY <2>1, <2>2, <2>3, <1>1 DEF EffectIffCompleted, FingerprintMatches, Rec
    <3>2. \A d \in Callers : pc'[d] = "returned" <=> pc[d] = "returned" \/ d = c
      BY <2>1, <2>3
    <3>3. QED
      BY <2>1, <3>1, <3>2 DEF Once!Tell
  <2>4. CASE pc'[c] # "returned"
    BY <2>1, <2>2, <2>4 DEF Once!vars
  <2>5. QED
    BY <2>3, <2>4
<1>7. CASE Next
  <2>1. PICK c \in Callers : Call(c) \/ Step(c) \/ OperationRaises(c)
                              \/ FlushFails(c) \/ Crash(c)
    BY <1>7 DEF Next
  <2>2. QED
    BY <2>1, NextCases, <1>3, <1>4, <1>5, <1>6 DEF Once!Next
<1>8. QED
  BY <1>2, <1>7

\* idempotent() implements the at-most-once register.
THEOREM Implementation == Spec => ImplementsOnce
BY RefinementInit, Invariance, RefinementStep, PTL
   DEF Spec, ImplementsOnce, Once!Spec
===========================================================================
