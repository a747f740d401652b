----------------------- MODULE RetryScheduler_proofs -----------------------
(***************************************************************************)
(* Proofs about RetryScheduler for every set of jobs of a customer and any *)
(* number of attempts and ad-hoc calls.                                    *)
(*                                                                         *)
(* The inductive invariant ties where a scheduler stands to the calls it   *)
(* has placed: how many, that all but the last went unanswered, and that   *)
(* one in progress is the one it waits for.                                *)
(***************************************************************************)
EXTENDS RetryScheduler, SequenceTheorems, TLAPS

CallStates == Live \union Results
Before == {"check", "not_eligible", "dial", "conflict"}
Giving == {"exhausted", "escalate"}

Unanswered(j, n) == \A i \in 1 .. n : calls[j][i] = "UNANSWERED"

AllUnanswered(j) == Len(calls[j]) = MaxAttempts /\ Unanswered(j, MaxAttempts)

JobOK(j) ==
    /\ at[j] \in Before =>
         Len(calls[j]) = attempt[j] - 1 /\ Unanswered(j, attempt[j] - 1)
    /\ at[j] = "calling" =>
         Len(calls[j]) = attempt[j] /\ Unanswered(j, attempt[j] - 1)
    /\ at[j] = "pause" =>
         /\ Len(calls[j]) = attempt[j] /\ Unanswered(j, attempt[j])
         /\ attempt[j] # MaxAttempts
    /\ at[j] \in Giving => attempt[j] = MaxAttempts /\ AllUnanswered(j)
    /\ at[j] \in Ended => Unanswered(j, Len(calls[j]) - 1)
    /\ at[j] = "returned" => output[j].made = Len(calls[j])
    /\ output[j].disposition = "AUTOMATED_CONTACT_UNSUCCESSFUL" =>
         at[j] = "returned" /\ AllUnanswered(j)
    /\ j \in escalated => at[j] \in Ended /\ AllUnanswered(j)
    /\ Calling(j) => at[j] = "calling"

IInv ==
    /\ TypeOK
    /\ OneCallAtATime
    /\ \A j \in Jobs : JobOK(j)

USE MaxAttemptsAssumption, MaxAdhocAssumption

---------------------------------------------------------------------------
(* Sequences of calls.                                                     *)

LEMMA LastOf ==
    ASSUME NEW S, NEW s \in Seq(S)
    PROVE  /\ s = <<>> => Last(s) = "NONE" /\ Len(s) = 0
           /\ s # <<>> => Last(s) = s[Len(s)] /\ Len(s) \in Nat \ {0}
BY EmptySeq DEF Last

LEMMA LastAppend ==
    ASSUME NEW S, NEW s \in Seq(S), NEW x \in S
    PROVE  /\ Append(s, x) \in Seq(S)
           /\ Len(Append(s, x)) = Len(s) + 1
           /\ Last(Append(s, x)) = x
           /\ \A i \in 1 .. Len(s) : Append(s, x)[i] = s[i]
<1>1. /\ Append(s, x) \in Seq(S) /\ Append(s, x) # <<>>
      /\ Len(Append(s, x)) = Len(s) + 1
      /\ \A i \in 1 .. Len(s) : Append(s, x)[i] = s[i]
      /\ Append(s, x)[Len(s) + 1] = x
  BY AppendProperties
<1>2. QED
  BY <1>1, LastOf

LEMMA LastSetLast ==
    ASSUME NEW S, NEW s \in Seq(S), s # <<>>, NEW x \in S
    PROVE  /\ SetLast(s, x) \in Seq(S)
           /\ Len(SetLast(s, x)) = Len(s)
           /\ Last(SetLast(s, x)) = x
           /\ \A i \in 1 .. Len(s) - 1 : SetLast(s, x)[i] = s[i]
<1>1. Len(s) \in Nat \ {0} /\ Len(s) \in 1 .. Len(s)
  BY EmptySeq
<1>2. /\ SetLast(s, x) \in Seq(S)
      /\ Len(SetLast(s, x)) = Len(s)
      /\ \A i \in 1 .. Len(s) :
            SetLast(s, x)[i] = IF i = Len(s) THEN x ELSE s[i]
  BY <1>1, ExceptSeq DEF SetLast
<1>3. Last(SetLast(s, x)) = SetLast(s, x)[Len(s)]
  BY <1>1, <1>2, LastOf, EmptySeq
<1>4. QED
  BY <1>1, <1>2, <1>3

---------------------------------------------------------------------------
LEMMA InitIInv == Init => IInv
<1> SUFFICES ASSUME Init PROVE IInv
  OBVIOUS
<1>1. \A j \in Jobs : calls[j] = <<>> /\ Last(calls[j]) = "NONE" /\ Len(calls[j]) = 0
  BY DEF Init, Last
<1>2. TypeOK
  BY DEF Init, TypeOK, NoOutput, Locations, Ended
<1>3. ~AdhocCalling /\ \A j \in Jobs : ~Calling(j)
  BY <1>1 DEF Init, AdhocCalling, Calling, Live, Last
<1>4. ASSUME NEW j \in Jobs PROVE JobOK(j)
  <2>1. /\ at[j] = "check" /\ attempt[j] = 1 /\ j \notin escalated
        /\ output[j].disposition = "NONE"
    BY DEF Init, NoOutput
  <2>2. Unanswered(j, attempt[j] - 1)
    BY <2>1 DEF Unanswered
  <2>3. QED
    BY <1>1, <1>3, <2>1, <2>2 DEF JobOK, Before, Giving, Ended
<1>5. QED
  BY <1>2, <1>3, <1>4 DEF IInv, OneCallAtATime

\* A job whose own variables a step leaves alone is where it was.
LEMMA Bystander ==
    ASSUME NEW k \in Jobs, JobOK(k),
           at'[k] = at[k], attempt'[k] = attempt[k], output'[k] = output[k],
           calls'[k] = calls[k], k \in escalated' <=> k \in escalated
    PROVE  JobOK(k)' /\ (Calling(k)' <=> Calling(k))
BY DEF JobOK, AllUnanswered, Unanswered, Calling

---------------------------------------------------------------------------
(* Which variables a step of one job moves.                                *)

JobStep(j) == Schedule(j) \/ Finish(j) \/ Hang(j) \/ TimeOut(j)

AdhocStep == StartCall \/ AdhocEnds \/ AdhocHangs \/ FlipSwitch

\* The steps that leave the calls of the job alone.
Decides(j) ==
    \/ CheckEligibility(j) \/ NotEligible(j) \/ DialConflict(j) \/ Conflict(j)
    \/ CallEnds(j) \/ CallFails(j) \/ Slept(j)
    \/ Exhausted(j) \/ Escalate(j) \/ EscalateFails(j)

\* The steps that end, or hang, a call in progress.
Settles(j) == Finish(j) \/ Hang(j) \/ TimeOut(j)

LEMMA JobStepCases ==
    ASSUME NEW j \in Jobs, JobStep(j)
    PROVE  Decides(j) \/ Dial(j) \/ Settles(j)
BY DEF JobStep, Schedule, Decides, Settles

\* TypeOK and JobOK of the acting job, one decision at a time.
LEMMA DecidesOK ==
    ASSUME TypeOK, NEW j \in Jobs, JobOK(j), Decides(j)
    PROVE  TypeOK' /\ JobOK(j)' /\ UNCHANGED <<calls, adhoc>>
<1> USE DEF TypeOK, Dispositions, Locations, Ended
<1>1. /\ at[j] \in Locations /\ attempt[j] \in 1 .. MaxAttempts
      /\ Len(calls[j]) \in Nat
      /\ attempt[j] \in Nat /\ MaxAttempts \in Nat
  BY LenProperties
<1> HIDE DEF Last
<1>2. CASE CheckEligibility(j)
  BY <1>1, <1>2 DEF CheckEligibility, Goto, JobOK, AllUnanswered, Unanswered,
     Calling, Before, Giving
<1>3. CASE NotEligible(j)
  BY <1>1, <1>3 DEF NotEligible, Return, Goto, JobOK, AllUnanswered, Unanswered,
     Calling, Before, Giving
<1>4. CASE DialConflict(j)
  BY <1>1, <1>4 DEF DialConflict, Goto, JobOK, AllUnanswered, Unanswered,
     Calling, Before, Giving
<1>5. CASE Conflict(j)
  BY <1>1, <1>5 DEF Conflict, Return, Goto, JobOK, AllUnanswered, Unanswered,
     Calling, Before, Giving
<1> DEFINE heard == Last(calls[j])
<1>6. CASE CallEnds(j)
  <2>1. /\ at[j] = "calling" /\ heard \in {"OTHER", "UNANSWERED"}
        /\ UNCHANGED <<attempt, calls, adhoc, escalated, enabled>>
    BY <1>6 DEF CallEnds, HearResult
  <2>2. ~Calling(j)' /\ heard = calls[j][attempt[j]]
    BY <1>1, <2>1, LastOf DEF Calling, Live, JobOK
  <2>3. /\ Len(calls[j]) = attempt[j] /\ Unanswered(j, attempt[j] - 1)
        /\ j \notin escalated
        /\ output[j].disposition # "AUTOMATED_CONTACT_UNSUCCESSFUL"
    BY <2>1 DEF JobOK
  <2>4. heard = "UNANSWERED" => Unanswered(j, attempt[j])
    <3> SUFFICES ASSUME heard = "UNANSWERED", NEW i \in 1 .. attempt[j]
                 PROVE  calls[j][i] = "UNANSWERED"
      BY DEF Unanswered
    <3>1. i \in Nat /\ (i = attempt[j] \/ i \in 1 .. attempt[j] - 1)
      BY <1>1
    <3>2. QED
      BY <2>2, <2>3, <3>1 DEF Unanswered
  <2> HIDE DEF heard
  <2>5. CASE Return(j, "calling", "OTHER", attempt[j])
    BY <1>1, <2>1, <2>2, <2>3, <2>5
       DEF Return, Goto, JobOK, AllUnanswered, Unanswered, Before, Giving
  <2>6. CASE heard = "UNANSWERED" /\ attempt[j] = MaxAttempts
             /\ Goto(j, "calling", "exhausted") /\ UNCHANGED output
    BY <1>1, <2>1, <2>2, <2>3, <2>4, <2>6
       DEF Goto, JobOK, AllUnanswered, Unanswered, Before, Giving
  <2>7. CASE heard = "UNANSWERED" /\ attempt[j] < MaxAttempts
             /\ Goto(j, "calling", "pause") /\ UNCHANGED output
    BY <1>1, <2>1, <2>2, <2>3, <2>4, <2>7
       DEF Goto, JobOK, AllUnanswered, Unanswered, Before, Giving
  <2>8. QED
    BY <1>6, <2>5, <2>6, <2>7 DEF CallEnds, HearResult, heard
<1>7. CASE CallFails(j)
  <2>1. at[j] = "calling" /\ ~Calling(j)'
    BY <1>7 DEF CallFails, Goto, Calling, Live
  <2>2. QED
    BY <1>1, <1>7, <2>1 DEF CallFails, Goto, JobOK, AllUnanswered, Unanswered,
       Before, Giving
<1>8. CASE Slept(j)
  BY <1>1, <1>8 DEF Slept, Goto, JobOK, AllUnanswered, Unanswered,
     Calling, Before, Giving
<1>9. CASE Exhausted(j)
  <2>1. CASE Goto(j, "exhausted", "escalate") /\ UNCHANGED output
    BY <1>1, <1>9, <2>1 DEF Exhausted, Goto, JobOK, AllUnanswered, Unanswered,
       Calling, Before, Giving
  <2>2. CASE Return(j, "exhausted", "AUTOMATED_CONTACT_UNSUCCESSFUL", attempt[j])
    BY <1>1, <1>9, <2>2 DEF Exhausted, Return, Goto, JobOK, AllUnanswered,
       Unanswered, Calling, Before, Giving
  <2>3. QED
    BY <1>9, <2>1, <2>2 DEF Exhausted
<1>10. CASE Escalate(j)
  BY <1>1, <1>10 DEF Escalate, Return, Goto, JobOK, AllUnanswered, Unanswered,
     Calling, Before, Giving
<1>11. CASE EscalateFails(j)
  BY <1>1, <1>11 DEF EscalateFails, Goto, JobOK, AllUnanswered, Unanswered,
     Calling, Before, Giving
<1>12. QED
  BY <1>2, <1>3, <1>4, <1>5, <1>6, <1>7, <1>8, <1>9, <1>10, <1>11 DEF Decides

\* A call is placed by a job that has heard from all its calls, and only when
\* the customer is in none.
LEMMA DialOK ==
    ASSUME TypeOK, NEW j \in Jobs, JobOK(j), Dial(j)
    PROVE  TypeOK' /\ JobOK(j)' /\ Calling(j)' /\ UNCHANGED adhoc
<1> USE DEF TypeOK, Locations
<1>1. /\ at[j] = "dial" /\ at'[j] = "calling"
      /\ calls'[j] = Append(calls[j], "RUNNING")
      /\ UNCHANGED <<attempt, output, adhoc, escalated, enabled>>
  BY DEF Dial, Goto
<1>2. /\ calls[j] \in Seq(CallStates) /\ "RUNNING" \in CallStates
      /\ Len(calls[j]) \in Nat /\ attempt[j] \in Nat
  BY LenProperties DEF CallStates, Live
<1>3. /\ calls'[j] \in Seq(CallStates)
      /\ Len(calls'[j]) = Len(calls[j]) + 1
      /\ Last(calls'[j]) = "RUNNING"
      /\ \A i \in 1 .. Len(calls[j]) : calls'[j][i] = calls[j][i]
  BY <1>1, <1>2, LastAppend
<1>4. TypeOK'
  BY <1>1, <1>3 DEF Dial, Goto, CallStates
<1>5. /\ Len(calls[j]) = attempt[j] - 1 /\ Unanswered(j, attempt[j] - 1)
      /\ j \notin escalated
      /\ output[j].disposition # "AUTOMATED_CONTACT_UNSUCCESSFUL"
  BY <1>1 DEF JobOK, Before, Ended
<1>6. Len(calls'[j]) = attempt[j] /\ Unanswered(j, attempt[j] - 1)'
  BY <1>1, <1>2, <1>3, <1>5 DEF Unanswered
<1>7. JobOK(j)'
  BY <1>1, <1>5, <1>6 DEF JobOK, Before, Giving, Ended
<1>8. QED
  BY <1>1, <1>3, <1>4, <1>7 DEF Calling, Live

\* A call in progress ends, or hangs: the other calls of the job, and their
\* number, stay.
LEMMA SettlesOK ==
    ASSUME TypeOK, NEW j \in Jobs, JobOK(j), Settles(j)
    PROVE  TypeOK' /\ JobOK(j)' /\ Calling(j) /\ UNCHANGED adhoc
<1> USE DEF TypeOK
<1>1. PICK x \in CallStates :
         /\ Calling(j)
         /\ calls' = [calls EXCEPT ![j] = SetLast(@, x)]
         /\ UNCHANGED <<at, attempt, output, adhoc, escalated, enabled>>
  BY DEF Settles, Finish, Hang, TimeOut, Calling, CallStates, Live, Results
<1>2. calls[j] \in Seq(CallStates) /\ calls[j] # <<>> /\ Len(calls[j]) \in Nat
  BY <1>1, LenProperties DEF CallStates, Calling, Last, Live
<1>3. /\ calls'[j] \in Seq(CallStates)
      /\ Len(calls'[j]) = Len(calls[j])
      /\ \A i \in 1 .. Len(calls[j]) - 1 : calls'[j][i] = calls[j][i]
  <2>1. calls'[j] = SetLast(calls[j], x)
    BY <1>1
  <2>2. /\ SetLast(calls[j], x) \in Seq(CallStates)
        /\ Len(SetLast(calls[j], x)) = Len(calls[j])
        /\ \A i \in 1 .. Len(calls[j]) - 1 :
              SetLast(calls[j], x)[i] = calls[j][i]
    <3> HIDE DEF TypeOK
    <3>1. QED
      BY <1>2, LastSetLast
  <2>3. QED
    BY <2>1, <2>2
<1>4. TypeOK'
  BY <1>1, <1>3 DEF CallStates
<1>5. /\ at[j] = "calling" /\ attempt[j] \in Nat
      /\ Len(calls[j]) = attempt[j] /\ Unanswered(j, attempt[j] - 1)
      /\ j \notin escalated
      /\ output[j].disposition # "AUTOMATED_CONTACT_UNSUCCESSFUL"
  BY <1>1 DEF JobOK, Ended
<1>6. Unanswered(j, attempt[j] - 1)'
  BY <1>1, <1>3, <1>5 DEF Unanswered
<1>7. JobOK(j)'
  BY <1>1, <1>3, <1>5, <1>6 DEF JobOK, Before, Giving, Ended
<1>8. QED
  BY <1>1, <1>4, <1>7

\* A step of one job leaves every other where it was.
LEMMA OthersOK ==
    ASSUME TypeOK, NEW j \in Jobs, JobStep(j), NEW k \in Jobs \ {j}, JobOK(k)
    PROVE  JobOK(k)' /\ (Calling(k)' <=> Calling(k))
<1>1. /\ at'[k] = at[k] /\ attempt'[k] = attempt[k] /\ output'[k] = output[k]
      /\ calls'[k] = calls[k] /\ (k \in escalated' <=> k \in escalated)
  BY DEF JobStep, Schedule, CheckEligibility, NotEligible, Dial, DialConflict,
     Conflict, CallEnds, HearResult, CallFails, Slept, Exhausted, Escalate,
     EscalateFails, Finish, Hang, TimeOut, Return, Goto, TypeOK
<1>2. QED
  BY <1>1, Bystander

\* The ad-hoc calls and the switch.
LEMMA AdhocOK ==
    ASSUME TypeOK, AdhocStep
    PROVE  /\ TypeOK'
           /\ UNCHANGED <<at, attempt, output, calls, escalated>>
           /\ AdhocCalling' => AdhocCalling \/ \A k \in Jobs : ~Calling(k)
<1> DEFINE S == Live \union {"ENDED"}
<1>1. UNCHANGED <<at, attempt, output, calls, escalated>>
  BY DEF AdhocStep, StartCall, AdhocEnds, AdhocHangs, FlipSwitch
<1>2. adhoc \in Seq(S) /\ Len(adhoc) \in Nat /\ Len(adhoc) <= MaxAdhoc
  BY LenProperties DEF TypeOK
<1>3. CASE StartCall
  <2>1. adhoc' \in Seq(S) /\ Len(adhoc') = Len(adhoc) + 1
    BY <1>2, <1>3, LastAppend DEF StartCall, Live
  <2>2. QED
    BY <1>1, <1>2, <1>3, <2>1 DEF StartCall, TypeOK
<1>4. CASE AdhocEnds \/ AdhocHangs
  <2>1. AdhocCalling /\ adhoc # <<>>
    BY <1>4 DEF AdhocEnds, AdhocHangs, AdhocCalling, Live, Last
  <2>2. PICK x \in S : adhoc' = SetLast(adhoc, x)
    BY <1>4 DEF AdhocEnds, AdhocHangs, Live
  <2> HIDE DEF S
  <2>3. /\ SetLast(adhoc, x) \in Seq(S)
        /\ Len(SetLast(adhoc, x)) = Len(adhoc)
    BY <1>2, <2>1, LastSetLast
  <2> USE DEF S
  <2>4. QED
    BY <1>1, <1>2, <1>4, <2>1, <2>2, <2>3 DEF AdhocEnds, AdhocHangs, TypeOK
<1>5. CASE FlipSwitch
  BY <1>1, <1>5 DEF FlipSwitch, TypeOK, AdhocCalling
<1>6. QED
  BY <1>3, <1>4, <1>5 DEF AdhocStep

---------------------------------------------------------------------------
LEMMA NextIInv == IInv /\ [Next]_vars => IInv'
<1> SUFFICES ASSUME IInv, [Next]_vars PROVE IInv'
  OBVIOUS
<1> USE DEF IInv
<1>1. CASE UNCHANGED vars
  BY <1>1, Bystander
     DEF vars, TypeOK, OneCallAtATime, Calling, AdhocCalling
<1>2. ASSUME NEW j \in Jobs, JobStep(j) PROVE IInv'
  <2>1. \A k \in Jobs \ {j} : JobOK(k)' /\ (Calling(k)' <=> Calling(k))
    BY <1>2, OthersOK
  <2>2. CASE Decides(j)
    <3>1. TypeOK' /\ JobOK(j)' /\ UNCHANGED <<calls, adhoc>>
      BY <2>2, DecidesOK
    <3>2. OneCallAtATime'
      BY <3>1 DEF OneCallAtATime, Calling, AdhocCalling
    <3>3. QED
      BY <2>1, <3>1, <3>2
  <2>3. CASE Dial(j)
    <3>1. TypeOK' /\ JobOK(j)' /\ UNCHANGED adhoc
      BY <2>3, DialOK
    <3>2. ~AdhocCalling /\ \A k \in Jobs : ~Calling(k)
      BY <2>3 DEF Dial, Free
    <3>3. OneCallAtATime'
      BY <2>1, <3>1, <3>2 DEF OneCallAtATime, AdhocCalling
    <3>4. QED
      BY <2>1, <3>1, <3>3
  <2>4. CASE Settles(j)
    <3>1. TypeOK' /\ JobOK(j)' /\ Calling(j) /\ UNCHANGED adhoc
      BY <2>4, SettlesOK
    <3>2. OneCallAtATime'
      BY <2>1, <3>1 DEF OneCallAtATime, AdhocCalling
    <3>3. QED
      BY <2>1, <3>1, <3>2
  <2>5. QED
    BY <1>2, <2>2, <2>3, <2>4, JobStepCases
<1>3. CASE AdhocStep
  <2>1. /\ TypeOK'
        /\ UNCHANGED <<at, attempt, output, calls, escalated>>
        /\ AdhocCalling' => AdhocCalling \/ \A k \in Jobs : ~Calling(k)
    BY <1>3, AdhocOK
  <2>2. \A k \in Jobs : JobOK(k)' /\ (Calling(k)' <=> Calling(k))
    BY <2>1, Bystander
  <2>3. OneCallAtATime'
    BY <2>1, <2>2 DEF OneCallAtATime
  <2>4. QED
    BY <2>1, <2>2, <2>3
<1>4. QED
  BY <1>1, <1>2, <1>3 DEF Next, JobStep, AdhocStep

LEMMA Invariance == Spec => []IInv
BY InitIInv, NextIInv, PTL DEF Spec

---------------------------------------------------------------------------
(* The theorems.                                                           *)

\* Every reachable state of the schedulers is well typed: no scheduler makes
\* more than MaxAttempts attempts (campaigns/workflows.py run).
THEOREM TypeCorrect == Spec => []TypeOK
<1>1. IInv => TypeOK
  BY DEF IInv
<1>2. QED
  BY <1>1, Invariance, PTL

\* However many schedulers and requests dial a customer, he is in one call at
\* a time (the workflow id of campaigns/workflows.py and calls/router.py).
THEOREM VoiceLock == Spec => []OneCallAtATime
<1>1. IInv => OneCallAtATime
  BY DEF IInv
<1>2. QED
  BY <1>1, Invariance, PTL

\* A job never dials again after a call that reached someone or timed out
\* (campaigns/workflows.py run).
THEOREM ReachedOnce == Spec => []NeverRedialled
<1>1. IInv => NeverRedialled
  <2> SUFFICES ASSUME IInv, NEW j \in Jobs, NEW i \in 1 .. Len(calls[j]) - 1
               PROVE  calls[j][i] = "UNANSWERED"
    BY DEF NeverRedialled
  <2>1. /\ at[j] \in Locations /\ attempt[j] \in 1 .. MaxAttempts
        /\ Len(calls[j]) \in Nat /\ JobOK(j)
    BY LenProperties DEF IInv, TypeOK
  <2>2. i \in 1 .. attempt[j] - 1 \/ at[j] \in Ended \/ at[j] \in Giving
    BY <2>1 DEF JobOK, Before, Giving, Locations
  <2>3. CASE at[j] \in Ended
    BY <2>1, <2>3 DEF JobOK, Unanswered
  <2>4. CASE at[j] \in Giving
    BY <2>1, <2>4 DEF JobOK, AllUnanswered, Unanswered
  <2>5. CASE i \in 1 .. attempt[j] - 1 /\ at[j] \notin Ended \union Giving
    <3>1. Unanswered(j, attempt[j] - 1) \/ Unanswered(j, attempt[j])
      BY <2>1, <2>5 DEF JobOK, Before, Giving, Locations
    <3>2. i \in 1 .. attempt[j] - 1 /\ i \in 1 .. attempt[j]
      BY <2>1, <2>5
    <3>3. QED
      BY <3>1, <3>2 DEF Unanswered
  <2>6. QED
    BY <2>2, <2>3, <2>4, <2>5
<1>2. QED
  BY <1>1, Invariance, PTL

\* The attempts a job reports are the calls it placed: an ineligible or a
\* conflicting attempt is not among them (campaigns/workflows.py).
THEOREM HonestCount == Spec => []AttemptsAreCounted
<1>1. IInv => AttemptsAreCounted
  BY DEF IInv, JobOK, AttemptsAreCounted
<1>2. QED
  BY <1>1, Invariance, PTL

\* A job gives up, and asks for a human, only after MaxAttempts calls nobody
\* took (campaigns/workflows.py _handle_attempts_exhausted).
THEOREM EarnedExhaustion == Spec => []ExhaustionIsEarned
<1>1. IInv => ExhaustionIsEarned
  <2> SUFFICES ASSUME IInv, NEW j \in Jobs,
                      \/ j \in escalated
                      \/ output[j].disposition = "AUTOMATED_CONTACT_UNSUCCESSFUL"
               PROVE  calls[j] = [i \in 1 .. MaxAttempts |-> "UNANSWERED"]
    BY DEF ExhaustionIsEarned
  <2>1. Len(calls[j]) = MaxAttempts /\ Unanswered(j, MaxAttempts)
    BY DEF IInv, JobOK, AllUnanswered
  <2>2. calls[j] \in [1 .. MaxAttempts -> Live \union Results]
    BY <2>1, LenProperties DEF IInv, TypeOK
  <2>3. QED
    BY <2>1, <2>2 DEF Unanswered
<1>2. QED
  BY <1>1, Invariance, PTL
---------------------------------------------------------------------------
(* What the customer is promised.                                          *)

Reached == {"OTHER", "TIMED_OUT"}
Over(j) == Last(calls[j]) \in Reached

LEMMA LineInit == Init => Line!Init
<1> SUFFICES ASSUME Init PROVE Line!Init
  OBVIOUS
<1>1. \A j \in Jobs : calls[j] = <<>> /\ Last(calls[j]) = "NONE" /\ Len(calls[j]) = 0
  BY DEF Init, Last
<1>2. ~AdhocCalling /\ \A j \in Jobs : ~Calling(j)
  BY <1>1 DEF Init, AdhocCalling, Calling, Live, Last
<1>3. QED
  BY <1>1, <1>2 DEF Line!Init

\* A scheduler that may dial has calls left, and none of its calls was taken.
LEMMA MayDial ==
    ASSUME TypeOK, NEW j \in Jobs, JobOK(j), Dial(j)
    PROVE  ~Over(j) /\ Len(calls[j]) < MaxAttempts /\ Len(calls[j]) \in Nat
<1>1. at[j] = "dial" /\ attempt[j] \in 1 .. MaxAttempts /\ Len(calls[j]) \in Nat
  BY LenProperties DEF Dial, Goto, TypeOK
<1>2. Len(calls[j]) = attempt[j] - 1 /\ Unanswered(j, attempt[j] - 1)
  BY <1>1 DEF JobOK, Before
<1>3. CASE calls[j] = <<>>
  BY <1>1, <1>2, <1>3 DEF Over, Reached, Last
<1>4. CASE calls[j] # <<>>
  <2>1. Len(calls[j]) \in 1 .. attempt[j] - 1 /\ Last(calls[j]) = calls[j][Len(calls[j])]
    BY <1>1, <1>2, <1>4, EmptySeq DEF TypeOK, Last
  <2>2. Last(calls[j]) = "UNANSWERED"
    BY <1>2, <2>1 DEF Unanswered
  <2>3. QED
    BY <1>1, <1>2, <2>2 DEF Over, Reached
<1>5. QED
  BY <1>3, <1>4

LEMMA DialRings ==
    ASSUME TypeOK, NEW j \in Jobs, JobOK(j), Dial(j)
    PROVE  Line!Ring(j)
<1>1. ~Over(j) /\ Len(calls[j]) < MaxAttempts /\ Len(calls[j]) \in Nat
  BY MayDial
<1>2. ~AdhocCalling /\ \A k \in Jobs : ~Calling(k)
  BY DEF Dial, Free
<1>3. UNCHANGED adhoc /\ calls'[j] = Append(calls[j], "RUNNING")
      /\ \A k \in Jobs \ {j} : calls'[k] = calls[k]
  BY DEF Dial, TypeOK
<1>4. calls[j] \in Seq(CallStates) /\ "RUNNING" \in CallStates
  BY DEF TypeOK, CallStates, Live
<1>5. Last(calls'[j]) = "RUNNING" /\ Len(calls'[j]) = Len(calls[j]) + 1
  BY <1>3, <1>4, LastAppend
<1>6. \A k \in Jobs : (Calling(k)' <=> k = j) /\ (Over(k)' <=> Over(k))
  BY <1>1, <1>2, <1>3, <1>5 DEF Calling, Over, Live, Reached
<1>7. {k \in Jobs : Calling(k)} = {} /\ {k \in Jobs : Calling(k)'} = {j}
  BY <1>2, <1>6
<1>8. {k \in Jobs : Over(k)}' = {k \in Jobs : Over(k)} /\ j \notin {k \in Jobs : Over(k)}
  BY <1>1, <1>6
<1>9. [k \in Jobs |-> Len(calls'[k])] =
          [[k \in Jobs |-> Len(calls[k])] EXCEPT ![j] = @ + 1]
  BY <1>3, <1>5
<1>10. AdhocCalling' = AdhocCalling
  BY <1>3 DEF AdhocCalling
<1>11. QED
  BY <1>1, <1>2, <1>7, <1>8, <1>9, <1>10 DEF Line!Ring, Line!Idle, Over, Reached

LEMMA SettleHangsUp ==
    ASSUME TypeOK, NEW j \in Jobs, Settles(j)
    PROVE  Line!HangUp(j) \/ UNCHANGED Line!vars
<1>1. PICK x \in CallStates :
         /\ Calling(j)
         /\ calls' = [calls EXCEPT ![j] = SetLast(@, x)]
         /\ UNCHANGED adhoc
  BY DEF Settles, Finish, Hang, TimeOut, Calling, CallStates, Live, Results
<1>2. calls[j] \in Seq(CallStates) /\ calls[j] # <<>>
  BY <1>1 DEF TypeOK, CallStates, Calling, Last, Live
<1>3. calls'[j] = SetLast(calls[j], x) /\ \A k \in Jobs \ {j} : calls'[k] = calls[k]
  BY <1>1 DEF TypeOK
<1>4. Last(calls'[j]) = x /\ Len(calls'[j]) = Len(calls[j])
  BY <1>2, <1>3, LastSetLast
<1>5. AdhocCalling' = AdhocCalling
  BY <1>1 DEF AdhocCalling
<1>6. [k \in Jobs |-> Len(calls'[k])] = [k \in Jobs |-> Len(calls[k])]
  BY <1>3, <1>4
<1>7. ~Over(j) /\ (Calling(j)' <=> x \in Live) /\ (Over(j)' <=> x \in Reached)
  BY <1>1, <1>4 DEF Calling, Over, Live, Reached
<1>8. \A k \in Jobs \ {j} : (Calling(k)' <=> Calling(k)) /\ (Over(k)' <=> Over(k))
  BY <1>3 DEF Calling, Over
<1>9. CASE x \in Live
  <2>1. x \notin Reached
    BY <1>9 DEF Live, Reached
  <2>2. {k \in Jobs : Calling(k)'} = {k \in Jobs : Calling(k)}
        /\ {k \in Jobs : Over(k)'} = {k \in Jobs : Over(k)}
    BY <1>1, <1>7, <1>8, <1>9, <2>1
  <2>3. QED
    BY <1>5, <1>6, <2>2 DEF Line!vars, Over, Reached
<1>10. CASE x \notin Live
  <2>1. {k \in Jobs : Calling(k)'} = {k \in Jobs : Calling(k)} \ {j}
    BY <1>7, <1>8, <1>10
  <2>2. {k \in Jobs : Over(k)'} \in
            {{k \in Jobs : Over(k)}, {k \in Jobs : Over(k)} \union {j}}
    BY <1>7, <1>8
  <2>3. j \in {k \in Jobs : Calling(k)}
    BY <1>1
  <2>4. QED
    BY <1>5, <1>6, <2>1, <2>2, <2>3 DEF Line!HangUp, Over, Reached
<1>11. QED
  BY <1>9, <1>10

LEMMA AdhocOnLine ==
    ASSUME TypeOK, AdhocStep
    PROVE  Line!RingAdhoc \/ Line!HangUpAdhoc \/ UNCHANGED Line!vars
<1> DEFINE S == Live \union {"ENDED"}
<1>1. calls' = calls
  BY DEF AdhocStep, StartCall, AdhocEnds, AdhocHangs, FlipSwitch
<1>2. /\ {k \in Jobs : Calling(k)'} = {k \in Jobs : Calling(k)}
      /\ {k \in Jobs : Over(k)'} = {k \in Jobs : Over(k)}
      /\ [k \in Jobs |-> Len(calls'[k])] = [k \in Jobs |-> Len(calls[k])]
  BY <1>1 DEF Calling, Over
<1>3. adhoc \in Seq(S)
  BY DEF TypeOK
<1>4. CASE StartCall
  <2>1. ~AdhocCalling /\ \A k \in Jobs : ~Calling(k)
    BY <1>4 DEF StartCall
  <2>2. Last(adhoc') = "RUNNING"
    BY <1>3, <1>4, LastAppend DEF StartCall, Live
  <2>3. AdhocCalling' = TRUE
    BY <2>2 DEF AdhocCalling, Live
  <2>4. QED
    BY <1>2, <2>1, <2>3 DEF Line!RingAdhoc, Line!Idle, Over, Reached
<1>5. CASE AdhocEnds \/ AdhocHangs
  <2>1. AdhocCalling /\ adhoc # <<>>
    BY <1>5 DEF AdhocEnds, AdhocHangs, AdhocCalling, Live, Last
  <2>2. PICK x \in S : adhoc' = SetLast(adhoc, x)
    BY <1>5 DEF AdhocEnds, AdhocHangs, Live
  <2> HIDE DEF S
  <2>3. Last(adhoc') = x
    BY <1>3, <2>1, <2>2, LastSetLast
  <2>4. AdhocCalling' = (x \in Live) /\ AdhocCalling = TRUE
    BY <2>1, <2>3 DEF AdhocCalling
  <2>5. CASE x \in Live
    BY <1>2, <2>4, <2>5 DEF Line!vars, Over, Reached
  <2>6. CASE x \notin Live
    <3>1. AdhocCalling' = FALSE
      BY <2>3, <2>6 DEF AdhocCalling
    <3>2. QED
      BY <1>2, <2>1, <3>1 DEF Line!HangUpAdhoc, Over, Reached
  <2>7. QED
    BY <2>5, <2>6
<1>6. CASE FlipSwitch
  <2>1. AdhocCalling' = AdhocCalling
    BY <1>6 DEF FlipSwitch, AdhocCalling
  <2>2. QED
    BY <1>2, <2>1 DEF Line!vars, Over, Reached
<1>7. QED
  BY <1>4, <1>5, <1>6 DEF AdhocStep

LEMMA LineStep == IInv /\ [Next]_vars => [Line!Next]_(Line!vars)
<1> SUFFICES ASSUME IInv, [Next]_vars PROVE Line!Next \/ UNCHANGED Line!vars
  OBVIOUS
<1>1. ASSUME UNCHANGED <<calls, adhoc>>
      PROVE  UNCHANGED Line!vars
  BY <1>1 DEF Line!vars, Calling, AdhocCalling
<1>2. ASSUME NEW j \in Jobs, JobStep(j)
      PROVE  Line!Next \/ UNCHANGED Line!vars
  <2>1. CASE Decides(j)
    BY <1>1, <2>1, DecidesOK DEF IInv
  <2>2. CASE Dial(j)
    BY <2>2, DialRings DEF IInv, Line!Next
  <2>3. CASE Settles(j)
    BY <2>3, SettleHangsUp DEF IInv, Line!Next
  <2>4. QED
    BY <1>2, <2>1, <2>2, <2>3, JobStepCases
<1>3. CASE AdhocStep
  BY <1>3, AdhocOnLine DEF IInv, Line!Next
<1>4. CASE UNCHANGED vars
  BY <1>1, <1>4 DEF vars
<1>5. QED
  BY <1>2, <1>3, <1>4 DEF Next, JobStep, AdhocStep

\* Whichever schedulers and requests compete for a customer, and whatever hangs or times
\* out, he gets what CustomerLine promises: one call at a time, no more than a job's
\* attempts of them, and none from a job that reached him (campaigns/workflows.py run,
\* calls/router.py start_call).
THEOREM CustomerIsSpared == Spec => ImplementsLine
BY LineInit, Invariance, LineStep, PTL DEF Spec, ImplementsLine, Line!Spec
===========================================================================
