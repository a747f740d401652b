-------------------------- MODULE RetryScheduler --------------------------
(***************************************************************************)
(* backend/src/campaigns/workflows.py: the RetrySchedulerWorkflows of one  *)
(* customer's call jobs, the calls they place, and the ad-hoc calls of     *)
(* POST /calls (calls/router.py), which compete with them for the workflow *)
(* id call-session-{customer_id}: Temporal runs one workflow per id, and   *)
(* that is the distributed voice lock (calls/constants.py).                *)
(*                                                                         *)
(* A call is a CallSessionWorkflow, specified in CallSession.  Here it is  *)
(* its result, or the fact that it hangs: CallSession shows it may.        *)
(***************************************************************************)
EXTENDS Naturals, Sequences

CONSTANTS
    Jobs,          \* call jobs of one customer
    MaxAttempts,   \* campaigns/constants.py MAX_ATTEMPTS
    MaxAdhoc       \* bound: ad-hoc calls

ASSUME MaxAttemptsAssumption == MaxAttempts \in Nat \ {0}
ASSUME MaxAdhocAssumption == MaxAdhoc \in Nat

VARIABLES
    at,        \* job -> where its workflow stands
    attempt,   \* job -> attempt_number
    output,    \* job -> [disposition, made], once it returned
    calls,     \* job -> its calls (call_attempt rows), oldest first
    adhoc,     \* the calls of POST /calls, oldest first
    escalated, \* jobs with an {call_job_id}-EXHAUSTED claim action
    enabled    \* settings.GLOBAL_OUTBOUND_ENABLED

vars == <<at, attempt, output, calls, adhoc, escalated, enabled>>

Live == {"RUNNING", "HUNG"}
\* _NO_ANSWER_LIKE, any other disposition, and no disposition at all.
Results == {"UNANSWERED", "OTHER", "TIMED_OUT"}
Dispositions == {"CALL_NOT_ELIGIBLE", "CONCURRENT_CALL_CONFLICT", "OTHER",
                 "AUTOMATED_CONTACT_UNSUCCESSFUL"}
Ended == {"returned", "failed"}
Locations == {"check", "not_eligible", "dial", "calling", "conflict", "pause",
              "exhausted", "escalate"} \union Ended

NoOutput == [disposition |-> "NONE", made |-> 0]

TypeOK ==
    /\ at \in [Jobs -> Locations]
    /\ attempt \in [Jobs -> 1 .. MaxAttempts]
    /\ output \in [Jobs -> [disposition: Dispositions \union {"NONE"},
                            made: 0 .. MaxAttempts]]
    /\ calls \in [Jobs -> Seq(Live \union Results)]
    /\ adhoc \in Seq(Live \union {"ENDED"})
    /\ Len(adhoc) <= MaxAdhoc
    /\ escalated \subseteq Jobs
    /\ enabled \in BOOLEAN

Init ==
    /\ at = [j \in Jobs |-> "check"]
    /\ attempt = [j \in Jobs |-> 1]
    /\ output = [j \in Jobs |-> NoOutput]
    /\ calls = [j \in Jobs |-> <<>>]
    /\ adhoc = <<>>
    /\ escalated = {}
    /\ enabled = TRUE

---------------------------------------------------------------------------
(* The lock: the calls in progress.                                        *)

Last(s) == IF s = <<>> THEN "NONE" ELSE s[Len(s)]
SetLast(s, x) == [s EXCEPT ![Len(s)] = x]

Calling(j) == Last(calls[j]) \in Live
AdhocCalling == Last(adhoc) \in Live

\* Mutant: the id names the job, not the customer.
FreeForJob(j) == ~Calling(j)

\* call-session-{customer_id} is not in use.
Free(j) == ~AdhocCalling /\ \A k \in Jobs : ~Calling(k)

Goto(j, from, to) ==
    /\ at[j] = from
    /\ at' = [at EXCEPT ![j] = to]

Return(j, from, disposition, made) ==
    /\ Goto(j, from, "returned")
    /\ output' = [output EXCEPT ![j] = [disposition |-> disposition, made |-> made]]

---------------------------------------------------------------------------
(* RetrySchedulerWorkflow.run.                                             *)

\* check_call_eligibility reads the claim, the CLI and the contact calendar.
\* Its answer is used later, by Dial.
CheckEligibility(j) ==
    /\ Goto(j, "check", "dial") \/ Goto(j, "check", "not_eligible")
    /\ UNCHANGED <<attempt, output, calls, adhoc, escalated, enabled>>

NotEligible(j) ==
    /\ Return(j, "not_eligible", "CALL_NOT_ELIGIBLE", attempt[j] - 1)
    /\ UNCHANGED <<attempt, calls, adhoc, escalated, enabled>>

\* execute_child_workflow.  The kill switch is not read on this path.
Dial(j) ==
    /\ Free(j)
    /\ Goto(j, "dial", "calling")
    /\ calls' = [calls EXCEPT ![j] = Append(@, "RUNNING")]
    /\ UNCHANGED <<attempt, output, adhoc, escalated, enabled>>

\* WorkflowAlreadyStartedError.
DialConflict(j) ==
    /\ ~Free(j)
    /\ Goto(j, "dial", "conflict")
    /\ UNCHANGED <<attempt, output, calls, adhoc, escalated, enabled>>

\* Mutant: the aborted attempt is counted.
ConflictCounted(j) ==
    /\ Return(j, "conflict", "CONCURRENT_CALL_CONFLICT", attempt[j])
    /\ UNCHANGED <<attempt, calls, adhoc, escalated, enabled>>

\* _finalize_concurrent_conflict
Conflict(j) ==
    /\ Return(j, "conflict", "CONCURRENT_CALL_CONFLICT", attempt[j] - 1)
    /\ UNCHANGED <<attempt, calls, adhoc, escalated, enabled>>

\* The child's result reaches the scheduler: done, exhausted, or try again.
HearResult(j, last) ==
    /\ at[j] = "calling"
    /\ \/ /\ Last(calls[j]) = "OTHER"
          /\ Return(j, "calling", "OTHER", attempt[j])
       \/ /\ Last(calls[j]) = "UNANSWERED"
          /\ attempt[j] = last
          /\ Goto(j, "calling", "exhausted")
          /\ UNCHANGED output
       \/ /\ Last(calls[j]) = "UNANSWERED"
          /\ attempt[j] < last
          /\ Goto(j, "calling", "pause")
          /\ UNCHANGED output
    /\ UNCHANGED <<attempt, calls, adhoc, escalated, enabled>>

\* Mutant: the last attempt is given up.
CallEndsEarly(j) == HearResult(j, MaxAttempts - 1)

\* Mutant: range(1, MAX_ATTEMPTS + 1) runs one attempt too many.
CallEndsLate(j) == HearResult(j, MaxAttempts + 1)

\* Mutant: the disposition is not looked at, every call is followed by another.
CallEndsAnyway(j) ==
    /\ Last(calls[j]) \in {"UNANSWERED", "OTHER"}
    /\ attempt[j] < MaxAttempts
    /\ Goto(j, "calling", "pause")
    /\ UNCHANGED <<attempt, output, calls, adhoc, escalated, enabled>>

CallEnds(j) == HearResult(j, MaxAttempts)

\* A child closed by its execution timeout raises: the scheduler fails.
CallFails(j) ==
    /\ Last(calls[j]) = "TIMED_OUT"
    /\ Goto(j, "calling", "failed")
    /\ UNCHANGED <<attempt, output, calls, adhoc, escalated, enabled>>

\* workflow.sleep for the attempt's window, then the next attempt.
Slept(j) ==
    /\ Goto(j, "pause", "check")
    /\ attempt' = [attempt EXCEPT ![j] = @ + 1]
    /\ UNCHANGED <<output, calls, adhoc, escalated, enabled>>

\* _handle_attempts_exhausted: get_status_criticality reads the claim.
Exhausted(j) ==
    /\ \/ Goto(j, "exhausted", "escalate") /\ UNCHANGED output
       \/ Return(j, "exhausted", "AUTOMATED_CONTACT_UNSUCCESSFUL", attempt[j])
    /\ UNCHANGED <<attempt, calls, adhoc, escalated, enabled>>

\* create_action under the job's key, three tries at most.
Escalate(j) ==
    /\ escalated' = escalated \union {j}
    /\ Return(j, "escalate", "AUTOMATED_CONTACT_UNSUCCESSFUL", attempt[j])
    /\ UNCHANGED <<attempt, calls, adhoc, enabled>>

\* All three failed, or only their replies were lost: the scheduler fails.
EscalateFails(j) ==
    /\ Goto(j, "escalate", "failed")
    /\ escalated' \in {escalated, escalated \union {j}}
    /\ UNCHANGED <<attempt, output, calls, adhoc, enabled>>

---------------------------------------------------------------------------
(* The calls.                                                              *)

\* A call ends with a disposition, of its own accord.
Finish(j) ==
    /\ Last(calls[j]) = "RUNNING"
    /\ \E r \in {"UNANSWERED", "OTHER"} : calls' = [calls EXCEPT ![j] = SetLast(@, r)]
    /\ UNCHANGED <<at, attempt, output, adhoc, escalated, enabled>>

Hang(j) ==
    /\ Last(calls[j]) = "RUNNING"
    /\ calls' = [calls EXCEPT ![j] = SetLast(@, "HUNG")]
    /\ UNCHANGED <<at, attempt, output, adhoc, escalated, enabled>>

\* Mutant: the child is started without an execution timeout.
TimeOutNever(j) == FALSE /\ UNCHANGED vars

\* execution_timeout = MAX_CALL_SESSION_SECONDS
TimeOut(j) ==
    /\ Calling(j)
    /\ calls' = [calls EXCEPT ![j] = SetLast(@, "TIMED_OUT")]
    /\ UNCHANGED <<at, attempt, output, adhoc, escalated, enabled>>

\* POST /calls: behind the kill switch, under the same id, with no timeout.
StartCall ==
    /\ enabled
    /\ ~AdhocCalling /\ \A j \in Jobs : ~Calling(j)
    /\ Len(adhoc) < MaxAdhoc
    /\ adhoc' = Append(adhoc, "RUNNING")
    /\ UNCHANGED <<at, attempt, output, calls, escalated, enabled>>

AdhocEnds ==
    /\ Last(adhoc) = "RUNNING"
    /\ adhoc' = SetLast(adhoc, "ENDED")
    /\ UNCHANGED <<at, attempt, output, calls, escalated, enabled>>

AdhocHangs ==
    /\ Last(adhoc) = "RUNNING"
    /\ adhoc' = SetLast(adhoc, "HUNG")
    /\ UNCHANGED <<at, attempt, output, calls, escalated, enabled>>

FlipSwitch ==
    /\ enabled' = ~enabled
    /\ UNCHANGED <<at, attempt, output, calls, adhoc, escalated>>

---------------------------------------------------------------------------
Schedule(j) ==
    \/ CheckEligibility(j) \/ NotEligible(j)
    \/ Dial(j) \/ DialConflict(j) \/ Conflict(j)
    \/ CallEnds(j) \/ CallFails(j) \/ Slept(j)
    \/ Exhausted(j) \/ Escalate(j) \/ EscalateFails(j)

Next ==
    \/ \E j \in Jobs : Schedule(j) \/ Finish(j) \/ Hang(j) \/ TimeOut(j)
    \/ StartCall \/ AdhocEnds \/ AdhocHangs \/ FlipSwitch

Spec == Init /\ [][Next]_vars

\* Temporal keeps the schedulers, their timers and the execution timeout
\* running; a call that does not hang ends.
FairSpec ==
    /\ Spec
    /\ \A j \in Jobs : WF_vars(Schedule(j)) /\ WF_vars(TimeOut(j))
    /\ WF_vars(AdhocEnds)

---------------------------------------------------------------------------
(* Properties.                                                             *)

\* The voice lock: a customer is in at most one call at a time, whichever
\* schedulers and requests dial him (calls/constants.py, "the distributed
\* voice lock").
OneCallAtATime ==
    /\ \A j, k \in Jobs : Calling(j) /\ Calling(k) => j = k
    /\ AdhocCalling => \A j \in Jobs : ~Calling(j)

\* A job dials again only after calls that nobody took: whoever was reached,
\* or was in a call that timed out, is not called again by that job.
NeverRedialled ==
    \A j \in Jobs : \A i \in 1 .. Len(calls[j]) - 1 : calls[j][i] = "UNANSWERED"

\* attempts_made counts the calls that were placed, neither the ineligible
\* attempt nor the one that lost the lock ("aborted without consuming a
\* customer retry attempt").
AttemptsAreCounted ==
    \A j \in Jobs : at[j] = "returned" => output[j].made = Len(calls[j])

\* A job reports unsuccessful contact, or files its human follow-up, after
\* all its attempts went unanswered and not before.
ExhaustionIsEarned ==
    \A j \in Jobs :
        j \in escalated \/ output[j].disposition = "AUTOMATED_CONTACT_UNSUCCESSFUL" =>
            calls[j] = [i \in 1 .. MaxAttempts |-> "UNANSWERED"]

\* Every scheduler ends, even when its own calls or an ad-hoc call hang.
JobsEnd == \A j \in Jobs : <>(at[j] \in Ended)

\* "Bounded TTL for the distributed voice lock" (calls/constants.py:112):
\* whatever call holds the customer's id gives it back.
LockIsFreed == AdhocCalling ~> ~AdhocCalling

\* "Every outbound-triggering code path ... goes through this single
\* function" (kill_switch.py:3): no call is placed while outbound is off.
NoCallWhileDisabled ==
    [][~enabled => \A j \in Jobs : Len(calls'[j]) = Len(calls[j])]_vars

Line == INSTANCE CustomerLine WITH
    ringing <- {j \in Jobs : Calling(j)},
    adhocCall <- AdhocCalling,
    placed <- [j \in Jobs |-> Len(calls[j])],
    reached <- {j \in Jobs : Last(calls[j]) \in {"OTHER", "TIMED_OUT"}}

\* Whichever schedulers and requests compete for the customer, and whatever hangs or
\* times out: he is in one call at a time, passed on to another only when it is over,
\* and a job that reached him, or has used its attempts, never calls him again.
ImplementsLine == Line!Spec
===========================================================================
