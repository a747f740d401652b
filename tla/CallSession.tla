---------------------------- MODULE CallSession ----------------------------
(***************************************************************************)
(* backend/src/calls/workflows.py: one execution of CallSessionWorkflow,   *)
(* the activities it calls (calls/activities.py, calls/service.py,         *)
(* verification/service.py, actions/service.py) and the rows they write.   *)
(*                                                                         *)
(* Temporal runs the workflow: between two awaits it is atomic, and an     *)
(* activity that fails is retried without limit (only deliver_status and   *)
(* generate_call_summary have a retry policy).  So an activity is one      *)
(* step, enabled when its transaction can commit: a transaction that       *)
(* always fails leaves the workflow where it is, for ever.  A commit whose *)
(* acknowledgment is lost is a step that changes the rows and leaves the   *)
(* workflow waiting for the activity, which then runs again.               *)
(*                                                                         *)
(* Signals arrive at any time and never interrupt an activity.             *)
(***************************************************************************)
EXTENDS Naturals, Sequences, Disposition, ClaimStatus

CONSTANTS
    Signals,        \* what customer_utterance / otp_response may carry
    FactorOnFile,   \* may the customer have an auth factor? subset of BOOLEAN
    OtpLateness,    \* may an OTP answer come after the TTL? subset of BOOLEAN
    TimeLimited,    \* started with an execution_timeout?  A scheduler's child is
    MaxAuthAttempts, MaxOtpAttempts,  \* verification/constants.py
    MaxQueue,       \* bound: signals queued at once
    MaxLost         \* bound: acknowledgments lost, and claims left PENDING

Intents == {"RIGHT_PARTY_CONFIRMED", "WRONG_PARTY", "CUSTOMER_UNAVAILABLE",
            "CUSTOMER_DRIVING", "AUTH_ANSWER", "REQUEST_OTP", "OTP_ANSWER",
            "ASK_QUESTION", "DISPUTE_DOCUMENT", "DISSATISFIED",
            "COMPLAINT_REQUEST", "REQUEST_HUMAN", "NOTHING_ELSE",
            "AI_SCHEDULE_CALLBACK", "AI_CREATE_ACTION", "AI_SEND_SECURE_LINK"}

\* A signal is its intent and, for an answer, whether the value is right.
Signal == [intent: Intents, right: BOOLEAN]
NoSignal == [intent |-> "NONE", right |-> FALSE]

ASSUME SignalsAssumption == Signals \subseteq Signal
ASSUME ChoicesAssumption ==
    /\ FactorOnFile \in SUBSET BOOLEAN
    /\ OtpLateness \in SUBSET BOOLEAN
    /\ TimeLimited \in BOOLEAN
ASSUME BoundsAssumption ==
    /\ MaxAuthAttempts \in Nat \ {0}
    /\ MaxOtpAttempts \in Nat \ {0}
    /\ MaxQueue \in Nat
    /\ MaxLost \in Nat

VARIABLES
    wf,      \* the workflow's own memory, and the await it stands at
    inbox,   \* what signal handlers have left for it
    db,      \* the rows of this call
    lost     \* acknowledgments lost so far

vars == <<wf, inbox, db, lost>>

Stages == {"start", "party", "auth", "otp", "follow"}
Activities == {"attempt", "classify", "session", "note", "confirm", "factor",
               "verify_level1", "save_level", "send_otp", "verify_otp",
               "deliver", "disclose", "dtmf_audit", "write", "monitor",
               "finalize", "audit", "summary"}
Ended == {"closed", "terminated"}
Parties == {"unknown", "right", "other"}   \* right_party: None, True, False
Tables == {"action", "link", "callback", "escalation", "complaint"}
Keys == 1 .. 2                       \* {call_id}-ACTION-{sequence}
Resolutions == {"NONE", "CONTACT_NOT_ESTABLISHED", "CALLBACK_SCHEDULED",
                "HUMAN_TRANSFER", "BACKEND_SYSTEM_FAILURE",
                "FULLY_RESOLVED_BY_AI", "ACTION_CREATED", "COMPLAINT_REGISTERED"}

\* The call_attempt row; "ABSENT": no row, "NONE": not finalized.
Attempt == [disposition: Codes \union {"ABSENT", "NONE"}, rightParty: Parties,
            level: Levels, delivered: Disclosures, resolution: Resolutions]
NewAttempt == [disposition |-> "NONE", rightParty |-> "unknown", level |-> "L0",
               delivered |-> "NOTHING", resolution |-> "NONE"]

\* The call_session row.
Session == [exists: BOOLEAN, rightParty: BOOLEAN, level: Levels, disclosed: BOOLEAN]
NewSession == [exists |-> TRUE, rightParty |-> FALSE, level |-> "L0", disclosed |-> FALSE]

\* CallSessionWorkflow's fields, and what it passes to the activity it awaits.
Memory == [at: Activities \union Ended \union {"wait"}, stage: Stages,
           heard: Signal \union {NoSignal}, late: BOOLEAN, factor: BOOLEAN,
           rightParty: Parties, level: Levels, delivered: Disclosures,
           table: Tables \union {"none"}, seq: 0 .. 2, final: FinalStates,
           flags: SUBSET Flags, resolution: Resolutions]

Inbox == [queue: Seq(Signal), dropped: BOOLEAN, dtmf: {"NONE", "CALLBACK", "HUMAN"}]

Rows == [attempt: Attempt, session: Session, intents: SUBSET Intents,
         match: Nat, miss: Nat, otp: {"ABSENT", "SENT", "VERIFIED", "LOCKED"},
         wrong: Nat, claim: [Keys -> {"absent", "pending", "done"}],
         rows: Seq(Tables), monitor: BOOLEAN,
         audits: SUBSET (Codes \union {"DTMF_FALLBACK_ACTIVATED"})]

TypeOK ==
    /\ wf \in Memory
    /\ inbox \in Inbox
    /\ Len(inbox.queue) <= MaxQueue
    /\ db \in Rows
    /\ lost \in 0 .. MaxLost

Init ==
    /\ wf = [at |-> "attempt", stage |-> "start", heard |-> NoSignal, late |-> FALSE,
             factor |-> FALSE, rightParty |-> "unknown", level |-> "L0",
             delivered |-> "NOTHING", table |-> "none", seq |-> 0,
             final |-> "CLOSE", flags |-> {}, resolution |-> "NONE"]
    /\ inbox = [queue |-> <<>>, dropped |-> FALSE, dtmf |-> "NONE"]
    /\ db = [attempt |-> [NewAttempt EXCEPT !.disposition = "ABSENT"],
             session |-> [NewSession EXCEPT !.exists = FALSE], intents |-> {}, match |-> 0,
             miss |-> 0, otp |-> "ABSENT", wrong |-> 0,
             claim |-> [k \in Keys |-> "absent"], rows |-> <<>>,
             monitor |-> FALSE, audits |-> {}]
    /\ lost = 0

---------------------------------------------------------------------------
(* The signal handlers.                                                    *)

Running == wf.at \notin Ended

\* customer_utterance, otp_response, human_request_detected.
Speak ==
    /\ Running
    /\ Len(inbox.queue) < MaxQueue
    /\ \E s \in Signals : inbox' = [inbox EXCEPT !.queue = Append(@, s)]
    /\ UNCHANGED <<wf, db, lost>>

call_dropped ==
    /\ Running
    /\ inbox' = [inbox EXCEPT !.dropped = TRUE]
    /\ UNCHANGED <<wf, db, lost>>

dtmf_fallback ==
    /\ Running
    /\ \E a \in {"CALLBACK", "HUMAN"} : inbox' = [inbox EXCEPT !.dtmf = a]
    /\ UNCHANGED <<wf, db, lost>>

---------------------------------------------------------------------------
(* Helpers: an activity's reply, and the workflow's own moves.             *)

\* The workflow gets the reply and becomes w; or the reply is lost and the
\* activity will run again.
Reply(w) ==
    /\ \/ wf' = w /\ UNCHANGED lost
       \/ lost < MaxLost /\ lost' = lost + 1 /\ UNCHANGED wf
    /\ UNCHANGED inbox

\* An activity whose repetition changes nothing needs no lost reply.
Answered(w) == wf' = w /\ UNCHANGED <<inbox, lost>>

Waiting(w, stage) == [w EXCEPT !.at = "wait", !.stage = stage, !.heard = NoSignal]

\* _finalize(final_state, **flags)
Ending(w, final, flags) ==
    [w EXCEPT !.at = "finalize", !.heard = NoSignal, !.final = final, !.flags = flags]

\* One idempotent business write under _next_action_key, then _finalize.
Writing(w, table, resolution, flags) ==
    [w EXCEPT !.at = "write", !.heard = NoSignal, !.table = table, !.seq = @ + 1,
              !.resolution = resolution, !.final = "CLOSE", !.flags = flags]

\* Mutant: right_party is left as it was.
NobodyUnset(w) == w

\* self._right_party = False
Nobody(w) == [w EXCEPT !.rightParty = "other"]

\* _escalate_to_human
Escalating(w, flags) ==
    Writing(w, "escalation", "HUMAN_TRANSFER", flags \union {"human_transferred"})

---------------------------------------------------------------------------
(* run(): contact.                                                         *)

\* A second insert of the same primary key fails, for ever.
create_call_attempt ==
    /\ wf.at = "attempt"
    /\ db.attempt.disposition = "ABSENT"
    /\ db' = [db EXCEPT !.attempt = NewAttempt]
    /\ Reply([wf EXCEPT !.at = "classify"])

\* count_recent_attempts, the REPEATED_CONTACT event, and classify_answer.
classify_answer ==
    /\ wf.at = "classify"
    /\ \/ Answered([wf EXCEPT !.at = "session"])
       \/ \E a \in {"NO_ANSWER", "VOICEMAIL", "FAILED"} :
            Answered(Ending([wf EXCEPT !.resolution = "CONTACT_NOT_ESTABLISHED"], a, {}))
    /\ UNCHANGED db

\* call_session.call_attempt_id is unique: as for the attempt.
create_call_session ==
    /\ wf.at = "session"
    /\ ~db.session.exists
    /\ db' = [db EXCEPT !.session = NewSession]
    /\ Reply(Waiting(wf, "party"))

---------------------------------------------------------------------------
(* _wait_for_signal and its None branch, the same in every stage.          *)

Dequeue ==
    /\ wf.at = "wait"
    /\ inbox.queue # <<>>
    /\ wf' = [wf EXCEPT !.at = "note", !.heard = Head(inbox.queue)]
    /\ inbox' = [inbox EXCEPT !.queue = Tail(@)]
    /\ UNCHANGED <<db, lost>>

NothingQueued == wf.at = "wait" /\ inbox.queue = <<>>

Keypad ==
    /\ NothingQueued
    /\ inbox.dtmf # "NONE"
    /\ Answered([wf EXCEPT !.at = "dtmf_audit"])
    /\ UNCHANGED db

Delivered == IF wf.stage = "follow" THEN {"status_delivered"} ELSE {}

Dropped ==
    /\ NothingQueued
    /\ inbox.dtmf = "NONE"
    /\ inbox.dropped
    /\ Answered(Ending(wf, "CLOSE", {"call_dropped"} \union Delivered))
    /\ UNCHANGED db

\* _SIGNAL_WAIT_TIMEOUT: five minutes of silence.
SilenceIn(stages) ==
    /\ NothingQueued
    /\ inbox.dtmf = "NONE"
    /\ ~inbox.dropped
    /\ wf.stage \in stages
    /\ Answered(
         CASE wf.stage = "party" -> Ending(Nobody(wf), "CUSTOMER_UNAVAILABLE", {})
           [] wf.stage \in {"auth", "otp"} -> Ending(wf, "AUTH_FAILED", {})
           [] wf.stage = "follow" ->
                Ending([wf EXCEPT !.resolution = "FULLY_RESOLVED_BY_AI"], "CLOSE", Delivered))
    /\ UNCHANGED db

\* Mutant: one stage waits without a timeout.
SilenceOutlasted == SilenceIn(Stages \ {"otp"})

Silence == SilenceIn(Stages)

\* _handle_dtmf_fallback: the choice is read again after the audit event.
HandleKeypad ==
    /\ wf.at = "dtmf_audit"
    /\ db' = [db EXCEPT !.audits = @ \union {"DTMF_FALLBACK_ACTIVATED"}]
    /\ IF inbox.dtmf = "HUMAN"
       THEN Answered(Escalating(wf, {"dtmf_fallback"}))
       ELSE Answered(Writing(wf, "callback", "CALLBACK_SCHEDULED",
                             {"dtmf_fallback", "callback_requested"}))

---------------------------------------------------------------------------
(* _record_intent, and what each stage then does with the signal.          *)

\* Mutant: a stage acts on a signal it has not recorded.
HearUnrecorded(stage, intents) ==
    /\ wf.at = "note"
    /\ wf.stage = stage
    /\ wf.heard.intent \in intents
    /\ UNCHANGED db

\* The signal's intent is written before the stage acts on it.
Hear(stage, intents) ==
    /\ wf.at = "note"
    /\ wf.stage = stage
    /\ wf.heard.intent \in intents
    /\ db' = [db EXCEPT !.intents = @ \union {wf.heard.intent}]

\* _run_right_party_check
HearParty ==
    \/ /\ Hear("party", {"WRONG_PARTY", "CUSTOMER_UNAVAILABLE"})
       /\ Answered(Ending(Nobody(wf), wf.heard.intent, {}))
    \/ /\ Hear("party", {"CUSTOMER_DRIVING"})
       /\ Answered(Writing(wf, "callback", "CALLBACK_SCHEDULED", {"callback_requested"}))
    \/ /\ Hear("party", {"REQUEST_HUMAN"})
       /\ Answered(Escalating(wf, {}))
    \/ /\ Hear("party", {"RIGHT_PARTY_CONFIRMED"})
       /\ Answered([wf EXCEPT !.rightParty = "right", !.at = "confirm"])
    \/ /\ Hear("party", Intents \ {"WRONG_PARTY", "CUSTOMER_UNAVAILABLE",
                  "CUSTOMER_DRIVING", "REQUEST_HUMAN", "RIGHT_PARTY_CONFIRMED"})
       /\ Answered(Waiting(wf, "party"))

\* _run_authentication
HearAuth ==
    \/ /\ Hear("auth", {"REQUEST_HUMAN"})
       /\ Answered(Escalating(wf, {}))
    \/ /\ Hear("auth", {"REQUEST_OTP"})
       /\ Answered([wf EXCEPT !.at = "send_otp"])
    \/ /\ Hear("auth", {"AUTH_ANSWER"})
       /\ Answered([wf EXCEPT !.at = "verify_level1"])
    \/ /\ Hear("auth", Intents \ {"REQUEST_HUMAN", "REQUEST_OTP", "AUTH_ANSWER"})
       /\ Answered(Waiting(wf, "auth"))

\* _run_otp_challenge: `now` is read once, when verify_otp is scheduled.
HearOtp ==
    \/ /\ Hear("otp", {"REQUEST_HUMAN"})
       /\ Answered(Escalating(wf, {}))
    \/ /\ Hear("otp", {"OTP_ANSWER"})
       /\ \E l \in OtpLateness : Answered([wf EXCEPT !.at = "verify_otp", !.late = l])
    \/ /\ Hear("otp", Intents \ {"REQUEST_HUMAN", "OTP_ANSWER"})
       /\ Answered(Waiting(wf, "otp"))

\* The table a follow-up intent writes to.
ActionIntents == {"DISPUTE_DOCUMENT", "DISSATISFIED", "AI_CREATE_ACTION"}

\* _run_status_and_follow_up, after its one wait: no signal is put off here.
HearFollowUp ==
    \/ /\ Hear("follow", {"ASK_QUESTION"})
       /\ Answered(Ending([wf EXCEPT !.resolution = "FULLY_RESOLVED_BY_AI"],
                          "CLOSE", Delivered \union {"question_resolved"}))
    \/ /\ Hear("follow", ActionIntents)
       /\ Answered(Writing(wf, "action", "ACTION_CREATED", Delivered \union {"action_created"}))
    \/ /\ Hear("follow", {"AI_SEND_SECURE_LINK"})
       /\ Answered(Writing(wf, "link", "ACTION_CREATED", Delivered \union {"action_created"}))
    \/ /\ Hear("follow", {"COMPLAINT_REQUEST"})
       /\ Answered(Writing(wf, "complaint", "COMPLAINT_REGISTERED",
                           Delivered \union {"complaint_created"}))
    \/ /\ Hear("follow", {"AI_SCHEDULE_CALLBACK"})
       /\ Answered(Writing(wf, "callback", "CALLBACK_SCHEDULED",
                           Delivered \union {"callback_requested"}))
    \/ /\ Hear("follow", {"REQUEST_HUMAN"})
       /\ Answered(Escalating(wf, {}))
    \/ /\ Hear("follow", Intents \ (ActionIntents \union {"ASK_QUESTION",
              "AI_SEND_SECURE_LINK", "COMPLAINT_REQUEST", "AI_SCHEDULE_CALLBACK",
              "REQUEST_HUMAN"}))
       /\ Answered(Ending([wf EXCEPT !.resolution = "FULLY_RESOLVED_BY_AI"],
                          "CLOSE", Delivered))

---------------------------------------------------------------------------
(* Authentication.                                                         *)

\* update_call_session writes only the columns it is given.
ConfirmParty ==
    /\ wf.at = "confirm"
    /\ db' = [db EXCEPT !.session.rightParty = TRUE]
    /\ Reply([wf EXCEPT !.at = "factor"])

get_configured_auth_factor_type ==
    /\ wf.at = "factor"
    /\ \E f \in FactorOnFile : Answered(Waiting([wf EXCEPT !.factor = f], "auth"))
    /\ UNCHANGED db

\* One comparison is one verification_attempt row, and the rows are counted
\* in the same transaction.  Without a factor on file it raises, for ever.
CompareFactor(limit) ==
    /\ wf.at = "verify_level1"
    /\ wf.factor
    /\ IF wf.heard.right
       THEN /\ db' = [db EXCEPT !.match = @ + 1]
            /\ Reply([wf EXCEPT !.level = "L1", !.at = "save_level"])
       ELSE /\ db' = [db EXCEPT !.miss = @ + 1]
            /\ IF db'.match + db'.miss >= limit
               THEN Reply(Ending(wf, "AUTH_FAILED", {}))
               ELSE Reply(Waiting(wf, "auth"))

\* Mutant: > for >=.
verify_level1_once_more == CompareFactor(MaxAuthAttempts + 1)

verify_level1 == CompareFactor(MaxAuthAttempts)

\* get_customer_phone and send_otp.  A second send within the cooldown
\* raises, and a retry carries the first attempt's `now`.
send_otp ==
    /\ wf.at = "send_otp"
    /\ db.otp = "ABSENT"
    /\ db' = [db EXCEPT !.otp = "SENT", !.wrong = 0]
    /\ Reply(Waiting(wf, "otp"))

\* OtpLockedError and OtpExpiredError are raised, rolled back, and retried
\* with the same `now`: the workflow's `except` is never reached.
verify_otp ==
    /\ wf.at = "verify_otp"
    /\ db.otp # "LOCKED"
    /\ ~wf.late
    /\ IF wf.heard.right
       THEN /\ db' = [db EXCEPT !.otp = "VERIFIED"]
            /\ Reply([wf EXCEPT !.level = "L2", !.at = "save_level"])
       ELSE /\ db' = [db EXCEPT !.wrong = @ + 1,
                      !.otp = IF db.wrong + 1 >= MaxOtpAttempts THEN "LOCKED" ELSE @]
            /\ IF db'.otp = "LOCKED"
               THEN Reply(Ending(wf, "CLOSE", {"otp_locked"}))
               ELSE Reply(Waiting(wf, "otp"))

\* Mutant: the columns that were not given are reset.
SaveLevelResetsRow ==
    /\ wf.at = "save_level"
    /\ db' = [db EXCEPT !.session = [NewSession EXCEPT !.level = wf.level]]
    /\ Reply([wf EXCEPT !.at = "deliver", !.heard = NoSignal])

SaveLevel ==
    /\ wf.at = "save_level"
    /\ db' = [db EXCEPT !.session.level = wf.level]
    /\ Reply([wf EXCEPT !.at = "deliver", !.heard = NoSignal])

---------------------------------------------------------------------------
(* Status delivery, business writes, finalization.                         *)

\* Three attempts, then the workflow goes on without a status, as it does without a
\* claim.
deliver_status ==
    /\ wf.at = "deliver"
    /\ \/ \E claim \in ClaimsOnFile :
            Answered([wf EXCEPT !.delivered = get_disclosable_status(claim, wf.level),
                                !.at = "disclose"])
       \/ Answered(Writing(wf, "action", "BACKEND_SYSTEM_FAILURE", {"backend_unavailable"}))
    /\ UNCHANGED db

Disclose ==
    /\ wf.at = "disclose"
    /\ db' = [db EXCEPT !.session.disclosed = TRUE]
    /\ Reply(Waiting(wf, "follow"))

\* Mutant: the branch writes and does not return.
AfterWriteGoOn == Waiting(wf, wf.stage)

AfterWrite == [wf EXCEPT !.at = IF wf.table = "complaint" THEN "monitor" ELSE "finalize"]

\* Mutant: the insert is not wrapped in idempotent().
PerformWriteUnkeyed ==
    /\ wf.at = "write"
    /\ db' = [db EXCEPT !.rows = Append(@, wf.table)]
    /\ Reply(AfterWrite)

\* create_action, send_secure_link, schedule_callback, create_escalation,
\* create_complaint: each runs its insert through idempotent(), specified in
\* Idempotency.  The row and the settled claim are one commit; a retry of a
\* settled key replays it.
PerformWrite ==
    /\ wf.at = "write"
    /\ db.claim[wf.seq] = "absent"
    /\ db' = [db EXCEPT !.claim[wf.seq] = "done", !.rows = Append(@, wf.table)]
    /\ Reply(AfterWrite)

ReplayWrite ==
    /\ wf.at = "write"
    /\ db.claim[wf.seq] = "done"
    /\ Answered(AfterWrite)
    /\ UNCHANGED db

\* The activity died, or its flush failed, between its claim and its insert:
\* every retry then finds a claim in progress.
AbandonWrite ==
    /\ wf.at = "write"
    /\ db.claim[wf.seq] = "absent"
    /\ lost < MaxLost
    /\ lost' = lost + 1
    /\ db' = [db EXCEPT !.claim[wf.seq] = "pending"]
    /\ UNCHANGED <<wf, inbox>>

\* start_child_workflow(ComplaintSlaMonitorWorkflow), abandoned.
StartMonitor ==
    /\ wf.at = "monitor"
    /\ db' = [db EXCEPT !.monitor = TRUE]
    /\ Answered([wf EXCEPT !.at = "finalize"])

DispositionCode == resolve_disposition(wf.final, wf.level # "L0", wf.flags)

finalize_outcome ==
    /\ wf.at = "finalize"
    /\ db' = [db EXCEPT !.attempt =
            [disposition |-> DispositionCode, rightParty |-> wf.rightParty,
             level |-> wf.level, delivered |-> wf.delivered,
             resolution |-> wf.resolution]]
    /\ Reply([wf EXCEPT !.at = "audit"])

record_audit_event ==
    /\ wf.at = "audit"
    /\ db' = [db EXCEPT !.audits = @ \union {DispositionCode}]
    /\ Answered([wf EXCEPT !.at = "summary"])

\* Mutant: a stage's loop goes on after _finalize.
generate_call_summary_no_return ==
    /\ wf.at = "summary"
    /\ Answered([wf EXCEPT !.at = IF wf.stage = "start" THEN "closed" ELSE "wait"])
    /\ UNCHANGED db

\* generate_call_summary: one attempt, its failure suppressed.
generate_call_summary ==
    /\ wf.at = "summary"
    /\ Answered([wf EXCEPT !.at = "closed"])
    /\ UNCHANGED db

---------------------------------------------------------------------------
\* The execution timeout of a RetrySchedulerWorkflow child.
ExecutionTimeout ==
    /\ TimeLimited
    /\ Running
    /\ wf' = [wf EXCEPT !.at = "terminated"]
    /\ UNCHANGED <<inbox, db, lost>>

Contact == create_call_attempt \/ classify_answer \/ create_call_session

Wait == Dequeue \/ Keypad \/ Dropped \/ Silence

Converse == HandleKeypad \/ HearParty \/ HearAuth \/ HearOtp \/ HearFollowUp

Verify ==
    \/ ConfirmParty \/ get_configured_auth_factor_type
    \/ verify_level1 \/ send_otp \/ verify_otp \/ SaveLevel

Conclude ==
    \/ deliver_status \/ Disclose
    \/ PerformWrite \/ ReplayWrite \/ AbandonWrite \/ StartMonitor
    \/ finalize_outcome \/ record_audit_event \/ generate_call_summary

Work == Contact \/ Wait \/ Converse \/ Verify \/ Conclude

Next == Speak \/ call_dropped \/ dtmf_fallback \/ Work \/ ExecutionTimeout

Spec == Init /\ [][Next]_vars

\* Temporal keeps scheduling a workflow's activities and timers, and a
\* customer does not go on talking for ever.
FairSpec ==
    /\ Spec
    /\ WF_vars(Work)
    /\ <>[][Work \/ ExecutionTimeout]_vars

---------------------------------------------------------------------------
(* Properties.                                                             *)

\* What the customer was told, and what he may be told (claims/service.py,
\* calls/workflows.py): a status only after a confirmed right party and a
\* matching answer, and the settlement amount of a claim in one of FINANCIAL_STAGES
\* only after a verified OTP.  (The amount of any other claim is part of its status.)
DisclosureIsEarned ==
    wf.delivered # "NOTHING" =>
        /\ db.session.rightParty
        /\ db.match > 0 \/ db.otp = "VERIFIED"
        /\ wf.delivered = "FINANCIAL_AMOUNT" => db.otp = "VERIFIED"

\* The rows that must stand behind a disposition, and none besides.
Backing(code) ==
    CASE code = "SUCCESS_HUMAN_TRANSFER" -> {<<"escalation">>}
      [] code = "SUCCESS_COMPLAINT_REGISTERED" -> {<<"complaint">>}
      [] code = "SUCCESS_ACTION_CREATED" -> {<<"action">>, <<"link">>}
      [] code = "CALLBACK_REQUESTED" -> {<<"callback">>}
      [] code = "BACKEND_SYSTEM_FAILURE" -> {<<"action">>}
      [] code = "DTMF_FALLBACK_ACTIVATED" -> {<<"callback">>, <<"escalation">>}
      [] OTHER -> {<<>>}

Filed == db.attempt.disposition \notin {"ABSENT", "NONE"}

\* Once an outcome is recorded it is a disposition some rule gave, exactly one
\* business row stands behind a disposition that reports one and none behind
\* any other, and a registered complaint has its SLA monitor.
OutcomeMatchesRows ==
    Filed =>
        /\ db.attempt.disposition # "UNRESOLVED"
        /\ db.rows \in Backing(db.attempt.disposition)
        /\ db.monitor <=> db.rows = <<"complaint">>

\* Knowledge-factor and OTP guesses are limited across retries of their
\* activities: nobody gets in after the last allowed miss, and a lost reply
\* only ever costs the customer a guess.
GuessesAreLimited ==
    /\ wf.level = "L1" => db.miss < MaxAuthAttempts
    /\ wf.level = "L2" => db.wrong < MaxOtpAttempts
    /\ db.match + db.miss <= MaxAuthAttempts + lost
    /\ db.wrong <= MaxOtpAttempts

\* Whenever the workflow listens, the session row a recovering process would
\* read says what the workflow's memory says, whatever replies were lost on
\* the way (calls/activities.py update_call_session).
SessionRowKeepsUp ==
    wf.at = "wait" =>
        /\ db.session.rightParty <=> wf.rightParty = "right"
        /\ db.session.level = wf.level
        /\ db.session.disclosed <=> wf.delivered # "NOTHING"

\* What must be on file before a row of a table may be.
Cause(table) ==
    LET intents == CASE table = "action" -> ActionIntents
                     [] table = "link" -> {"AI_SEND_SECURE_LINK"}
                     [] table = "callback" -> {"CUSTOMER_DRIVING", "AI_SCHEDULE_CALLBACK"}
                     [] table = "escalation" -> {"REQUEST_HUMAN"}
                     [] table = "complaint" -> {"COMPLAINT_REQUEST"}
    IN \/ db.intents \intersect intents # {}
       \/ table \in {"callback", "escalation"} /\ "DTMF_FALLBACK_ACTIVATED" \in db.audits
       \/ table = "action" /\ "backend_unavailable" \in wf.flags

\* Nothing is done to a claim in the customer's name without a durable record
\* of the intent, the keypad choice or the backend failure that asked for it
\* (calls/workflows.py _record_intent, called before every branch).
WritesHaveACause ==
    \A i \in DOMAIN db.rows : Cause(db.rows[i])

\* After the outcome is filed nothing of the call changes any more: no late
\* write, no second filing that says something else (calls/workflows.py
\* _finalize).
FiledForGood ==
    [][Filed => /\ db'.attempt = db.attempt
                /\ db'.rows = db.rows
                /\ db'.intents = db.intents
                /\ db'.session = db.session]_vars

\* A call whose activities succeed ends: each stage's loop is left when the
\* customer falls silent, hangs up or is sent to the keypad.
CallCloses == <>(wf.at = "closed")

\* "fail safe rather than hang the call" (calls/workflows.py:591): whatever
\* verify_otp makes of an answer, the workflow goes on.
OtpAnswerIsHandled == wf.at = "verify_otp" ~> wf.at # "verify_otp"

\* "the final activity of CallSessionWorkflow always writes to this row,
\* successful or not" (calls/models.py:6).
AttemptIsFiled ==
    wf.at \in Ended => db.attempt.disposition = "ABSENT" \/ Filed

Protocol == INSTANCE CallProtocol WITH
    party <- wf.rightParty,
    trust <- wf.level,
    told <- wf.delivered,
    outcome <- IF Filed THEN db.attempt.disposition ELSE "NONE"

\* The workflow and its rows implement the call's protocol.
ImplementsProtocol == Protocol!Spec
===========================================================================
