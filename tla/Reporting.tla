----------------------------- MODULE Reporting -----------------------------
(***************************************************************************)
(* backend/src/reporting: the dashboard's six reports.  Each is a sequence *)
(* of SELECTs in one READ COMMITTED transaction: every query counts the    *)
(* rows committed when it runs, and calls go on being written in between.  *)
(*                                                                         *)
(* A row is its table and the facts about it some query asks for.  The     *)
(* facts of a call_attempt include what its sentiment events say, since    *)
(* they are counted by call; a query that groups its rows counts them all. *)
(* Rows outside the range, averages, percentiles, hours and days are left  *)
(* out.                                                                    *)
(***************************************************************************)
EXTENDS Naturals, Sequences, FiniteSets

CONSTANTS
    InitialRows,    \* what is on file when the report is asked for
    Inserts,        \* the rows that may be added
    Outcomes,       \* the facts finalize_outcome may write
    Moods,          \* the facts a sentiment event may add to its call
    MaxWrites       \* bound: commits during the report

Tables == {"call_attempt", "call_job", "claim_action", "complaint", "escalation",
           "callback", "audit_event", "runtime_failure_event"}
Codes == {"NO_ANSWER", "CALL_DROPPED_PRE_AUTH", "CALL_DROPPED_POST_AUTH",
          "DTMF_FALLBACK_ACTIVATED", "OTP_LOCKED", "OTP_ATTEMPTS_EXCEEDED",
          "SILENT_CALL_TECHNICAL_FAILURE", "CALL_REJECTED", "NUMBER_UNREACHABLE",
          "INVALID_CONTACT_NUMBER", "SUCCESS_STATUS_AND_QUERY_RESOLVED",
          "SUCCESS_HUMAN_TRANSFER", "OTHER_CODE"}
Facts == Codes \union
         {"reached", "right_party", "verified", "delivered", "resolved", "voicemail",
          "mood", "final", "dissatisfied", "repeated",
          "FRAUD_SIU_REVIEW_REQUEST", "VULNERABLE_CUSTOMER_SUPPORT_REQUEST",
          "CONCURRENT_CALL_CONFLICT", "STT", "LLM", "TTS", "BACKEND", "COMPLETED"}
Row == [table: Tables, facts: SUBSET Facts]
Attempt(facts) == [table |-> "call_attempt", facts |-> facts]

Sentiments == {"mood", "final", "dissatisfied", "repeated"}

\* What one _finalize can write: one code, each stage after the one before it, and
\* nothing the sentiment events say.
Outcome(facts) ==
    /\ facts \intersect Sentiments = {}
    /\ \E code \in Codes : facts \intersect Codes = {code}
    /\ "verified" \in facts => "right_party" \in facts
    /\ "right_party" \in facts => "reached" \in facts
    /\ facts \intersect {"delivered", "resolved", "SUCCESS_STATUS_AND_QUERY_RESOLVED"} # {} =>
          "verified" \in facts
    /\ "NO_ANSWER" \in facts => "reached" \notin facts

\* What a call's row says: an outcome, or none yet, and what its sentiment events do.
CallRow(facts) ==
    /\ \E outcome \in SUBSET facts : (outcome = {} \/ Outcome(outcome))
                                  /\ facts \subseteq outcome \union Sentiments
    /\ "final" \in facts => "mood" \in facts

\* The rows on file were written as those of these calls are, and a new call's is bare.
ASSUME RowsAssumption ==
    /\ InitialRows \in Seq(Row)
    /\ \A i \in DOMAIN InitialRows :
          InitialRows[i].table = "call_attempt" => CallRow(InitialRows[i].facts)
    /\ Inserts \subseteq Row
    /\ \A row \in Inserts : row.table = "call_attempt" => row.facts = {}
    /\ \A facts \in Outcomes : facts \subseteq Facts /\ Outcome(facts)
    /\ Moods \subseteq SUBSET Sentiments
    /\ MaxWrites \in Nat

-----------------------------------------------------------------------------
Select(table, all, any) == [table |-> table, all |-> all, any |-> any]
All(table) == Select(table, {}, {})
Calls(all, any) == Select("call_attempt", all, any)
Where(q, row) ==
    /\ row.table = q.table
    /\ q.all \subseteq row.facts
    /\ q.any = {} \/ q.any \intersect row.facts # {}

_DROPPED_CODES == {"CALL_DROPPED_PRE_AUTH", "CALL_DROPPED_POST_AUTH"}
_OTP_LOCKOUT_CODES == {"OTP_LOCKED", "OTP_ATTEMPTS_EXCEEDED"}

\* Mutant for ReportsAgree: the fraud referrals are no longer among the referrals.
ReferralCodesWithoutFraud == {"VULNERABLE_CUSTOMER_SUPPORT_REQUEST"}

_REFERRAL_ACTION_CODES == {"FRAUD_SIU_REVIEW_REQUEST", "VULNERABLE_CUSTOMER_SUPPORT_REQUEST"}

\* What each figure counts.  repeated_contact counts calls, the code their customers, each
\* once; both only grow, and no other figure is compared with it.
Figures ==
    [total_attempts |-> Calls({}, {}),
     calls_scheduled |-> All("call_job"),
     customer_reached |-> Calls({"reached"}, {}),
     right_party |-> Calls({"right_party"}, {}),
     verified |-> Calls({"verified"}, {}),
     statuses_delivered |-> Calls({"delivered"}, {}),
     ai_contained |-> Calls({"resolved"}, {}),
     no_answer |-> Calls({"NO_ANSWER"}, {}),
     dropped |-> Calls({}, _DROPPED_CODES),
     dtmf_fallback |-> Calls({"DTMF_FALLBACK_ACTIVATED"}, {}),
     otp_lockouts |-> Calls({}, _OTP_LOCKOUT_CODES),
     silent_call_failures |-> Calls({"SILENT_CALL_TECHNICAL_FAILURE"}, {}),
     actions_created |-> All("claim_action"),
     complaints_created |-> All("complaint"),
     escalations |-> All("escalation"),
     callbacks |-> All("callback"),
     referrals |-> Select("claim_action", {}, _REFERRAL_ACTION_CODES),
     fraud_referrals |-> Select("claim_action", {"FRAUD_SIU_REVIEW_REQUEST"}, {}),
     concurrent_conflicts |-> Select("audit_event", {"CONCURRENT_CALL_CONFLICT"}, {}),
     stt_llm_tts_failures |-> Select("runtime_failure_event", {}, {"STT", "LLM", "TTS"}),
     backend_failures |-> Select("runtime_failure_event", {"BACKEND"}, {}),
     rejected |-> Calls({"CALL_REJECTED"}, {}),
     voicemail |-> Calls({"voicemail"}, {}),
     unreachable |-> Calls({}, {"NUMBER_UNREACHABLE", "INVALID_CONTACT_NUMBER"}),
     successful_callbacks |-> Select("callback", {"COMPLETED"}, {}),
     questions |-> Calls({"delivered", "SUCCESS_STATUS_AND_QUERY_RESOLVED"}, {}),
     status_escalations |-> Calls({"delivered", "SUCCESS_HUMAN_TRANSFER"}, {}),
     initial_breakdown |-> Calls({"mood"}, {}),
     final_breakdown |-> Calls({"final"}, {}),
     dissatisfied_calls |-> Calls({"dissatisfied"}, {}),
     repeated_contact |-> Calls({"repeated"}, {}),
     human_transfers |-> Calls({"SUCCESS_HUMAN_TRANSFER"}, {})]

\* The figures each statement of a report returns, in the order of the statements.
OneEach(names) == [i \in DOMAIN names |-> {names[i]}]
get_operations_overview ==
    OneEach(<<"total_attempts", "calls_scheduled", "customer_reached", "right_party",
              "verified", "statuses_delivered", "ai_contained", "no_answer", "dropped",
              "dtmf_fallback", "otp_lockouts", "silent_call_failures", "actions_created",
              "complaints_created", "escalations", "callbacks", "referrals",
              "fraud_referrals", "concurrent_conflicts", "stt_llm_tts_failures",
              "backend_failures">>)
get_outcome_funnel ==
    OneEach(<<"calls_scheduled", "total_attempts", "customer_reached", "right_party",
              "verified", "statuses_delivered", "ai_contained">>)
get_no_answer_analytics ==
    <<{"no_answer", "total_attempts"}, {"no_answer", "total_attempts"},
      {"customer_reached", "total_attempts"}>>
    \o OneEach(<<"rejected", "voicemail", "unreachable", "successful_callbacks">>)
get_status_analytics == <<{"statuses_delivered", "questions", "status_escalations"}>>
get_customer_experience ==
    OneEach(<<"initial_breakdown", "final_breakdown", "total_attempts",
              "dissatisfied_calls", "complaints_created", "repeated_contact",
              "human_transfers">>)
get_escalation_analytics ==
    OneEach(<<"escalations", "escalations", "escalations", "human_transfers">>)

Reports == {get_operations_overview, get_outcome_funnel, get_no_answer_analytics,
            get_status_analytics, get_customer_experience, get_escalation_analytics}

-----------------------------------------------------------------------------
VARIABLES
    rows,       \* what is committed
    report,     \* the statements of the report, and what they have returned
    writes      \* commits since its first statement

reportVars == <<rows, report, writes>>

ReportTypeOK ==
    /\ rows \in Seq(Row)
    /\ report.statements \in Reports
    /\ Len(report.read) <= Len(report.statements)
    /\ \A i \in DOMAIN report.read : report.read[i] \in [report.statements[i] -> Nat]
    /\ writes \in 0 .. MaxWrites

ReportInit ==
    /\ rows = InitialRows
    /\ \E statements \in Reports : report = [statements |-> statements, read |-> <<>>]
    /\ writes = 0

Execute ==
    LET n == Len(report.read) + 1
        Count(name) == Cardinality({i \in DOMAIN rows : Where(Figures[name], rows[i])})
    IN  /\ n <= Len(report.statements)
        /\ report' = [report EXCEPT
              !.read = Append(@, [name \in report.statements[n] |-> Count(name)])]
        /\ UNCHANGED <<rows, writes>>

\* The writers: calls, their schedulers, their pipelines.
Write ==
    /\ report.read # <<>> /\ Len(report.read) < Len(report.statements)
    /\ writes < MaxWrites
    /\ writes' = writes + 1
    /\ UNCHANGED report

Insert(row) ==
    /\ Write
    /\ rows' = Append(rows, row)

\* The call's one outcome; a repeated finalize_outcome writes the same.
finalize_outcome(i, facts) ==
    /\ Write
    /\ rows[i].table = "call_attempt" /\ rows[i].facts \intersect Codes = {}
    /\ rows' = [rows EXCEPT ![i].facts = @ \union facts]

\* The final sentiment copies one of a turn.
record_sentiment_event(i, facts) ==
    /\ Write
    /\ rows[i].table = "call_attempt"
    /\ "final" \in facts => "mood" \in rows[i].facts
    /\ rows' = [rows EXCEPT ![i].facts = @ \union facts]

ReportNext ==
    \/ Execute
    \/ \E row \in Inserts : Insert(row)
    \/ \E i \in DOMAIN rows :
          \/ \E facts \in Outcomes : finalize_outcome(i, facts)
          \/ \E facts \in Moods : record_sentiment_event(i, facts)

ReportSpec == ReportInit /\ [][ReportNext]_reportVars

-----------------------------------------------------------------------------
\* The figures a report divides or subtracts as parts of a whole: <<part, whole>>.
\* Not "delivered" over "resolved": a claim may have no message key to deliver.
Parts ==
    {<<"customer_reached", "total_attempts">>, <<"right_party", "customer_reached">>,
     <<"verified", "right_party">>, <<"statuses_delivered", "verified">>,
     <<"ai_contained", "verified">>, <<"no_answer", "total_attempts">>,
     <<"dropped", "total_attempts">>, <<"dtmf_fallback", "total_attempts">>,
     <<"silent_call_failures", "total_attempts">>, <<"fraud_referrals", "referrals">>,
     <<"referrals", "actions_created">>, <<"questions", "statuses_delivered">>,
     <<"status_escalations", "statuses_delivered">>,
     <<"dissatisfied_calls", "total_attempts">>, <<"final_breakdown", "initial_breakdown">>}
    \union {<<name, name>> : name \in DOMAIN Figures}

\* Where a figure was read.
ReadAt(name) == {i \in DOMAIN report.read : name \in DOMAIN report.read[i]}

\* A part never exceeds a whole read with it or after it; it exceeds a whole read
\* before it (a rate above 1, fewer than no vulnerable-customer referrals) by at most
\* the commits in between.
PartsAgree ==
    \A p \in Parts : \A i \in ReadAt(p[1]), j \in ReadAt(p[2]) :
        report.read[i][p[1]] <= report.read[j][p[2]] + (IF j < i THEN writes ELSE 0)

\* A reading of it, if there is any.
Figure(name) ==
    IF ReadAt(name) = {} THEN 0 ELSE report.read[CHOOSE i \in ReadAt(name) : TRUE][name]

\* No call is counted under two outcomes.
OutcomesAreExclusive ==
    ReadAt("total_attempts") # {} =>
        Figure("no_answer") + Figure("dropped") + Figure("dtmf_fallback")
            + Figure("otp_lockouts") + Figure("silent_call_failures") + Figure("rejected")
            + Figure("unreachable")
        <= Figure("total_attempts") + writes

\* The figures of a report belong to different moments: how far they may disagree.
ReportsAgree == PartsAgree /\ OutcomesAreExclusive
=============================================================================
