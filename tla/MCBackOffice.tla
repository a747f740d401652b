---------------------------- MODULE MCBackOffice ----------------------------
(* Deadlines one unit after their warnings; two requests for one complaint. *)
(* A full call, an unfinished one and a fraud referral on file; reports    *)
(* read while calls of every kind start, end and are found wanting.        *)
EXTENDS BackOffice

McDueIn == [ACKNOWLEDGMENT |-> 2, RESOLUTION |-> 4]
McSheets == TextsOf(4, 3, {"OTP_PIN_CVV_PASSWORD", "CARD_NUMBER", "PERSON_NAME"})

Verified == {"reached", "right_party", "verified"}
Other(table, facts) == [table |-> table, facts |-> facts]
McRows == <<Attempt(Verified \union {"delivered", "resolved", "mood",
                                     "SUCCESS_STATUS_AND_QUERY_RESOLVED"}),
            Attempt({}), Other("claim_action", {"FRAUD_SIU_REVIEW_REQUEST"})>>
McInserts ==
    {Attempt({})} \union
    {Other("claim_action", {code}) : code \in _REFERRAL_ACTION_CODES} \union
    {Other(table, {}) : table \in {"call_job", "complaint", "escalation", "callback"}} \union
    {Other("audit_event", {"CONCURRENT_CALL_CONFLICT"}),
     Other("runtime_failure_event", {"BACKEND"})}
McOutcomes ==
    {Verified \union {"delivered", "resolved", "SUCCESS_STATUS_AND_QUERY_RESOLVED"},
     Verified \union {"delivered", "SUCCESS_HUMAN_TRANSFER"},
     {"reached", "CALL_DROPPED_PRE_AUTH"}, {"NO_ANSWER"}, {"voicemail", "OTHER_CODE"},
     {"reached", "right_party", "OTP_LOCKED"}}
McMoods == {{"mood"}, {"mood", "dissatisfied"}, {"repeated"}, {"final"}}
=============================================================================
