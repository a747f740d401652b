---------------------------- MODULE Disposition ----------------------------
(***************************************************************************)
(* backend/src/calls/disposition.py: resolve_disposition(), a pure match   *)
(* over the facts a call ended with.  A fact is a member of `flags` when   *)
(* its field of DispositionContext is True.  Dispositions nothing in       *)
(* CallSessionWorkflow can set (otp_attempts_exceeded) are kept: the       *)
(* rules' order is the point of this function.                             *)
(***************************************************************************)
EXTENDS Naturals, Sequences

\* final_state values a finalization passes (calls/constants.py CallState).
FinalStates == {"NO_ANSWER", "VOICEMAIL", "FAILED", "WRONG_PARTY",
                "CUSTOMER_UNAVAILABLE", "AUTH_FAILED", "CLOSE"}

Flags == {"status_delivered", "question_resolved", "complaint_created",
          "action_created", "human_transferred", "callback_requested",
          "otp_locked", "otp_attempts_exceeded", "call_dropped",
          "backend_unavailable", "dtmf_fallback"}

\* The dispositions the rules give; the last is UnresolvedDispositionError.
Codes == {"CALL_DROPPED_PRE_AUTH", "CALL_DROPPED_POST_AUTH", "OTP_LOCKED",
          "OTP_ATTEMPTS_EXCEEDED", "BACKEND_SYSTEM_FAILURE",
          "DTMF_FALLBACK_ACTIVATED", "NO_ANSWER", "VOICEMAIL", "NETWORK_FAILURE",
          "WRONG_PARTY", "RIGHT_PARTY_NOT_AVAILABLE", "AUTH_FAILED",
          "SUCCESS_HUMAN_TRANSFER", "SUCCESS_COMPLAINT_REGISTERED",
          "SUCCESS_ACTION_CREATED", "CALLBACK_REQUESTED",
          "SUCCESS_STATUS_AND_QUERY_RESOLVED", "SUCCESS_STATUS_DELIVERED",
          "UNRESOLVED"}

\* The rules of resolve_disposition, first match first: why the call ended,
\* then where it ended, most specific outcome first.
Rules(final, authenticated, flags) == <<
    <<"call_dropped" \in flags /\ ~authenticated, "CALL_DROPPED_PRE_AUTH">>,
    <<"call_dropped" \in flags, "CALL_DROPPED_POST_AUTH">>,
    <<"otp_locked" \in flags, "OTP_LOCKED">>,
    <<"otp_attempts_exceeded" \in flags, "OTP_ATTEMPTS_EXCEEDED">>,
    <<"backend_unavailable" \in flags, "BACKEND_SYSTEM_FAILURE">>,
    <<"dtmf_fallback" \in flags, "DTMF_FALLBACK_ACTIVATED">>,
    <<final = "NO_ANSWER", "NO_ANSWER">>,
    <<final = "VOICEMAIL", "VOICEMAIL">>,
    <<final = "FAILED", "NETWORK_FAILURE">>,
    <<final = "WRONG_PARTY", "WRONG_PARTY">>,
    <<final = "CUSTOMER_UNAVAILABLE", "RIGHT_PARTY_NOT_AVAILABLE">>,
    <<final = "AUTH_FAILED", "AUTH_FAILED">>,
    <<final = "CLOSE" /\ "human_transferred" \in flags, "SUCCESS_HUMAN_TRANSFER">>,
    <<final = "CLOSE" /\ "complaint_created" \in flags, "SUCCESS_COMPLAINT_REGISTERED">>,
    <<final = "CLOSE" /\ "action_created" \in flags, "SUCCESS_ACTION_CREATED">>,
    <<final = "CLOSE" /\ "callback_requested" \in flags, "CALLBACK_REQUESTED">>,
    <<final = "CLOSE" /\ {"status_delivered", "question_resolved"} \subseteq flags,
      "SUCCESS_STATUS_AND_QUERY_RESOLVED">>,
    <<final = "CLOSE" /\ "status_delivered" \in flags, "SUCCESS_STATUS_DELIVERED">>,
    <<"callback_requested" \in flags, "CALLBACK_REQUESTED">>,
    <<TRUE, "UNRESOLVED">> >>

resolve_disposition(final, authenticated, flags) ==
    LET rules == Rules(final, authenticated, flags)
        first == CHOOSE i \in DOMAIN rules :
                    rules[i][1] /\ \A j \in 1 .. (i - 1) : ~rules[j][1]
    IN rules[first][2]
===========================================================================
