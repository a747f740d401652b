--------------------------- MODULE CallProtocol ---------------------------
(***************************************************************************)
(* What one outbound call promises, with no word about signals, activities *)
(* or rows: the right party is confirmed before he is trusted, trusted     *)
(* before he is told anything, told the amount of a financial claim only   *)
(* at L2, and the call is filed once, under a disposition that agrees with *)
(* how far it got.  CallSession.tla implements this module.                *)
(***************************************************************************)

VARIABLES
    party,    \* who answered, as far as established
    trust,    \* the verification level reached
    told,     \* what was disclosed
    outcome   \* the disposition the call is filed under

vars == <<party, trust, told, outcome>>

NotContacted == {"NO_ANSWER", "VOICEMAIL", "NETWORK_FAILURE"}
NotTheParty == {"WRONG_PARTY", "RIGHT_PARTY_NOT_AVAILABLE"}
NotTrusted == {"AUTH_FAILED", "OTP_LOCKED"}
Served == {"SUCCESS_STATUS_DELIVERED", "SUCCESS_STATUS_AND_QUERY_RESOLVED",
           "SUCCESS_ACTION_CREATED", "SUCCESS_COMPLAINT_REGISTERED"}

Init ==
    /\ party = "unknown"
    /\ trust = "L0"
    /\ told = "NOTHING"
    /\ outcome = "NONE"

Identify ==
    /\ party = "unknown"
    /\ outcome = "NONE"
    /\ party' \in {"right", "other"}
    /\ UNCHANGED <<trust, told, outcome>>

Trust ==
    /\ party = "right"
    /\ trust = "L0"
    /\ trust' \in {"L1", "L2"}
    /\ outcome = "NONE"
    /\ UNCHANGED <<party, told, outcome>>

Tell ==
    /\ trust # "L0"
    /\ told = "NOTHING"
    /\ told' \in {"STATUS", "FINANCIAL_AMOUNT", "OTHER_AMOUNT"}
    /\ told' = "FINANCIAL_AMOUNT" => trust = "L2"
    /\ outcome = "NONE"
    /\ UNCHANGED <<party, trust, outcome>>

\* The dispositions that agree with a call that got this far.
Fits ==
    CASE party = "unknown" -> NotContacted \union
            {"CALL_DROPPED_PRE_AUTH", "SUCCESS_HUMAN_TRANSFER",
             "DTMF_FALLBACK_ACTIVATED", "CALLBACK_REQUESTED"}
      [] party = "other" -> NotTheParty
      [] party = "right" /\ trust = "L0" -> NotTrusted \union
            {"CALL_DROPPED_PRE_AUTH", "SUCCESS_HUMAN_TRANSFER",
             "DTMF_FALLBACK_ACTIVATED"}
      [] party = "right" /\ trust # "L0" /\ told = "NOTHING" ->
            {"BACKEND_SYSTEM_FAILURE"}
      [] party = "right" /\ trust # "L0" /\ told # "NOTHING" -> Served \union
            {"CALL_DROPPED_POST_AUTH", "SUCCESS_HUMAN_TRANSFER",
             "DTMF_FALLBACK_ACTIVATED", "CALLBACK_REQUESTED"}

File ==
    /\ outcome = "NONE"
    /\ outcome' \in Fits
    /\ UNCHANGED <<party, trust, told>>

Next == Identify \/ Trust \/ Tell \/ File

Spec == Init /\ [][Next]_vars
===========================================================================
