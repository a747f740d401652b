--------------------------- MODULE MCCallSession ---------------------------
(* The signals of the runs: a right and a wrong answer of each kind, and   *)
(* the intents that open, divert or end a stage.                           *)
EXTENDS CallSession

Say(intent) == [intent |-> intent, right |-> TRUE]
SayWrong(intent) == [intent |-> intent, right |-> FALSE]

\* Everything that matters before the status is delivered.
GateSignals ==
    {Say(i) : i \in {"RIGHT_PARTY_CONFIRMED", "WRONG_PARTY", "CUSTOMER_DRIVING",
                     "AUTH_ANSWER", "REQUEST_OTP", "OTP_ANSWER", "REQUEST_HUMAN"}}
    \union {SayWrong("AUTH_ANSWER"), SayWrong("OTP_ANSWER")}

\* A customer who is let in at once, and everything he may then ask for.
ServiceSignals ==
    {Say(i) : i \in {"RIGHT_PARTY_CONFIRMED", "AUTH_ANSWER", "ASK_QUESTION",
                     "DISPUTE_DOCUMENT", "COMPLAINT_REQUEST", "REQUEST_HUMAN",
                     "AI_SCHEDULE_CALLBACK", "AI_SEND_SECURE_LINK", "NOTHING_ELSE"}}

\* One signal of each kind that moves a call along.
ShortSignals ==
    {Say(i) : i \in {"RIGHT_PARTY_CONFIRMED", "AUTH_ANSWER", "REQUEST_OTP",
                     "OTP_ANSWER", "COMPLAINT_REQUEST"}}
    \union {SayWrong("OTP_ANSWER")}

\* A claim in a financial stage, one in another that has an amount, and one without.
EveryKindOfClaim ==
    {[claim_stage |-> "SETTLEMENT_APPROVED", settlement_amount |-> TRUE],
     [claim_stage |-> "CLAIM_CLOSED", settlement_amount |-> TRUE],
     [claim_stage |-> "REPAIR_AUTHORIZED", settlement_amount |-> FALSE]}
OneClaim == {[claim_stage |-> "CLAIM_CLOSED", settlement_amount |-> TRUE]}

BothAnswers == {TRUE, FALSE}
Always == {TRUE}
Never == {FALSE}
===========================================================================
