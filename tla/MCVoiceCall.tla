---------------------------- MODULE MCVoiceCall ----------------------------
(* What is said in the run: a friendly injection with a card number over a *)
(* PIN and a name beside it, a complaint in Arabic with a name; an answer  *)
(* that names the customer.  The claim may be on file in a financial stage *)
(* or in another, with an amount.                                          *)
EXTENDS VoiceCall

M(a, b, c) == [start |-> a, end |-> b, category |-> c]
Say(said, language, found, entities) ==
    [said |-> said, language |-> language,
     text |-> [len |-> 3, found |-> found, entities |-> entities]]

McUtterances ==
    {Say({"INJECTION", "POSITIVE"}, "", <<M(2, 3, "OTP_PIN_CVV_PASSWORD"),
                                         M(1, 3, "CARD_NUMBER")>>, <<M(3, 4, "PERSON_NAME")>>),
     Say({"DELAY_DISSATISFACTION", "POSITIVE"}, "ar", <<>>, <<M(2, 3, "PERSON_NAME")>>)}
McReplies == {Say({}, "", <<>>, <<M(1, 2, "PERSON_NAME")>>)}
McBudgets == {[frames |-> 3, steps |-> 0], [frames |-> 2, steps |-> 4]}
McClaims ==
    {[claim_stage |-> "PAYMENT_INITIATED", settlement_amount |-> TRUE],
     [claim_stage |-> "CLAIM_DELAYED", settlement_amount |-> TRUE]}
McTools == {"get_claim_status", "register_inquiry", "warm_transfer"}
=============================================================================
