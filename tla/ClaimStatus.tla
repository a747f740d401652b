---------------------------- MODULE ClaimStatus ----------------------------
(***************************************************************************)
(* backend/src/claims: what of a claim a caller is told, by the level he   *)
(* is verified at.  deliver_status of the call session and the tool        *)
(* get_claim_status of the live call both go through it.                   *)
(*                                                                         *)
(* Claims are moved on outside this code, so a claim is whatever is on     *)
(* file when it is read.                                                   *)
(***************************************************************************)

Levels == {"L0", "L1", "L2"}

FINANCIAL_STAGES == {"SETTLEMENT_APPROVED", "PAYMENT_INITIATED"}
ClaimStage == FINANCIAL_STAGES \union
    {"CLAIM_REGISTERED", "DOCUMENTS_PENDING", "DOCUMENTS_RECEIVED", "SURVEYOR_ASSIGNED",
     "INSPECTION_SCHEDULED", "ASSESSMENT_COMPLETED", "REPAIR_APPROVAL_PENDING",
     "REPAIR_AUTHORIZED", "VEHICLE_RECEIVED_AT_GARAGE", "REPAIR_IN_PROGRESS",
     "ADDITIONAL_APPROVAL_REQUIRED", "REPAIR_COMPLETED", "CLAIM_CLOSED", "CLAIM_DELAYED",
     "CLAIM_DECLINED", "ADDITIONAL_INFORMATION_REQUIRED"}

\* settlement_amount: is there one?  A claim of any stage may have it.
MotorClaim == [claim_stage: ClaimStage, settlement_amount: BOOLEAN]

CONSTANT ClaimsOnFile   \* what a read of the claim may find; none: there is no claim
ASSUME ClaimsAssumption == ClaimsOnFile \subseteq MotorClaim

\* Told so far: nothing, the status without an amount, the status with the amount of
\* a claim in a financial stage, or with that of any other claim.
Disclosures == {"NOTHING", "STATUS", "FINANCIAL_AMOUNT", "OTHER_AMOUNT"}

\* Mutant for DisclosureIsEarned: any verified caller clears it.
WithheldBelowL1(claim, level) == level = "L0" /\ claim.claim_stage \in FINANCIAL_STAGES

Withheld(claim, level) == level # "L2" /\ claim.claim_stage \in FINANCIAL_STAGES

get_disclosable_status(claim, level) ==
    IF ~claim.settlement_amount \/ Withheld(claim, level) THEN "STATUS"
    ELSE IF claim.claim_stage \in FINANCIAL_STAGES THEN "FINANCIAL_AMOUNT"
    ELSE "OTHER_AMOUNT"
===========================================================================
