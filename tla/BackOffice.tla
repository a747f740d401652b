----------------------------- MODULE BackOffice -----------------------------
(***************************************************************************)
(* Five parts of the backend that share no row and no step: the redaction  *)
(* of a text, the monitors of a complaint, the defect log, the reports and *)
(* the one-time passwords of a session.                                    *)
(* Interleaving them would show nothing their own behaviours do not, so a  *)
(* behaviour of this module is one of one of them: the desk it works at.   *)
(***************************************************************************)
EXTENDS Redaction, ComplaintSla, DefectLog, Reporting, OtpVerification

CONSTANTS
    Sheets      \* the texts to be redacted

ASSUME SheetsAssumption ==
    /\ Sheets \subseteq Text
    /\ \A text \in Sheets : Findable(text)

VARIABLES
    desk,
    sheet       \* a text, and the language of the call

deskVars == <<desk, sheet>>
vars == <<deskVars, slaVars, defectVars, reportVars, otpVars>>

Desks == {"privacy", "complaints", "defects", "reports", "passwords"}
NoSheet == [text |-> [len |-> 0, found |-> <<>>, entities |-> <<>>], language |-> "en"]

TypeOK ==
    /\ desk \in Desks
    /\ sheet \in [text: Text, language: {"en", "ar"}]
    /\ SlaTypeOK /\ DefectTypeOK /\ ReportTypeOK /\ OtpTypeOK

Init ==
    /\ desk \in Desks
    /\ IF desk = "privacy" THEN sheet \in [text: Sheets, language: {"en", "ar"}]
       ELSE sheet = NoSheet
    /\ SlaInit /\ DefectInit /\ OtpInit
    /\ IF desk = "reports" THEN ReportInit
       ELSE ReportInit /\ report.statements = get_status_analytics

Next ==
    /\ UNCHANGED deskVars
    /\ \/ desk = "complaints" /\ SlaNext /\ UNCHANGED <<defectVars, reportVars, otpVars>>
       \/ desk = "defects" /\ DefectNext /\ UNCHANGED <<slaVars, reportVars, otpVars>>
       \/ desk = "reports" /\ ReportNext /\ UNCHANGED <<slaVars, defectVars, otpVars>>
       \/ desk = "passwords" /\ OtpNext /\ UNCHANGED <<slaVars, defectVars, reportVars>>

\* The fairness of the complaints' desk, where time passes and monitors run.
AtComplaints(action) ==
    desk = "complaints" /\ action /\ UNCHANGED <<deskVars, defectVars, reportVars, otpVars>>
Spec ==
    /\ Init /\ [][Next]_vars
    /\ WF_vars(AtComplaints(Tick))
    /\ \A i \in 1 .. MaxRequests : WF_vars(AtComplaints(MonitorStep(i)))

\* Of every text with so many matches, in every order and overlap, redact() masks the
\* right ones, and reports what it masked.
MaskingIsExact ==
    /\ MasksExactly(sheet.text, sheet.language)
    /\ ReportsItsMarkers(sheet.text, sheet.language)
=============================================================================
