--------------------------- MODULE OtpVerification ---------------------------
(***************************************************************************)
(* backend/src/verification/service.py: the one-time password of a call    *)
(* session, sent and resent by send_otp and checked by verify_otp, each    *)
(* inside an activity that Temporal retries with the `now` of the moment   *)
(* it was scheduled.  (CallSession sends once; here a caller may send      *)
(* again, as the service lets it.)                                         *)
(***************************************************************************)
EXTENDS Naturals

CONSTANTS
    OTP_TTL,
    OTP_RESEND_COOLDOWN,
    OTP_LOCKOUT,
    MAX_OTP_SENDS_PER_SESSION,
    MAX_OTP_ATTEMPTS,
    MaxTexts,       \* bound: codes texted
    MaxTime         \* bound: how long the session lasts

\* The settings are configurable; their defaults lock for longer than a code lives.
ASSUME OtpAssumption ==
    /\ OTP_TTL \in Nat \ {0} /\ OTP_RESEND_COOLDOWN \in Nat
    /\ OTP_LOCKOUT \in Nat /\ OTP_LOCKOUT >= OTP_TTL
    /\ MAX_OTP_SENDS_PER_SESSION \in Nat \ {0} /\ MAX_OTP_ATTEMPTS \in Nat \ {0}
    /\ MaxTexts \in Nat /\ MaxTime \in Nat

VARIABLES
    challenge,  \* the otp_challenge row of the session
    activity,   \* the activity in progress
    texts,      \* codes texted so far; the n-th is named n
    guesses,    \* wrong answers compared with a code (a ghost: retries count once)
    time

otpVars == <<challenge, activity, texts, guesses, time>>

NoChallenge == [status |-> "ABSENT", code |-> 0, sent_count |-> 0, attempt_count |-> 0,
                expires_at |-> 0, locked_until |-> 0, created_at |-> 0]
\* answer: the code the customer said, 0 for none that was ever texted.
NoActivity == [kind |-> "none", now |-> 0, code |-> 0, answer |-> 0, compared |-> FALSE]

OtpTypeOK ==
    /\ challenge \in [status: {"ABSENT", "SENT", "VERIFIED", "LOCKED"}, code: 0 .. MaxTexts,
                      sent_count: 0 .. MAX_OTP_SENDS_PER_SESSION, attempt_count: Nat,
                      expires_at: Nat, locked_until: Nat, created_at: 0 .. MaxTime]
    /\ activity \in [kind: {"none", "send", "verify"}, now: 0 .. MaxTime, code: 0 .. MaxTexts,
                     answer: 0 .. MaxTexts, compared: BOOLEAN]
    /\ texts \in 0 .. MaxTexts
    /\ guesses \in Nat
    /\ time \in 0 .. MaxTime

OtpInit ==
    /\ challenge = NoChallenge
    /\ activity = NoActivity
    /\ texts = 0
    /\ guesses = 0
    /\ time = 0

-----------------------------------------------------------------------------
Schedule(kind, answer) ==
    /\ activity = NoActivity
    /\ kind = "verify" => challenge.status # "ABSENT"
    /\ activity' = [NoActivity EXCEPT !.kind = kind, !.now = time, !.answer = answer]
    /\ UNCHANGED <<challenge, texts, guesses, time>>

\* A committed activity answers, or its reply is lost and it runs again.
Settle(again) == activity' \in {NoActivity, again}

SendRaises ==
    /\ challenge.status # "ABSENT"
    /\ \/ challenge.sent_count >= MAX_OTP_SENDS_PER_SESSION
       \/ activity.now < challenge.created_at + OTP_RESEND_COOLDOWN

\* EXPIRED is rolled back with the transaction that raises.
VerifyRaises ==
    \/ challenge.status = "LOCKED" /\ activity.now < challenge.locked_until
    \/ activity.now >= challenge.expires_at

\* The caller is given the exception (the workflow of a call never is: CallSession).
Refuse ==
    /\ \/ activity.kind = "send" /\ activity.code = 0 /\ SendRaises
       \/ activity.kind = "verify" /\ VerifyRaises
    /\ activity' = NoActivity
    /\ UNCHANGED <<challenge, texts, guesses, time>>

\* send_otp: the text first, the row after it, and a crash in between.
TextCode ==
    /\ activity.kind = "send" /\ activity.code = 0
    /\ ~SendRaises
    /\ texts < MaxTexts
    /\ texts' = texts + 1
    /\ activity' = [activity EXCEPT !.code = texts + 1]
    /\ UNCHANGED <<challenge, guesses, time>>

CrashSend ==
    /\ activity.code # 0
    /\ activity' = [activity EXCEPT !.code = 0]
    /\ UNCHANGED <<challenge, texts, guesses, time>>

\* Mutant for OtpLimitsHold: a resend is not counted.
CommitCodeUncounted ==
    /\ activity.code # 0
    /\ challenge' = [challenge EXCEPT !.code = activity.code,
                        !.sent_count = IF challenge.status = "ABSENT" THEN 1 ELSE @,
                        !.attempt_count = 0, !.status = "SENT",
                        !.expires_at = activity.now + OTP_TTL, !.created_at = activity.now]
    /\ Settle([activity EXCEPT !.code = 0])
    /\ UNCHANGED <<texts, guesses, time>>

CommitCode ==
    /\ activity.code # 0
    /\ challenge' = [challenge EXCEPT !.code = activity.code, !.sent_count = @ + 1,
                        !.attempt_count = 0, !.status = "SENT",
                        !.expires_at = activity.now + OTP_TTL, !.created_at = activity.now]
    /\ Settle([activity EXCEPT !.code = 0])
    /\ UNCHANGED <<texts, guesses, time>>

verify_otp ==
    /\ activity.kind = "verify"
    /\ ~VerifyRaises
    /\ IF activity.answer = challenge.code
       THEN challenge' = [challenge EXCEPT !.status = "VERIFIED"] /\ UNCHANGED guesses
       ELSE LET count == challenge.attempt_count + 1
                full == count >= MAX_OTP_ATTEMPTS
            IN  /\ challenge' = [challenge EXCEPT !.attempt_count = count,
                      !.status = IF full THEN "LOCKED" ELSE @,
                      !.locked_until = IF full THEN activity.now + OTP_LOCKOUT ELSE @]
                /\ guesses' = IF activity.compared THEN guesses ELSE guesses + 1
    /\ Settle([activity EXCEPT !.compared = TRUE])
    /\ UNCHANGED <<texts, time>>

Pass ==
    /\ time < MaxTime
    /\ time' = time + 1
    /\ UNCHANGED <<challenge, activity, texts, guesses>>

OtpNext ==
    \/ Schedule("send", 0)
    \/ \E answer \in 0 .. texts : Schedule("verify", answer)
    \/ Refuse \/ TextCode \/ CrashSend \/ CommitCode \/ verify_otp
    \/ Pass

OtpSpec == OtpInit /\ [][OtpNext]_otpVars

-----------------------------------------------------------------------------
\* Although a resend resets the counter and lifts the lock of the same challenge, and
\* a lock may end while the session goes on, a customer has no more guesses than
\* MAX_OTP_ATTEMPTS for each code the session may be sent.
GuessesPerSession == guesses <= MAX_OTP_SENDS_PER_SESSION * MAX_OTP_ATTEMPTS

\* A code is texted before its row is committed, and a retry texts another: still,
\* once send_otp is over, the code on file is the last one the customer got.
LastCodeCounts ==
    activity.kind # "send" /\ challenge.status # "ABSENT" => challenge.code = texts

\* verification/service.py keeps what it promises across resends, crashes and retries.
OtpLimitsHold == GuessesPerSession /\ LastCodeCounts
=============================================================================
