------------------------- MODULE CallFiling_proofs -------------------------
(***************************************************************************)
(* Proofs about how a CallSession is filed: it implements CallProtocol,    *)
(* and nothing of the call changes once its outcome is on file.            *)
(*                                                                         *)
(* From the moment a call turns to its end, the disposition it will be     *)
(* filed under is settled and fits how far the call got (FInv); until it   *)
(* is filed, the activities in between, however often repeated, change     *)
(* nothing that either depends on.                                         *)
(***************************************************************************)
EXTENDS CallSession_proofs

Filing == {"finalize", "audit", "summary"} \union Ended
Concluding == {"write", "monitor", "finalize"}

\* What finalize_outcome writes.
Outcome == [disposition |-> DispositionCode, rightParty |-> wf.rightParty,
            level |-> wf.level, delivered |-> wf.delivered,
            resolution |-> wf.resolution]

FInv ==
    /\ wf.at \in Concluding => DispositionCode \in Protocol!Fits
    /\ Filed => wf.at \in Filing
    /\ Filed /\ wf.at = "finalize" => db.attempt = Outcome

\* No step of a filed call changes the rows FiledForGood names.
FileKept ==
    Filed => /\ db'.attempt = db.attempt
             /\ db'.rows = db.rows
             /\ db'.intents = db.intents
             /\ db'.session = db.session

Kept == FInv' /\ [Protocol!Next]_(Protocol!vars) /\ FileKept

---------------------------------------------------------------------------
(* What resolve_disposition makes of the ways a call ends.                 *)

\* The first matching rule is the one chosen.
LEMMA Resolves ==
    ASSUME NEW final, NEW authenticated, NEW flags, NEW i \in 1 .. 20,
           Rules(final, authenticated, flags)[i][1],
           \A j \in 1 .. (i - 1) : ~Rules(final, authenticated, flags)[j][1]
    PROVE  resolve_disposition(final, authenticated, flags) =
             Rules(final, authenticated, flags)[i][2]
<1> DEFINE rules == Rules(final, authenticated, flags)
           First(k) == rules[k][1] /\ \A j \in 1 .. (k - 1) : ~rules[j][1]
           first == CHOOSE k \in DOMAIN rules : First(k)
<1>1. DOMAIN rules = 1 .. 20
  BY DEF Rules
<1>2. First(i)
  OBVIOUS
<1>3. first \in 1 .. 20 /\ First(first)
  <2> HIDE DEF First, rules
  <2>1. QED
    BY <1>1, <1>2
<1>4. first = i
  <2>1. ~(first < i) /\ ~(i < first)
    <3> HIDE DEF rules, first
    <3>1. QED
      BY <1>2, <1>3
  <2> HIDE DEF first
  <2>2. QED
    BY <1>3, <2>1
<1>5. resolve_disposition(final, authenticated, flags) = rules[first][2]
  BY DEF resolve_disposition
<1>6. QED
  BY <1>4, <1>5

\* The rules that follow, one by one.
LEMMA RulesAre ==
    ASSUME NEW final, NEW authenticated, NEW flags, NEW rules,
           rules = Rules(final, authenticated, flags)
    PROVE  /\ rules[1][2] = "CALL_DROPPED_PRE_AUTH"
           /\ rules[1][1] <=> "call_dropped" \in flags /\ ~authenticated
           /\ rules[2][2] = "CALL_DROPPED_POST_AUTH"
           /\ rules[2][1] <=> "call_dropped" \in flags
           /\ rules[3][2] = "OTP_LOCKED"
           /\ rules[3][1] <=> "otp_locked" \in flags
           /\ rules[4][2] = "OTP_ATTEMPTS_EXCEEDED"
           /\ rules[4][1] <=> "otp_attempts_exceeded" \in flags
           /\ rules[5][2] = "BACKEND_SYSTEM_FAILURE"
           /\ rules[5][1] <=> "backend_unavailable" \in flags
           /\ rules[6][2] = "DTMF_FALLBACK_ACTIVATED"
           /\ rules[6][1] <=> "dtmf_fallback" \in flags
           /\ rules[7][2] = "NO_ANSWER"
           /\ rules[7][1] <=> final = "NO_ANSWER"
           /\ rules[8][2] = "VOICEMAIL"
           /\ rules[8][1] <=> final = "VOICEMAIL"
           /\ rules[9][2] = "NETWORK_FAILURE"
           /\ rules[9][1] <=> final = "FAILED"
           /\ rules[10][2] = "WRONG_PARTY"
           /\ rules[10][1] <=> final = "WRONG_PARTY"
           /\ rules[11][2] = "RIGHT_PARTY_NOT_AVAILABLE"
           /\ rules[11][1] <=> final = "CUSTOMER_UNAVAILABLE"
           /\ rules[12][2] = "AUTH_FAILED"
           /\ rules[12][1] <=> final = "AUTH_FAILED"
           /\ rules[13][2] = "SUCCESS_HUMAN_TRANSFER"
           /\ rules[13][1] <=> final = "CLOSE" /\ "human_transferred" \in flags
           /\ rules[14][2] = "SUCCESS_COMPLAINT_REGISTERED"
           /\ rules[14][1] <=> final = "CLOSE" /\ "complaint_created" \in flags
           /\ rules[15][2] = "SUCCESS_ACTION_CREATED"
           /\ rules[15][1] <=> final = "CLOSE" /\ "action_created" \in flags
           /\ rules[16][2] = "CALLBACK_REQUESTED"
           /\ rules[16][1] <=> final = "CLOSE" /\ "callback_requested" \in flags
           /\ rules[17][2] = "SUCCESS_STATUS_AND_QUERY_RESOLVED"
           /\ rules[17][1] <=> final = "CLOSE" /\ {"status_delivered", "question_resolved"} \subseteq flags
           /\ rules[18][2] = "SUCCESS_STATUS_DELIVERED"
           /\ rules[18][1] <=> final = "CLOSE" /\ "status_delivered" \in flags
BY DEF Rules

\* A hang-up, by how far the call had got.
LEMMA DroppedCode ==
    ASSUME NEW final, NEW authenticated \in BOOLEAN, NEW flags, "call_dropped" \in flags
    PROVE  resolve_disposition(final, authenticated, flags) =
             IF authenticated THEN "CALL_DROPPED_POST_AUTH" ELSE "CALL_DROPPED_PRE_AUTH"
<1> DEFINE rules == Rules(final, authenticated, flags)
           i == IF authenticated THEN 2 ELSE 1
<1>1. i \in 1 .. 20 /\ rules[i][1] /\ \A j \in 1 .. (i - 1) : ~rules[j][1]
  BY RulesAre
<1>2. resolve_disposition(final, authenticated, flags) = rules[i][2]
  <2> HIDE DEF i
  <2>1. QED
    BY <1>1, Resolves
<1>3. QED
  BY <1>2, RulesAre

\* A locked challenge, a dead backend, the keypad.
LEMMA InterruptedCode ==
    ASSUME NEW final, NEW authenticated, NEW flags
    PROVE  /\ flags = {"otp_locked"} =>
                resolve_disposition(final, authenticated, flags) = "OTP_LOCKED"
           /\ flags = {"backend_unavailable"} =>
                resolve_disposition(final, authenticated, flags) = "BACKEND_SYSTEM_FAILURE"
           /\ "dtmf_fallback" \in flags
                /\ flags \subseteq {"dtmf_fallback", "callback_requested", "human_transferred"} =>
                resolve_disposition(final, authenticated, flags) = "DTMF_FALLBACK_ACTIVATED"
<1> DEFINE rules == Rules(final, authenticated, flags)
<1> HIDE DEF rules
<1>1. ASSUME flags = {"otp_locked"}
      PROVE  rules[3][1] /\ rules[3][2] = "OTP_LOCKED" /\ \A j \in 1 .. (3 - 1) : ~rules[j][1]
  BY <1>1, RulesAre DEF rules
<1>2. ASSUME flags = {"backend_unavailable"}
      PROVE  /\ rules[5][1] /\ rules[5][2] = "BACKEND_SYSTEM_FAILURE"
             /\ \A j \in 1 .. (5 - 1) : ~rules[j][1]
  BY <1>2, RulesAre DEF rules
<1>3. ASSUME "dtmf_fallback" \in flags,
             flags \subseteq {"dtmf_fallback", "callback_requested", "human_transferred"}
      PROVE  /\ rules[6][1] /\ rules[6][2] = "DTMF_FALLBACK_ACTIVATED"
             /\ \A j \in 1 .. (6 - 1) : ~rules[j][1]
  BY <1>3, RulesAre DEF rules
<1>4. QED
  BY <1>1, <1>2, <1>3, Resolves DEF rules

\* A call that ended where it ended, with no flag set.
PlainCode(final) ==
    CASE final = "FAILED" -> "NETWORK_FAILURE"
      [] final = "CUSTOMER_UNAVAILABLE" -> "RIGHT_PARTY_NOT_AVAILABLE"
      [] OTHER -> final

LEMMA PlainEnd ==
    ASSUME NEW final \in FinalStates \ {"CLOSE"}, NEW authenticated
    PROVE  resolve_disposition(final, authenticated, {}) = PlainCode(final)
<1> DEFINE rules == Rules(final, authenticated, {})
           i == CASE final = "NO_ANSWER" -> 7
                  [] final = "VOICEMAIL" -> 8
                  [] final = "FAILED" -> 9
                  [] final = "WRONG_PARTY" -> 10
                  [] final = "CUSTOMER_UNAVAILABLE" -> 11
                  [] final = "AUTH_FAILED" -> 12
<1> HIDE DEF rules
<1>1. \A j \in 1 .. 6 : ~rules[j][1]
  BY RulesAre DEF rules
<1>2. /\ \A j \in 7 .. 12 : rules[j][1] <=> j = i
      /\ i \in 7 .. 12
  BY RulesAre DEF rules, FinalStates
<1>3. rules[i][2] = PlainCode(final)
  BY RulesAre DEF rules, FinalStates, PlainCode
<1> HIDE DEF i
<1>4. i \in 1 .. 20 /\ rules[i][1] /\ \A j \in 1 .. (i - 1) : ~rules[j][1]
  BY <1>1, <1>2
<1>5. QED
  BY <1>3, <1>4, Resolves DEF rules

\* A conversation that came to its end: the most specific thing done in it.
LEMMA ClosedCode ==
    ASSUME NEW authenticated, NEW flags \in SUBSET Flags,
           flags \subseteq {"human_transferred", "complaint_created", "action_created",
                            "callback_requested", "status_delivered", "question_resolved"}
    PROVE  LET code == resolve_disposition("CLOSE", authenticated, flags)
           IN /\ "human_transferred" \in flags => code = "SUCCESS_HUMAN_TRANSFER"
              /\ flags = {"status_delivered", "complaint_created"} =>
                   code = "SUCCESS_COMPLAINT_REGISTERED"
              /\ flags = {"status_delivered", "action_created"} =>
                   code = "SUCCESS_ACTION_CREATED"
              /\ flags \in {{"callback_requested"}, {"status_delivered", "callback_requested"}} =>
                   code = "CALLBACK_REQUESTED"
              /\ flags = {"status_delivered", "question_resolved"} =>
                   code = "SUCCESS_STATUS_AND_QUERY_RESOLVED"
              /\ flags = {"status_delivered"} => code = "SUCCESS_STATUS_DELIVERED"
<1> DEFINE rules == Rules("CLOSE", authenticated, flags)
           code == resolve_disposition("CLOSE", authenticated, flags)
<1> HIDE DEF rules
<1>1. \A j \in 1 .. 12 : ~rules[j][1]
  BY RulesAre DEF rules
<1>2. ASSUME NEW i \in 13 .. 18, rules[i][1], \A j \in 13 .. (i - 1) : ~rules[j][1]
      PROVE  code = rules[i][2]
  <2>1. \A j \in 1 .. (i - 1) : ~rules[j][1]
    BY <1>1, <1>2
  <2>2. QED
    BY <1>2, <2>1, Resolves DEF rules
<1>3. ASSUME "human_transferred" \in flags PROVE code = "SUCCESS_HUMAN_TRANSFER"
  BY <1>2, <1>3, RulesAre DEF rules
<1>4. ASSUME flags = {"status_delivered", "complaint_created"}
      PROVE  code = "SUCCESS_COMPLAINT_REGISTERED"
  BY <1>2, <1>4, RulesAre DEF rules
<1>5. ASSUME flags = {"status_delivered", "action_created"} PROVE code = "SUCCESS_ACTION_CREATED"
  BY <1>2, <1>5, RulesAre DEF rules
<1>6. ASSUME flags \in {{"callback_requested"}, {"status_delivered", "callback_requested"}}
      PROVE  code = "CALLBACK_REQUESTED"
  BY <1>2, <1>6, RulesAre DEF rules
<1>7. ASSUME flags = {"status_delivered", "question_resolved"}
      PROVE  code = "SUCCESS_STATUS_AND_QUERY_RESOLVED"
  BY <1>2, <1>7, RulesAre DEF rules
<1>8. ASSUME flags = {"status_delivered"} PROVE code = "SUCCESS_STATUS_DELIVERED"
  BY <1>2, <1>8, RulesAre DEF rules
<1>9. QED
  BY <1>3, <1>4, <1>5, <1>6, <1>7, <1>8

---------------------------------------------------------------------------
(* How far a call has got, and the dispositions that fit.                  *)

LEMMA Region ==
    ASSUME IInv
    PROVE  /\ wf.at \in {"wait", "note", "dtmf_audit"} /\ wf.stage = "party" =>
                wf.rightParty = "unknown" /\ wf.level = "L0"
           /\ wf.stage = "start" => wf.rightParty = "unknown"
           /\ wf.at \in {"verify_level1", "verify_otp"} =>
                wf.rightParty = "right" /\ wf.level = "L0"
           /\ wf.at \in {"wait", "note", "dtmf_audit"} /\ wf.stage \in {"auth", "otp"} =>
                wf.rightParty = "right" /\ wf.level = "L0"
           /\ wf.stage = "follow" =>
                wf.rightParty = "right" /\ wf.level # "L0" /\ wf.delivered # "NOTHING"
           /\ wf.at = "deliver" =>
                wf.rightParty = "right" /\ wf.level # "L0" /\ wf.delivered = "NOTHING"
           /\ wf.at \in {"wait", "note", "dtmf_audit"} => wf.stage # "start"
BY DEF IInv, Good, Placed, Ladder, Untrusted, Known

LEMMA FitsIn ==
    /\ wf.rightParty = "unknown" => Protocol!Fits = Protocol!NotContacted \union
         {"CALL_DROPPED_PRE_AUTH", "SUCCESS_HUMAN_TRANSFER",
          "DTMF_FALLBACK_ACTIVATED", "CALLBACK_REQUESTED"}
    /\ wf.rightParty = "other" => Protocol!Fits = Protocol!NotTheParty
    /\ wf.rightParty = "right" /\ wf.level = "L0" =>
         Protocol!Fits = Protocol!NotTrusted \union
           {"CALL_DROPPED_PRE_AUTH", "SUCCESS_HUMAN_TRANSFER", "DTMF_FALLBACK_ACTIVATED"}
    /\ wf.rightParty = "right" /\ wf.level # "L0" /\ wf.delivered = "NOTHING" =>
         Protocol!Fits = {"BACKEND_SYSTEM_FAILURE"}
    /\ wf.rightParty = "right" /\ wf.level # "L0" /\ wf.delivered # "NOTHING" =>
         Protocol!Fits = Protocol!Served \union
           {"CALL_DROPPED_POST_AUTH", "SUCCESS_HUMAN_TRANSFER",
            "DTMF_FALLBACK_ACTIVATED", "CALLBACK_REQUESTED"}
BY DEF Protocol!Fits

---------------------------------------------------------------------------
(* The kinds of step.                                                      *)

\* The customer's standing is what it was.
Alike(v, w) ==
    /\ v.rightParty = w.rightParty
    /\ v.level = w.level
    /\ v.delivered = w.delivered

\* Nobody's standing changes and no row of the attempt: the protocol stutters.
LEMMA Stutter ==
    ASSUME Alike(wf', wf), db'.attempt = db.attempt
    PROVE  [Protocol!Next]_(Protocol!vars) /\ (Filed' <=> Filed)
           /\ Protocol!Fits' = Protocol!Fits
BY DEF Alike, Filed, Protocol!vars, Protocol!Fits

\* The memory stands still: signals, lost replies and abandoned claims.
LEMMA StandsStill ==
    ASSUME FInv, wf' = wf, db'.attempt = db.attempt,
           db' = db \/ wf.at \notin Filing
    PROVE  Kept
<1>1. Alike(wf', wf)
  BY DEF Alike
<1>2. DispositionCode' = DispositionCode /\ Outcome' = Outcome
  BY DEF DispositionCode, Outcome
<1>3. FInv'
  BY <1>1, <1>2, Stutter DEF FInv
<1>4. FileKept
  BY DEF FInv, FileKept
<1>5. QED
  BY <1>1, <1>3, <1>4, Stutter DEF Kept

\* The call goes on, or turns to its end with a disposition that fits.
LEMMA GoesOn ==
    ASSUME FInv, Alike(wf', wf), db'.attempt = db.attempt, wf.at \notin Filing,
           wf'.at \in Concluding => DispositionCode' \in Protocol!Fits
    PROVE  Kept
<1>1. ~Filed
  BY DEF FInv
<1>2. FInv'
  BY <1>1, Stutter DEF FInv
<1>3. QED
  BY <1>1, <1>2, Stutter DEF Kept, FileKept

\* The call's end goes on under the disposition it turned to.
LEMMA EndGoesOn ==
    ASSUME FInv, Alike(wf', wf), db'.attempt = db.attempt, wf.at \in {"write", "monitor"},
           wf'.final = wf.final, wf'.flags = wf.flags
    PROVE  Kept
<1>1. DispositionCode' = DispositionCode
  BY DEF Alike, DispositionCode
<1>2. wf.at \in Concluding /\ wf.at \notin Filing
  BY DEF Concluding, Filing, Ended
<1>3. QED
  BY <1>1, <1>2, GoesOn DEF FInv

\* After the filing, and when the execution timeout strikes.
LEMMA Over ==
    ASSUME FInv, Alike(wf', wf), wf'.at \in Filing \ {"finalize"},
           db'.attempt = db.attempt, db'.rows = db.rows, db'.intents = db.intents,
           db'.session = db.session
    PROVE  Kept
<1>1. wf'.at \notin Concluding
  BY DEF Concluding, Filing, Ended
<1>2. FInv'
  BY <1>1, Stutter DEF FInv, Concluding
<1>3. QED
  BY <1>2, Stutter DEF Kept, FileKept

\* The right-party check comes to a result.
LEMMA Identifies ==
    ASSUME FInv, wf.rightParty = "unknown", wf'.rightParty \in {"right", "other"},
           wf'.level = wf.level, wf'.delivered = wf.delivered,
           db'.attempt = db.attempt, wf.at \notin Filing,
           wf'.at \in Concluding => DispositionCode' \in Protocol!Fits'
    PROVE  Kept
<1>1. ~Filed /\ ~Filed'
  BY DEF FInv, Filed
<1>2. Protocol!Identify
  BY <1>1 DEF Protocol!Identify
<1>3. QED
  BY <1>1, <1>2 DEF Kept, FInv, FileKept, Protocol!Next

\* An answer matches.
LEMMA Trusts ==
    ASSUME FInv, wf.rightParty = "right", wf.level = "L0", wf'.level \in {"L1", "L2"},
           wf'.rightParty = wf.rightParty, wf'.delivered = wf.delivered,
           db'.attempt = db.attempt, wf.at \notin Filing, wf'.at \notin Concluding
    PROVE  Kept
<1>1. ~Filed /\ ~Filed'
  BY DEF FInv, Filed
<1>2. Protocol!Trust
  BY <1>1 DEF Protocol!Trust
<1>3. QED
  BY <1>1, <1>2 DEF Kept, FInv, FileKept, Protocol!Next

\* The status is told.
LEMMA Tells ==
    ASSUME FInv, wf.level # "L0", wf.delivered = "NOTHING",
           wf'.delivered \in Disclosures \ {"NOTHING"},
           wf'.delivered = "FINANCIAL_AMOUNT" => wf.level = "L2", wf'.rightParty = wf.rightParty,
           wf'.level = wf.level, db'.attempt = db.attempt,
           wf.at \notin Filing, wf'.at \notin Concluding
    PROVE  Kept
<1>1. ~Filed /\ ~Filed'
  BY DEF FInv, Filed
<1>2. Protocol!Tell
  BY <1>1 DEF Protocol!Tell, Disclosures
<1>3. QED
  BY <1>1, <1>2 DEF Kept, FInv, FileKept, Protocol!Next

\* The outcome is filed, or filed again as it is.
LEMMA Files ==
    ASSUME IInv, FInv, wf.at = "finalize", db' = [db EXCEPT !.attempt = Outcome],
           Alike(wf', wf), wf' = wf \/ wf'.at = "audit"
    PROVE  Kept
<1>1. DispositionCode \in Codes /\ DispositionCode \in Protocol!Fits
  BY ResolveCode DEF FInv, DispositionCode, Concluding
<1>2. /\ db'.attempt = Outcome /\ db'.rows = db.rows
      /\ db'.intents = db.intents /\ db'.session = db.session
  BY DEF IInv, Good, Rows
<1>3. Outcome.disposition = DispositionCode /\ DispositionCode \notin {"ABSENT", "NONE"}
  BY <1>1 DEF Outcome, Codes
<1>4. Filed' /\ db'.attempt.disposition = DispositionCode
  BY <1>2, <1>3 DEF Filed
<1>5. FInv'
  <2>1. CASE wf' = wf
    <3>1. DispositionCode' = DispositionCode /\ Outcome' = Outcome
          /\ Protocol!Fits' = Protocol!Fits
      BY <2>1 DEF DispositionCode, Outcome, Protocol!Fits
    <3>2. QED
      BY <1>1, <1>2, <2>1, <3>1 DEF FInv, Filing
  <2>2. CASE wf'.at = "audit"
    BY <2>2 DEF FInv, Filing, Concluding
  <2>3. QED
    BY <2>1, <2>2
<1>6. CASE Filed
  <2>1. db'.attempt = db.attempt
    BY <1>2, <1>6 DEF FInv
  <2>2. QED
    BY <1>2, <1>5, <2>1, Stutter DEF Kept, FileKept
<1>7. CASE ~Filed
  <2>1. Protocol!File
    BY <1>1, <1>4, <1>7 DEF Protocol!File, Alike
  <2>2. QED
    BY <1>5, <1>7, <2>1 DEF Kept, FileKept, Protocol!Next
<1>8. QED
  BY <1>6, <1>7

\* What a turn to the end leaves for finalize_outcome.
LEMMA EndingIs ==
    ASSUME NEW w \in Memory, NEW final, NEW flags, wf' = Ending(w, final, flags)
    PROVE  /\ Alike(wf', w) /\ wf'.at = "finalize"
           /\ DispositionCode' = resolve_disposition(final, w.level # "L0", flags)
<1>1. /\ wf'.final = final /\ wf'.flags = flags /\ wf'.level = w.level
      /\ wf'.at = "finalize" /\ Alike(wf', w)
  BY DEF Ending, Memory, Alike
<1>2. QED
  BY <1>1 DEF DispositionCode

LEMMA WritingIs ==
    ASSUME NEW w \in Memory, NEW table, NEW resolution, NEW flags,
           wf' = Writing(w, table, resolution, flags)
    PROVE  /\ Alike(wf', w) /\ wf'.at = "write"
           /\ DispositionCode' = resolve_disposition("CLOSE", w.level # "L0", flags)
<1>1. /\ wf'.final = "CLOSE" /\ wf'.flags = flags /\ wf'.level = w.level
      /\ wf'.at = "write" /\ Alike(wf', w)
  BY DEF Writing, Memory, Alike
<1>2. QED
  BY <1>1 DEF DispositionCode

---------------------------------------------------------------------------
(* The actions, one by one.                                                *)

LEMMA SignalKept ==
    ASSUME FInv, Speak \/ call_dropped \/ dtmf_fallback
    PROVE  Kept
BY StandsStill DEF Speak, call_dropped, dtmf_fallback

LEMMA TimeoutKept == ASSUME IInv, FInv, ExecutionTimeout PROVE Kept
<1>1. wf' = [wf EXCEPT !.at = "terminated"] /\ UNCHANGED db
  BY DEF ExecutionTimeout
<1>2. wf'.at = "terminated" /\ Alike(wf', wf)
  BY <1>1 DEF IInv, Good, Memory, Alike
<1>3. QED
  BY <1>1, <1>2, Over DEF Filing, Ended

LEMMA CreateKept == ASSUME IInv, FInv, create_call_attempt PROVE Kept
<1>1. /\ wf.at = "attempt" /\ db.attempt.disposition = "ABSENT"
      /\ db' = [db EXCEPT !.attempt = NewAttempt]
      /\ wf' = wf \/ wf' = [wf EXCEPT !.at = "classify"]
  BY DEF create_call_attempt, Reply
<1>2. db'.attempt.disposition = "NONE"
  BY <1>1 DEF IInv, Good, Rows, NewAttempt
<1>3. ~Filed /\ ~Filed'
  BY <1>1, <1>2 DEF Filed
<1>4. Alike(wf', wf) /\ wf'.at \notin Concluding
  BY <1>1 DEF IInv, Good, Memory, Alike, Concluding
<1>5. QED
  BY <1>3, <1>4 DEF Kept, FInv, FileKept, Protocol!vars, Alike

LEMMA ClassifyKept == ASSUME IInv, FInv, classify_answer PROVE Kept
<1>1. wf.at = "classify" /\ UNCHANGED db /\ wf.at \notin Filing
  BY DEF classify_answer, Filing, Ended
<1>2. CASE wf' = [wf EXCEPT !.at = "session"]
  <2>1. wf'.at \notin Concluding /\ Alike(wf', wf)
    BY <1>2 DEF IInv, Good, Memory, Alike, Concluding
  <2>2. QED
    BY <1>1, <2>1, GoesOn
<1>3. ASSUME NEW a \in {"NO_ANSWER", "VOICEMAIL", "FAILED"},
             wf' = Ending([wf EXCEPT !.resolution = "CONTACT_NOT_ESTABLISHED"], a, {})
      PROVE  Kept
  <2> DEFINE w == [wf EXCEPT !.resolution = "CONTACT_NOT_ESTABLISHED"]
  <2>1. w \in Memory /\ Alike(w, wf)
    BY DEF IInv, Good, Memory, Resolutions, Alike
  <2>2. wf' = Ending(w, a, {})
    BY <1>3
  <2> HIDE DEF w
  <2>3. Alike(wf', wf) /\ DispositionCode' = resolve_disposition(a, w.level # "L0", {})
    BY <2>1, <2>2, EndingIs DEF Alike
  <2>4. a \in FinalStates \ {"CLOSE"}
    BY DEF FinalStates
  <2>5. DispositionCode' = PlainCode(a)
    BY <2>3, <2>4, PlainEnd
  <2>6. PlainCode(a) \in Protocol!NotContacted
    BY DEF PlainCode, Protocol!NotContacted
  <2>7. wf.rightParty = "unknown"
    BY <1>1, Region DEF IInv, Good, Placed
  <2>8. QED
    BY <1>1, <2>3, <2>5, <2>6, <2>7, FitsIn, GoesOn
<1>4. QED
  BY <1>2, <1>3 DEF classify_answer, Answered

LEMMA SessionKept == ASSUME IInv, FInv, create_call_session PROVE Kept
<1>1. /\ wf.at = "session" /\ db' = [db EXCEPT !.session = NewSession]
      /\ wf' = wf \/ wf' = Waiting(wf, "party")
  BY DEF create_call_session, Reply
<1>2. db'.attempt = db.attempt /\ wf.at \notin Filing
  BY <1>1 DEF IInv, Good, Rows, Filing, Ended
<1>3. Alike(wf', wf) /\ wf'.at \notin Concluding
  BY <1>1 DEF IInv, Good, Memory, Waiting, Alike, Concluding
<1>4. QED
  BY <1>2, <1>3, GoesOn

LEMMA WaitKept == ASSUME IInv, FInv, Wait PROVE Kept
<1>0. wf.at = "wait" /\ UNCHANGED db /\ wf.at \notin Filing /\ wf \in Memory
  BY DEF Wait, Dequeue, Keypad, Dropped, Silence, SilenceIn, NothingQueued, Filing, Ended,
         IInv, Good
<1>1. CASE Dequeue \/ Keypad
  <2>1. \/ wf' = [wf EXCEPT !.at = "note", !.heard = Head(inbox.queue)]
        \/ wf' = [wf EXCEPT !.at = "dtmf_audit"]
    BY <1>1 DEF Dequeue, Keypad, Answered
  <2>2. Alike(wf', wf) /\ wf'.at \notin Concluding
    BY <1>0, <2>1 DEF Memory, Alike, Concluding
  <2>3. QED
    BY <1>0, <2>2, GoesOn
<1>2. CASE Dropped
  <2>1. wf' = Ending(wf, "CLOSE", {"call_dropped"} \union Delivered)
    BY <1>2 DEF Dropped, Answered
  <2> DEFINE flags == {"call_dropped"} \union Delivered
  <2>a. /\ Alike(wf', wf)
        /\ DispositionCode' = resolve_disposition("CLOSE", wf.level # "L0", flags)
    BY <1>0, <2>1, EndingIs
  <2>b. "call_dropped" \in flags /\ (wf.level # "L0") \in BOOLEAN
    OBVIOUS
  <2> HIDE DEF flags
  <2>2. DispositionCode' = IF wf.level # "L0" THEN "CALL_DROPPED_POST_AUTH"
                                              ELSE "CALL_DROPPED_PRE_AUTH"
    <3> DEFINE authenticated == wf.level # "L0"
    <3>1. authenticated \in BOOLEAN
      BY <2>b
    <3>2. DispositionCode' = resolve_disposition("CLOSE", authenticated, flags)
      BY <2>a
    <3> HIDE DEF authenticated
    <3>3. DispositionCode' = IF authenticated THEN "CALL_DROPPED_POST_AUTH"
                                              ELSE "CALL_DROPPED_PRE_AUTH"
      BY <2>b, <3>1, <3>2, DroppedCode
    <3>4. QED
      BY <3>3 DEF authenticated
  <2>3. DispositionCode' \in Protocol!Fits
    BY <1>0, <2>2, Region, FitsIn DEF Memory, Stages
  <2>4. QED
    BY <1>0, <2>a, <2>3, GoesOn
<1>3. CASE Silence
  <2>0. wf.stage \in {"party", "auth", "otp", "follow"}
    BY <1>0, Region DEF Memory, Stages
  <2>1. CASE wf.stage = "party"
    <3>1. wf' = Ending(Nobody(wf), "CUSTOMER_UNAVAILABLE", {})
      BY <1>3, <2>1 DEF Silence, SilenceIn, Answered
    <3>2. /\ Nobody(wf) \in Memory /\ Nobody(wf).level = wf.level
          /\ Nobody(wf).rightParty = "other" /\ Nobody(wf).delivered = wf.delivered
      BY <1>0 DEF Memory, Nobody, Parties
    <3>3. /\ Alike(wf', Nobody(wf))
          /\ DispositionCode' = resolve_disposition("CUSTOMER_UNAVAILABLE", wf.level # "L0", {})
      BY <3>1, <3>2, EndingIs
    <3>4. DispositionCode' = "RIGHT_PARTY_NOT_AVAILABLE"
      BY <3>3, PlainEnd DEF FinalStates, PlainCode
    <3>5. DispositionCode' \in Protocol!Fits'
      BY <3>2, <3>3, <3>4 DEF Alike, Protocol!Fits, Protocol!NotTheParty
    <3>6. QED
      BY <1>0, <2>1, <3>2, <3>3, <3>5, Region, Identifies DEF Alike
  <2>2. CASE wf.stage \in {"auth", "otp"}
    <3>1. wf' = Ending(wf, "AUTH_FAILED", {})
      BY <1>3, <2>2 DEF Silence, SilenceIn, Answered
    <3>2. Alike(wf', wf) /\ DispositionCode' = "AUTH_FAILED"
      BY <1>0, <3>1, EndingIs, PlainEnd DEF FinalStates, PlainCode
    <3>3. DispositionCode' \in Protocol!Fits
      BY <1>0, <2>2, <3>2, Region, FitsIn DEF Protocol!NotTrusted
    <3>4. QED
      BY <1>0, <3>2, <3>3, GoesOn
  <2>3. CASE wf.stage = "follow"
    <3> DEFINE w == [wf EXCEPT !.resolution = "FULLY_RESOLVED_BY_AI"]
    <3>1. wf' = Ending(w, "CLOSE", {"status_delivered"})
      BY <1>3, <2>3 DEF Silence, SilenceIn, Answered, Delivered
    <3>2. w \in Memory /\ Alike(w, wf)
      BY <1>0 DEF Memory, Resolutions, Alike
    <3> HIDE DEF w
    <3>3. Alike(wf', wf) /\ DispositionCode' = "SUCCESS_STATUS_DELIVERED"
      BY <3>1, <3>2, EndingIs, ClosedCode DEF Alike, Flags
    <3>4. DispositionCode' \in Protocol!Fits
      BY <1>0, <2>3, <3>3, Region, FitsIn DEF Protocol!Served
    <3>5. QED
      BY <1>0, <3>3, <3>4, GoesOn
  <2>4. QED
    BY <2>0, <2>1, <2>2, <2>3
<1>4. QED
  BY <1>1, <1>2, <1>3 DEF Wait

\* A turn to the end, under a disposition that fits.
LEMMA TurnsToEnd ==
    ASSUME FInv, wf.at \notin Filing, db'.attempt = db.attempt,
           NEW w \in Memory, Alike(w, wf), NEW final, NEW flags,
           wf' = Ending(w, final, flags),
           resolve_disposition(final, wf.level # "L0", flags) \in Protocol!Fits
    PROVE  Kept
<1>1. /\ Alike(wf', wf)
      /\ DispositionCode' = resolve_disposition(final, wf.level # "L0", flags)
  BY EndingIs DEF Alike
<1>2. QED
  BY <1>1, GoesOn

\* A turn to a business write, and then to the end.
LEMMA TurnsToWriting ==
    ASSUME FInv, wf.at \notin Filing, db'.attempt = db.attempt, wf \in Memory,
           NEW table, NEW resolution, NEW flags,
           wf' = Writing(wf, table, resolution, flags),
           resolve_disposition("CLOSE", wf.level # "L0", flags) \in Protocol!Fits
    PROVE  Kept
<1>1. /\ Alike(wf', wf)
      /\ DispositionCode' = resolve_disposition("CLOSE", wf.level # "L0", flags)
  BY WritingIs
<1>2. QED
  BY <1>1, GoesOn

\* A signal is heard: only its intent is written.
LEMMA HeardIs ==
    ASSUME IInv, NEW stage, NEW intents, Hear(stage, intents)
    PROVE  /\ wf \in Memory /\ wf.at = "note" /\ wf.stage = stage /\ wf.at \notin Filing
           /\ db'.attempt = db.attempt
BY DEF Hear, IInv, Good, Rows, Filing, Ended

\* A request for a human ends any stage.
LEMMA EscalationKept ==
    ASSUME IInv, FInv, NEW stage \in {"party", "auth", "otp", "follow"},
           Hear(stage, {"REQUEST_HUMAN"}), Answered(Escalating(wf, {}))
    PROVE  Kept
<1>1. /\ wf \in Memory /\ wf.at = "note" /\ wf.stage = stage /\ wf.at \notin Filing
      /\ db'.attempt = db.attempt
  BY HeardIs
<1> DEFINE flags == {"human_transferred"}
<1>2. wf' = Writing(wf, "escalation", "HUMAN_TRANSFER", flags)
  BY DEF Answered, Escalating
<1>3. /\ flags \in SUBSET Flags /\ "human_transferred" \in flags
      /\ flags \subseteq {"human_transferred", "complaint_created", "action_created",
                          "callback_requested", "status_delivered", "question_resolved"}
  BY DEF Flags
<1> HIDE DEF flags
<1>4. resolve_disposition("CLOSE", wf.level # "L0", flags) = "SUCCESS_HUMAN_TRANSFER"
  BY <1>3, ClosedCode
<1>5. "SUCCESS_HUMAN_TRANSFER" \in Protocol!Fits
  BY <1>1, Region, FitsIn
<1>6. QED
  BY <1>1, <1>2, <1>4, <1>5, TurnsToWriting

\* The stage listens on.
LEMMA ListensKept ==
    ASSUME IInv, FInv, NEW stage, NEW intents, Hear(stage, intents),
           Answered(Waiting(wf, stage))
    PROVE  Kept
<1>1. wf \in Memory /\ wf.at \notin Filing /\ db'.attempt = db.attempt
  BY HeardIs
<1>2. Alike(wf', wf) /\ wf'.at = "wait"
  BY <1>1 DEF Answered, Waiting, Memory, Alike
<1>3. QED
  BY <1>1, <1>2, GoesOn DEF Concluding

LEMMA KeypadKept == ASSUME IInv, FInv, HandleKeypad PROVE Kept
<1>1. /\ wf \in Memory /\ wf.at = "dtmf_audit" /\ wf.at \notin Filing
      /\ db'.attempt = db.attempt
  BY DEF HandleKeypad, IInv, Good, Rows, Filing, Ended
<1>2. wf.stage \in {"party", "auth", "otp", "follow"}
  BY <1>1, Region DEF Memory, Stages
<1>3. "DTMF_FALLBACK_ACTIVATED" \in Protocol!Fits
  BY <1>1, <1>2, Region, FitsIn
<1>4. PICK table, resolution, flags :
        /\ wf' = Writing(wf, table, resolution, flags)
        /\ "dtmf_fallback" \in flags
        /\ flags \subseteq {"dtmf_fallback", "callback_requested", "human_transferred"}
  <2>1. CASE wf' = Writing(wf, "escalation", "HUMAN_TRANSFER",
                           {"dtmf_fallback", "human_transferred"})
    BY <2>1
  <2>2. CASE wf' = Writing(wf, "callback", "CALLBACK_SCHEDULED",
                           {"dtmf_fallback", "callback_requested"})
    BY <2>2
  <2>3. {"dtmf_fallback"} \union {"human_transferred"} = {"dtmf_fallback", "human_transferred"}
    OBVIOUS
  <2>4. QED
    BY <2>1, <2>2, <2>3 DEF HandleKeypad, Answered, Escalating
<1>5. resolve_disposition("CLOSE", wf.level # "L0", flags) = "DTMF_FALLBACK_ACTIVATED"
  BY <1>4, InterruptedCode
<1>6. QED
  BY <1>1, <1>3, <1>4, <1>5, TurnsToWriting

LEMMA HearPartyKept == ASSUME IInv, FInv, HearParty PROVE Kept
<1>1. ASSUME Hear("party", {"WRONG_PARTY", "CUSTOMER_UNAVAILABLE"}),
             Answered(Ending(Nobody(wf), wf.heard.intent, {}))
      PROVE  Kept
  <2>1. /\ wf \in Memory /\ wf.at = "note" /\ wf.stage = "party" /\ wf.at \notin Filing
        /\ db'.attempt = db.attempt
    BY <1>1, HeardIs
  <2>2. /\ Nobody(wf) \in Memory /\ Nobody(wf).level = wf.level
        /\ Nobody(wf).rightParty = "other" /\ Nobody(wf).delivered = wf.delivered
    BY <2>1 DEF Memory, Nobody, Parties
  <2>3. PICK final \in {"WRONG_PARTY", "CUSTOMER_UNAVAILABLE"} :
          wf' = Ending(Nobody(wf), final, {})
    BY <1>1 DEF Hear, Answered
  <2>4. /\ Alike(wf', Nobody(wf))
        /\ DispositionCode' = resolve_disposition(final, wf.level # "L0", {})
    BY <2>2, <2>3, EndingIs
  <2>5. DispositionCode' = PlainCode(final)
    BY <2>4, PlainEnd DEF FinalStates
  <2>6. PlainCode(final) \in Protocol!NotTheParty
    BY DEF PlainCode, Protocol!NotTheParty
  <2>7. DispositionCode' \in Protocol!Fits'
    BY <2>2, <2>4, <2>5, <2>6 DEF Alike, Protocol!Fits
  <2>8. QED
    BY <2>1, <2>2, <2>4, <2>7, Region, Identifies DEF Alike
<1>2. ASSUME Hear("party", {"CUSTOMER_DRIVING"}),
             Answered(Writing(wf, "callback", "CALLBACK_SCHEDULED", {"callback_requested"}))
      PROVE  Kept
  <2>1. /\ wf \in Memory /\ wf.at = "note" /\ wf.stage = "party" /\ wf.at \notin Filing
        /\ db'.attempt = db.attempt
    BY <1>2, HeardIs
  <2>2. resolve_disposition("CLOSE", wf.level # "L0", {"callback_requested"})
          = "CALLBACK_REQUESTED"
    BY ClosedCode DEF Flags
  <2>3. "CALLBACK_REQUESTED" \in Protocol!Fits
    BY <2>1, Region, FitsIn
  <2>4. QED
    BY <1>2, <2>1, <2>2, <2>3, TurnsToWriting DEF Answered
<1>3. ASSUME Hear("party", {"RIGHT_PARTY_CONFIRMED"}),
             Answered([wf EXCEPT !.rightParty = "right", !.at = "confirm"])
      PROVE  Kept
  <2>1. /\ wf \in Memory /\ wf.at = "note" /\ wf.stage = "party" /\ wf.at \notin Filing
        /\ db'.attempt = db.attempt
    BY <1>3, HeardIs
  <2>2. /\ wf'.rightParty = "right" /\ wf'.level = wf.level
        /\ wf'.delivered = wf.delivered /\ wf'.at = "confirm"
    BY <1>3, <2>1 DEF Answered, Memory
  <2>3. QED
    BY <2>1, <2>2, Region, Identifies DEF Concluding
<1>4. QED
  BY <1>1, <1>2, <1>3, EscalationKept, ListensKept DEF HearParty

LEMMA HearAuthKept == ASSUME IInv, FInv, HearAuth PROVE Kept
<1>1. ASSUME NEW intents, Hear("auth", intents), NEW at \in {"send_otp", "verify_level1"},
             wf' = [wf EXCEPT !.at = at]
      PROVE  Kept
  <2>1. wf \in Memory /\ wf.at \notin Filing /\ db'.attempt = db.attempt
    BY <1>1, HeardIs
  <2>2. Alike(wf', wf) /\ wf'.at \notin Concluding
    BY <1>1, <2>1 DEF Memory, Alike, Concluding
  <2>3. QED
    BY <2>1, <2>2, GoesOn
<1>2. QED
  BY <1>1, EscalationKept, ListensKept DEF HearAuth, Answered

LEMMA HearOtpKept == ASSUME IInv, FInv, HearOtp PROVE Kept
<1>1. ASSUME Hear("otp", {"OTP_ANSWER"}), NEW l \in OtpLateness,
             Answered([wf EXCEPT !.at = "verify_otp", !.late = l])
      PROVE  Kept
  <2>1. wf \in Memory /\ wf.at \notin Filing /\ db'.attempt = db.attempt
    BY <1>1, HeardIs
  <2>2. Alike(wf', wf) /\ wf'.at \notin Concluding
    BY <1>1, <2>1 DEF Answered, Memory, Alike, Concluding
  <2>3. QED
    BY <2>1, <2>2, GoesOn
<1>2. QED
  BY <1>1, EscalationKept, ListensKept DEF HearOtp

LEMMA HearFollowUpKept == ASSUME IInv, FInv, HearFollowUp PROVE Kept
<1>1. ASSUME NEW intents, Hear("follow", intents)
      PROVE  /\ wf \in Memory /\ wf.at \notin Filing /\ db'.attempt = db.attempt
             /\ Protocol!Fits = Protocol!Served \union
                  {"CALL_DROPPED_POST_AUTH", "SUCCESS_HUMAN_TRANSFER",
                   "DTMF_FALLBACK_ACTIVATED", "CALLBACK_REQUESTED"}
             /\ Delivered = {"status_delivered"}
  <2>1. /\ wf \in Memory /\ wf.at = "note" /\ wf.stage = "follow" /\ wf.at \notin Filing
        /\ db'.attempt = db.attempt
    BY <1>1, HeardIs
  <2>2. wf.rightParty = "right" /\ wf.level # "L0" /\ wf.delivered # "NOTHING"
    BY <2>1, Region
  <2>3. QED
    BY <2>1, <2>2, FitsIn DEF Delivered
<1>2. ASSUME NEW intents, Hear("follow", intents),
             NEW more \in {{}, {"question_resolved"}},
             wf' = Ending([wf EXCEPT !.resolution = "FULLY_RESOLVED_BY_AI"],
                          "CLOSE", Delivered \union more)
      PROVE  Kept
  <2> DEFINE w == [wf EXCEPT !.resolution = "FULLY_RESOLVED_BY_AI"]
             flags == Delivered \union more
  <2>1. w \in Memory /\ Alike(w, wf)
    BY <1>1, <1>2 DEF Memory, Resolutions, Alike
  <2>2. flags \in {{"status_delivered"}, {"status_delivered", "question_resolved"}}
    BY <1>1, <1>2
  <2>3. wf' = Ending(w, "CLOSE", flags)
    BY <1>2
  <2> HIDE DEF w, flags
  <2>4. flags \in SUBSET Flags
        /\ flags \subseteq {"human_transferred", "complaint_created", "action_created",
                            "callback_requested", "status_delivered", "question_resolved"}
    BY <2>2 DEF Flags
  <2>5. resolve_disposition("CLOSE", wf.level # "L0", flags) \in
          {"SUCCESS_STATUS_DELIVERED", "SUCCESS_STATUS_AND_QUERY_RESOLVED"}
    BY <2>2, <2>4, ClosedCode
  <2>6. resolve_disposition("CLOSE", wf.level # "L0", flags) \in Protocol!Fits
    BY <1>1, <1>2, <2>5 DEF Protocol!Served
  <2>7. QED
    BY <1>1, <1>2, <2>1, <2>3, <2>6, TurnsToEnd
<1>3. ASSUME NEW intents, Hear("follow", intents), NEW table, NEW resolution,
             NEW more \in {"action_created", "complaint_created", "callback_requested"},
             wf' = Writing(wf, table, resolution, Delivered \union {more})
      PROVE  Kept
  <2> DEFINE flags == Delivered \union {more}
  <2>1. /\ flags \in {{"status_delivered", "action_created"},
                      {"status_delivered", "complaint_created"},
                      {"status_delivered", "callback_requested"}}
        /\ wf' = Writing(wf, table, resolution, flags)
    BY <1>1, <1>3
  <2> HIDE DEF flags
  <2>2. flags \in SUBSET Flags
        /\ flags \subseteq {"human_transferred", "complaint_created", "action_created",
                            "callback_requested", "status_delivered", "question_resolved"}
    BY <2>1 DEF Flags
  <2>3. resolve_disposition("CLOSE", wf.level # "L0", flags) \in
          {"SUCCESS_ACTION_CREATED", "SUCCESS_COMPLAINT_REGISTERED", "CALLBACK_REQUESTED"}
    BY <2>1, <2>2, ClosedCode
  <2>4. resolve_disposition("CLOSE", wf.level # "L0", flags) \in Protocol!Fits
    BY <1>1, <1>3, <2>3 DEF Protocol!Served
  <2>5. QED
    BY <1>1, <1>3, <2>1, <2>4, TurnsToWriting
<1>4. Delivered = Delivered \union {}
  OBVIOUS
<1>5. QED
  BY <1>2, <1>3, <1>4, EscalationKept DEF HearFollowUp, Answered

LEMMA ConverseKept == ASSUME IInv, FInv, Converse PROVE Kept
BY KeypadKept, HearPartyKept, HearAuthKept, HearOtpKept, HearFollowUpKept DEF Converse

\* A reply that is lost leaves the memory where it was.
LEMMA ReplyKept ==
    ASSUME FInv, wf.at \notin Filing, db'.attempt = db.attempt, NEW w, Reply(w),
           wf' = w => Kept
    PROVE  Kept
BY StandsStill DEF Reply

\* The same memory, at another activity.
LEMMA MovesOn ==
    ASSUME FInv, wf.at \notin Filing, db'.attempt = db.attempt, wf \in Memory,
           \/ \E at \in Activities \ {"write", "monitor", "finalize"} :
                \/ wf' = [wf EXCEPT !.at = at]
                \/ wf' = [wf EXCEPT !.at = at, !.heard = NoSignal]
           \/ \E w \in Memory : \E stage : Alike(w, wf) /\ wf' = Waiting(w, stage)
    PROVE  Kept
<1>1. Alike(wf', wf) /\ wf'.at \notin Concluding
  <2>1. ASSUME NEW at \in Activities \ {"write", "monitor", "finalize"},
               \/ wf' = [wf EXCEPT !.at = at]
               \/ wf' = [wf EXCEPT !.at = at, !.heard = NoSignal]
        PROVE  Alike(wf', wf) /\ wf'.at \notin Concluding
    BY <2>1 DEF Alike, Memory, Concluding
  <2>2. ASSUME NEW w \in Memory, NEW stage, Alike(w, wf), wf' = Waiting(w, stage)
        PROVE  Alike(wf', wf) /\ wf'.at \notin Concluding
    BY <2>2 DEF Alike, Memory, Waiting, Concluding
  <2>3. QED
    BY <2>1, <2>2
<1>2. QED
  BY <1>1, GoesOn

LEMMA VerifyKept == ASSUME IInv, FInv, Verify PROVE Kept
<1>0. wf \in Memory /\ db \in Rows
  BY DEF IInv, Good
<1>1. CASE ConfirmParty
  <2>1. wf.at \notin Filing /\ db'.attempt = db.attempt
    BY <1>0, <1>1 DEF ConfirmParty, Rows, Filing, Ended
  <2>2. "factor" \in Activities \ {"write", "monitor", "finalize"}
    BY DEF Activities
  <2>3. QED
    BY <1>0, <1>1, <2>1, <2>2, MovesOn, ReplyKept DEF ConfirmParty
<1>2. CASE get_configured_auth_factor_type
  <2>1. wf.at \notin Filing /\ db' = db
    BY <1>2 DEF get_configured_auth_factor_type, Filing, Ended
  <2>2. PICK f \in FactorOnFile : wf' = Waiting([wf EXCEPT !.factor = f], "auth")
    BY <1>2 DEF get_configured_auth_factor_type, Answered
  <2>3. [wf EXCEPT !.factor = f] \in Memory /\ Alike([wf EXCEPT !.factor = f], wf)
    BY <1>0, ChoicesAssumption DEF Memory, Alike
  <2>4. QED
    BY <1>0, <2>1, <2>2, <2>3, MovesOn
<1>3. CASE verify_level1
  <2>0. /\ wf.at = "verify_level1" /\ wf.at \notin Filing
        /\ db'.attempt = db.attempt
        /\ wf.rightParty = "right" /\ wf.level = "L0"
    <3>1. wf.at = "verify_level1" /\ db'.attempt = db.attempt
      BY <1>0, <1>3 DEF verify_level1, CompareFactor, Rows
    <3>2. wf.at \notin Filing
      BY <3>1 DEF Filing, Ended
    <3>3. QED
      BY <3>1, <3>2, Region
  <2>1. CASE Reply([wf EXCEPT !.level = "L1", !.at = "save_level"])
    <3>1. ASSUME wf' = [wf EXCEPT !.level = "L1", !.at = "save_level"]
          PROVE  Kept
      <4>1. /\ wf'.level = "L1" /\ wf'.at = "save_level"
            /\ wf'.rightParty = wf.rightParty /\ wf'.delivered = wf.delivered
        BY <1>0, <3>1 DEF Memory
      <4>2. QED
        BY <2>0, <4>1, Trusts DEF Concluding
    <3>2. QED
      BY <2>0, <2>1, <3>1, ReplyKept
  <2>2. CASE Reply(Ending(wf, "AUTH_FAILED", {}))
    <3>1. resolve_disposition("AUTH_FAILED", wf.level # "L0", {}) = "AUTH_FAILED"
      BY PlainEnd DEF FinalStates, PlainCode
    <3>2. "AUTH_FAILED" \in Protocol!Fits
      BY <2>0, FitsIn DEF Protocol!NotTrusted
    <3>3. wf' = Ending(wf, "AUTH_FAILED", {}) => Kept
      BY <1>0, <2>0, <3>1, <3>2, TurnsToEnd DEF Alike
    <3>4. QED
      BY <2>0, <2>2, <3>3, ReplyKept
  <2>3. CASE Reply(Waiting(wf, "auth"))
    <3>1. wf' = Waiting(wf, "auth") => Kept
      BY <1>0, <2>0, MovesOn DEF Alike
    <3>2. QED
      BY <2>0, <2>3, <3>1, ReplyKept
  <2>4. QED
    BY <1>3, <2>1, <2>2, <2>3 DEF verify_level1, CompareFactor
<1>4. CASE send_otp
  <2>1. wf.at \notin Filing /\ db'.attempt = db.attempt
    BY <1>0, <1>4 DEF send_otp, Rows, Filing, Ended
  <2>2. wf' = Waiting(wf, "otp") => Kept
    BY <1>0, <2>1, MovesOn DEF Alike
  <2>3. QED
    BY <1>4, <2>1, <2>2, ReplyKept DEF send_otp
<1>5. CASE verify_otp
  <2>0. /\ wf.at = "verify_otp" /\ wf.at \notin Filing
        /\ db'.attempt = db.attempt
        /\ wf.rightParty = "right" /\ wf.level = "L0"
    <3>1. wf.at = "verify_otp" /\ db'.attempt = db.attempt
      BY <1>0, <1>5 DEF verify_otp, Rows
    <3>2. wf.at \notin Filing
      BY <3>1 DEF Filing, Ended
    <3>3. QED
      BY <3>1, <3>2, Region
  <2>1. CASE Reply([wf EXCEPT !.level = "L2", !.at = "save_level"])
    <3>1. ASSUME wf' = [wf EXCEPT !.level = "L2", !.at = "save_level"]
          PROVE  Kept
      <4>1. /\ wf'.level = "L2" /\ wf'.at = "save_level"
            /\ wf'.rightParty = wf.rightParty /\ wf'.delivered = wf.delivered
        BY <1>0, <3>1 DEF Memory
      <4>2. QED
        BY <2>0, <4>1, Trusts DEF Concluding
    <3>2. QED
      BY <2>0, <2>1, <3>1, ReplyKept
  <2>2. CASE Reply(Ending(wf, "CLOSE", {"otp_locked"}))
    <3>1. resolve_disposition("CLOSE", wf.level # "L0", {"otp_locked"}) = "OTP_LOCKED"
      BY InterruptedCode
    <3>2. "OTP_LOCKED" \in Protocol!Fits
      BY <2>0, FitsIn DEF Protocol!NotTrusted
    <3>3. wf' = Ending(wf, "CLOSE", {"otp_locked"}) => Kept
      BY <1>0, <2>0, <3>1, <3>2, TurnsToEnd DEF Alike
    <3>4. QED
      BY <2>0, <2>2, <3>3, ReplyKept
  <2>3. CASE Reply(Waiting(wf, "otp"))
    <3>1. wf' = Waiting(wf, "otp") => Kept
      BY <1>0, <2>0, MovesOn DEF Alike
    <3>2. QED
      BY <2>0, <2>3, <3>1, ReplyKept
  <2>4. QED
    BY <1>5, <2>1, <2>2, <2>3 DEF verify_otp
<1>6. CASE SaveLevel
  <2>1. wf.at \notin Filing /\ db'.attempt = db.attempt
    BY <1>0, <1>6 DEF SaveLevel, Rows, Filing, Ended
  <2>2. "deliver" \in Activities \ {"write", "monitor", "finalize"}
    BY DEF Activities
  <2>3. QED
    BY <1>0, <1>6, <2>1, <2>2, MovesOn, ReplyKept DEF SaveLevel
<1>7. QED
  BY <1>1, <1>2, <1>3, <1>4, <1>5, <1>6 DEF Verify

LEMMA DeliverKept == ASSUME IInv, FInv, deliver_status PROVE Kept
<1>0. /\ wf \in Memory /\ wf.at = "deliver" /\ wf.at \notin Filing /\ db' = db
      /\ wf.rightParty = "right" /\ wf.level # "L0" /\ wf.delivered = "NOTHING"
  BY Region DEF deliver_status, IInv, Good, Filing, Ended
<1>1. ASSUME NEW claim \in ClaimsOnFile,
             wf' = [wf EXCEPT !.delivered = get_disclosable_status(claim, wf.level),
                              !.at = "disclose"]
      PROVE  Kept
  <2>1. /\ wf'.delivered = get_disclosable_status(claim, wf.level) /\ wf'.at = "disclose"
        /\ wf'.rightParty = wf.rightParty /\ wf'.level = wf.level
    BY <1>0, <1>1 DEF Memory
  <2>2. QED
    BY <1>0, <2>1, Disclosed, Tells DEF Concluding
<1>2. CASE wf' = Writing(wf, "action", "BACKEND_SYSTEM_FAILURE", {"backend_unavailable"})
  <2>1. resolve_disposition("CLOSE", wf.level # "L0", {"backend_unavailable"})
          = "BACKEND_SYSTEM_FAILURE"
    BY InterruptedCode
  <2>2. "BACKEND_SYSTEM_FAILURE" \in Protocol!Fits
    BY <1>0, FitsIn
  <2>3. QED
    BY <1>0, <1>2, <2>1, <2>2, TurnsToWriting
<1>3. QED
  BY <1>1, <1>2 DEF deliver_status, Answered

LEMMA WriteKept ==
    ASSUME IInv, FInv, PerformWrite \/ ReplayWrite \/ AbandonWrite \/ StartMonitor
    PROVE  Kept
<1>0. /\ wf \in Memory /\ wf.at \in {"write", "monitor"} /\ wf.at \notin Filing
      /\ db'.attempt = db.attempt
  BY DEF PerformWrite, ReplayWrite, AbandonWrite, StartMonitor, IInv, Good, Rows,
         Filing, Ended
<1>1. ASSUME NEW at, wf' = [wf EXCEPT !.at = at]
      PROVE  Kept
  <2>1. Alike(wf', wf) /\ wf'.final = wf.final /\ wf'.flags = wf.flags
    BY <1>0, <1>1 DEF Memory, Alike
  <2>2. QED
    BY <1>0, <2>1, EndGoesOn
<1>2. CASE PerformWrite
  BY <1>0, <1>1, <1>2, ReplyKept DEF PerformWrite, AfterWrite
<1>3. CASE ReplayWrite
  BY <1>1, <1>3 DEF ReplayWrite, Answered, AfterWrite
<1>4. CASE AbandonWrite
  BY <1>0, <1>4, StandsStill DEF AbandonWrite
<1>5. CASE StartMonitor
  BY <1>1, <1>5 DEF StartMonitor, Answered
<1>6. QED
  BY <1>2, <1>3, <1>4, <1>5

LEMMA FileOutcomeKept == ASSUME IInv, FInv, finalize_outcome PROVE Kept
<1>1. /\ wf \in Memory /\ wf.at = "finalize"
      /\ db' = [db EXCEPT !.attempt = Outcome]
      /\ wf' = wf \/ wf' = [wf EXCEPT !.at = "audit"]
  BY DEF finalize_outcome, Reply, Outcome, IInv, Good
<1>2. Alike(wf', wf) /\ (wf' = wf \/ wf'.at = "audit")
  BY <1>1 DEF Memory, Alike
<1>3. QED
  BY <1>1, <1>2, Files

LEMMA ConcludeKept == ASSUME IInv, FInv, Conclude PROVE Kept
<1>0. wf \in Memory /\ db \in Rows
  BY DEF IInv, Good
<1>1. CASE Disclose
  <2>1. wf.at \notin Filing /\ db'.attempt = db.attempt
    BY <1>0, <1>1 DEF Disclose, Rows, Filing, Ended
  <2>2. wf' = Waiting(wf, "follow") => Kept
    BY <1>0, <2>1, MovesOn DEF Alike
  <2>3. QED
    BY <1>1, <2>1, <2>2, ReplyKept DEF Disclose
<1>2. CASE record_audit_event \/ generate_call_summary
  <2>1. /\ db'.attempt = db.attempt /\ db'.rows = db.rows
        /\ db'.intents = db.intents /\ db'.session = db.session
    BY <1>0, <1>2 DEF record_audit_event, generate_call_summary, Rows
  <2>2. Alike(wf', wf) /\ wf'.at \in {"summary", "closed"}
    BY <1>0, <1>2 DEF record_audit_event, generate_call_summary, Answered, Memory, Alike
  <2>3. QED
    BY <2>1, <2>2, Over DEF Filing, Ended
<1>3. QED
  BY <1>1, <1>2, DeliverKept, WriteKept, FileOutcomeKept DEF Conclude

---------------------------------------------------------------------------
(* Results.                                                                *)

LEMMA InitFInv == Init => FInv /\ Protocol!Init
BY DEF Init, FInv, Filed, NewAttempt, Concluding, Protocol!Init

LEMMA NextKept == ASSUME IInv, FInv, [Next]_vars PROVE Kept
<1>1. CASE UNCHANGED vars
  BY <1>1, StandsStill DEF vars
<1>2. CASE Next
  BY <1>2, SignalKept, TimeoutKept, CreateKept, ClassifyKept, SessionKept, WaitKept,
     ConverseKept, VerifyKept, ConcludeKept DEF Next, Work, Contact
<1>3. QED
  BY <1>1, <1>2

\* The workflow and its rows take only the steps the call's protocol allows:
\* confirmed, trusted, told, and filed once under a disposition that fits how
\* far the call got, whatever is said and whatever replies are lost
\* (calls/workflows.py, calls/disposition.py).
THEOREM CallImplementsProtocol == Spec => ImplementsProtocol
<1>1. IInv /\ FInv /\ [Next]_vars => FInv' /\ [Protocol!Next]_(Protocol!vars)
  BY NextKept DEF Kept
<1>2. QED
  BY <1>1, InitIInv, NextIInv, InitFInv, PTL DEF Spec, ImplementsProtocol, Protocol!Spec

\* Once the outcome is on file no repeated activity, late signal or timeout
\* changes it, nor the business rows, the intents or the session
\* (calls/workflows.py _finalize, calls/activities.py finalize_outcome).
THEOREM OutcomeStaysFiled == Spec => FiledForGood
<1>1. IInv /\ FInv /\ [Next]_vars => FInv' /\ FileKept
  BY NextKept DEF Kept
<1>2. QED
  BY <1>1, InitIInv, NextIInv, InitFInv, PTL DEF Spec, FiledForGood, FileKept
=============================================================================
