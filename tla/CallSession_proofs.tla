------------------------- MODULE CallSession_proofs -------------------------
(***************************************************************************)
(* Proofs about CallSession for every set of signals, every attempt limit, *)
(* and any number of queued signals and lost replies.                      *)
(*                                                                         *)
(* The invariant is a relation between the workflow's memory and the rows, *)
(* so that it can be stated of the memory an activity's reply would leave  *)
(* behind: Good(w, d) holds of (wf, db) in every reachable state, and an   *)
(* action that commits db' and replies w is right when Good holds both of  *)
(* (w, db') and, the reply being lost, of (wf, db').                       *)
(***************************************************************************)
EXTENDS CallSession, SequenceTheorems, WellFoundedInduction, TLAPS

Closing == {"monitor", "finalize", "audit", "summary"} \union Ended
Known == {"auth", "otp", "follow"}    \* stages behind a confirmed right party

\* Where the workflow may stand in each stage; one business write at most.
Placed(w) ==
    /\ w.at \in {"attempt", "classify", "session"} => w.stage = "start"
    /\ w.at \in {"confirm", "factor"} => w.stage = "party"
    /\ w.at \in {"verify_level1", "send_otp"} => w.stage = "auth"
    /\ w.at = "verify_otp" => w.stage = "otp"
    /\ w.at \in {"save_level", "deliver", "disclose"} => w.stage \in {"auth", "otp"}
    /\ w.at \in {"wait", "note", "dtmf_audit", "write"} => w.stage # "start"
    /\ w.at = "write" => w.seq = 1 /\ w.table \in Tables
    /\ w.at \notin {"write"} \union Closing => w.seq = 0

\* The customer is still to be let in.
Untrusted(w) ==
    \/ w.stage \in {"start", "party"}
    \/ /\ w.stage \in {"auth", "otp"}
       /\ w.at \in {"wait", "note", "dtmf_audit", "verify_level1", "send_otp", "verify_otp"}

\* Confirmed before trusted, trusted before told.
Ladder(w) ==
    /\ w.stage = "start" => w.rightParty = "unknown"
    /\ w.stage = "party" /\ w.at \in {"wait", "note", "dtmf_audit", "write"} =>
         w.rightParty = "unknown"
    /\ w.at \in {"confirm", "factor"} \/ w.stage \in Known => w.rightParty = "right"
    /\ Untrusted(w) => w.level = "L0"
    /\ w.level = "L0" \/ w.at \in {"save_level", "deliver"} => w.delivered = "NOTHING"
    /\ w.at \in {"save_level", "deliver", "disclose"} => w.level # "L0"
    /\ w.stage = "follow" \/ w.at = "disclose" => w.delivered # "NOTHING"
    /\ w.delivered = "FINANCIAL_AMOUNT" => w.level = "L2"

\* What the workflow believes, the rows show.
Evidence(w, d) ==
    /\ w.at = "factor" \/ w.stage \in Known => d.session.rightParty
    /\ w.level = "L1" => d.match > 0
    /\ w.level = "L2" => d.otp = "VERIFIED"

Good(w, d) ==
    /\ w \in Memory
    /\ d \in Rows
    /\ Placed(w)
    /\ Ladder(w)
    /\ Evidence(w, d)

Queued == inbox \in Inbox /\ Len(inbox.queue) <= MaxQueue /\ lost \in 0 .. MaxLost

IInv == Good(wf, db) /\ Queued

USE SignalsAssumption, ChoicesAssumption, BoundsAssumption

---------------------------------------------------------------------------
(* What the helpers return.                                                *)

LEMMA InitIInv == Init => IInv
<1> SUFFICES ASSUME Init PROVE IInv
  OBVIOUS
<1>1. wf \in Memory
  BY DEF Init, Memory, Activities, Ended, Stages, Parties, Levels, Disclosures,
     Tables, FinalStates, Flags, Resolutions
<1>2. db \in Rows
  <2>1. db.attempt \in Attempt
    BY DEF Init, NewAttempt, Attempt, Parties, Levels, Disclosures, Resolutions
  <2>2. db.session \in Session
    BY DEF Init, NewSession, Session, Levels
  <2>3. db.claim \in [Keys -> {"absent", "pending", "done"}] /\ db.rows \in Seq(Tables)
    BY DEF Init
  <2>4. QED
    BY <2>1, <2>2, <2>3 DEF Init, Rows
<1>3. Queued
  BY DEF Init, Queued, Inbox
<1>4. Placed(wf) /\ Ladder(wf) /\ Evidence(wf, db)
  BY DEF Init, Placed, Ladder, Evidence, Closing, Known, Untrusted, Ended
<1>5. QED
  BY <1>1, <1>2, <1>3, <1>4 DEF IInv, Good

\* Back to the wait of the stage the customer is in.
LEMMA WaitingGood ==
    ASSUME NEW w, NEW d, Good(w, d), w.at \in {"note", "verify_level1", "verify_otp"}
    PROVE  Good(Waiting(w, w.stage), d)
<1>1. Waiting(w, w.stage) \in Memory
  BY DEF Good, Waiting, Memory, Activities, NoSignal
<1>2. /\ Waiting(w, w.stage).at = "wait"
      /\ Waiting(w, w.stage).stage = w.stage
      /\ Waiting(w, w.stage).seq = w.seq
      /\ Waiting(w, w.stage).rightParty = w.rightParty
      /\ Waiting(w, w.stage).level = w.level
      /\ Waiting(w, w.stage).delivered = w.delivered
  BY DEF Good, Waiting, Memory
<1>3. QED
  BY <1>1, <1>2 DEF Good, Placed, Ladder, Evidence, Closing, Known, Untrusted, Ended

\* _finalize is good from anywhere.
LEMMA EndingGood ==
    ASSUME NEW w, NEW d, Good(w, d), NEW final \in FinalStates,
           NEW flags \in SUBSET Flags
    PROVE  Good(Ending(w, final, flags), d)
<1> DEFINE e == Ending(w, final, flags)
<1>1. e \in Memory
  BY DEF Good, Ending, Memory, Activities, NoSignal
<1>2. /\ e.at = "finalize" /\ e.stage = w.stage /\ e.seq = w.seq
      /\ e.rightParty = w.rightParty /\ e.level = w.level
      /\ e.delivered = w.delivered
  BY DEF Good, Ending, Memory
<1> HIDE DEF e
<1>3. QED
  BY <1>1, <1>2 DEF e, Good, Placed, Ladder, Evidence, Closing, Known, Untrusted, Ended

\* A business write is good where none was made.
LEMMA WritingGood ==
    ASSUME NEW w, NEW d, Good(w, d), w.at \in {"note", "dtmf_audit", "deliver"},
           NEW table \in Tables, NEW resolution \in Resolutions,
           NEW flags \in SUBSET Flags
    PROVE  Good(Writing(w, table, resolution, flags), d)
<1> DEFINE e == Writing(w, table, resolution, flags)
<1>0. w.seq = 0
  BY DEF Good, Placed, Closing, Ended
<1>1. e \in Memory
  <2>1. "CLOSE" \in FinalStates /\ w.seq + 1 \in 0 .. 2
    BY <1>0 DEF FinalStates
  <2>2. QED
    BY <2>1 DEF Good, Writing, Memory, Activities, NoSignal
<1>2. /\ e.at = "write" /\ e.stage = w.stage /\ e.seq = 1 /\ e.table = table
      /\ e.rightParty = w.rightParty /\ e.level = w.level
      /\ e.delivered = w.delivered
  BY <1>0 DEF Good, Writing, Memory
<1> HIDE DEF e
<1>3. QED
  BY <1>1, <1>2 DEF e, Good, Placed, Ladder, Evidence, Closing, Known, Untrusted, Ended

\* More rows take nothing away from what the memory rests on.
LEMMA RowsGood ==
    ASSUME NEW w, NEW d, NEW e, Good(w, d), e \in Rows,
           d.session.rightParty => e.session.rightParty,
           d.match > 0 => e.match > 0,
           d.otp = "VERIFIED" => e.otp = "VERIFIED"
    PROVE  Good(w, e)
BY DEF Good, Evidence

\* A conclusion changes nothing of what the customer was.
Same(v, w) ==
    /\ v.stage = w.stage
    /\ v.rightParty = w.rightParty
    /\ v.level = w.level
    /\ v.delivered = w.delivered

\* The call may be concluded from anywhere.
LEMMA ClosingGood ==
    ASSUME NEW w, NEW v, NEW d, Good(w, d), v \in Memory, Same(v, w), v.at \in Closing
    PROVE  Good(v, d)
BY DEF Good, Same, Placed, Ladder, Evidence, Closing, Known, Untrusted, Ended

\* From a wait to what was heard, and to the keypad.
LEMMA HeardGood ==
    ASSUME NEW w, NEW v, NEW d, Good(w, d), v \in Memory, Same(v, w), v.seq = w.seq,
           w.at = "wait", v.at \in {"note", "dtmf_audit"}
    PROVE  Good(v, d)
BY DEF Good, Same, Placed, Ladder, Evidence, Closing, Known, Untrusted, Ended

\* From an answer to the activity that checks it.
LEMMA CheckGood ==
    ASSUME NEW w, NEW v, NEW d, Good(w, d), v \in Memory, Same(v, w), v.seq = w.seq,
           w.at = "note",
           \/ w.stage = "auth" /\ v.at \in {"verify_level1", "send_otp"}
           \/ w.stage = "otp" /\ v.at = "verify_otp"
    PROVE  Good(v, d)
BY DEF Good, Same, Placed, Ladder, Evidence, Closing, Known, Untrusted, Ended

\* The resolution is no part of what the memory rests on.
LEMMA ResolvedGood ==
    ASSUME NEW w, NEW d, Good(w, d), NEW r \in Resolutions
    PROVE  /\ Good([w EXCEPT !.resolution = r], d)
           /\ [w EXCEPT !.resolution = r].at = w.at
<1> DEFINE v == [w EXCEPT !.resolution = r]
<1>1. /\ v \in Memory /\ v.at = w.at /\ v.table = w.table /\ v.seq = w.seq /\ Same(v, w)
  BY DEF Good, Memory, Same
<1> HIDE DEF v
<1>2. Good(v, d)
  BY <1>1 DEF Good, Same, Placed, Ladder, Evidence, Closing, Known, Untrusted, Ended
<1>3. QED
  BY <1>1, <1>2 DEF v

\* A wrong party was never let in.
LEMMA NobodyGood ==
    ASSUME NEW w, NEW d, Good(w, d), w.stage = "party", NEW final \in FinalStates
    PROVE  Good(Ending(Nobody(w), final, {}), d)
<1> DEFINE e == Ending(Nobody(w), final, {})
<1>1. e \in Memory
  BY DEF Good, Ending, Nobody, Memory, Activities, NoSignal, Parties
<1>2. /\ e.at = "finalize" /\ e.stage = w.stage /\ e.seq = w.seq
      /\ e.level = w.level /\ e.delivered = w.delivered
  BY DEF Good, Ending, Nobody, Memory
<1> HIDE DEF e
<1>3. QED
  BY <1>1, <1>2 DEF e, Good, Placed, Ladder, Evidence, Closing, Known, Untrusted, Ended

\* An answer goes on with its memory; a reply may be lost instead.
LEMMA AnsweredOK ==
    ASSUME NEW w, Queued, Answered(w)
    PROVE  wf' = w /\ Queued'
BY DEF Answered, Queued

LEMMA ReplyOK ==
    ASSUME NEW w, Queued, Reply(w)
    PROVE  (wf' = w \/ wf' = wf) /\ Queued'
BY DEF Reply, Queued

---------------------------------------------------------------------------
(* The environment.                                                        *)

LEMMA SignalOK ==
    ASSUME IInv, Speak \/ call_dropped \/ dtmf_fallback
    PROVE  IInv'
<1>1. UNCHANGED <<wf, db, lost>>
  BY DEF Speak, call_dropped, dtmf_fallback
<1>2. CASE Speak
  <2>1. PICK s \in Signals : inbox' = [inbox EXCEPT !.queue = Append(@, s)]
    BY <1>2 DEF Speak
  <2>2. inbox.queue \in Seq(Signal) /\ s \in Signal /\ Len(inbox.queue) \in Nat
    BY <2>1, LenProperties DEF IInv, Queued, Inbox
  <2>3. /\ Append(inbox.queue, s) \in Seq(Signal)
        /\ Len(Append(inbox.queue, s)) = Len(inbox.queue) + 1
    BY <2>2, AppendProperties
  <2>4. inbox'.queue = Append(inbox.queue, s)
    BY <2>1 DEF IInv, Queued, Inbox
  <2>5. Len(inbox.queue) < MaxQueue
    BY <1>2 DEF Speak
  <2>6. inbox' \in Inbox
    BY <2>1, <2>3 DEF IInv, Queued, Inbox
  <2>7. Len(inbox'.queue) <= MaxQueue
    <3>1. Len(inbox'.queue) = Len(inbox.queue) + 1
      BY <2>3, <2>4
    <3>2. QED
      BY <2>2, <2>5, <3>1
  <2>8. Queued'
    BY <1>1, <2>6, <2>7 DEF IInv, Queued
  <2>9. QED
    BY <1>1, <2>8 DEF IInv
<1>3. CASE call_dropped \/ dtmf_fallback
  <2>1. Queued'
    BY <1>1, <1>3 DEF call_dropped, dtmf_fallback, IInv, Queued, Inbox
  <2>2. QED
    BY <1>1, <2>1 DEF IInv
<1>4. QED
  BY <1>2, <1>3

LEMMA TimeoutOK == ASSUME IInv, ExecutionTimeout PROVE IInv'
<1>1. wf' = [wf EXCEPT !.at = "terminated"] /\ UNCHANGED <<inbox, db, lost>>
  BY DEF ExecutionTimeout
<1>2. /\ wf' \in Memory /\ wf'.at = "terminated" /\ wf'.stage = wf.stage
      /\ wf'.rightParty = wf.rightParty /\ wf'.level = wf.level
      /\ wf'.delivered = wf.delivered /\ wf'.seq = wf.seq
  BY <1>1 DEF IInv, Good, Memory, Ended
<1>3. Good(wf, db)'
  BY <1>1, <1>2 DEF IInv, Good, Placed, Ladder, Evidence, Closing, Known, Untrusted, Ended
<1>4. QED
  BY <1>1, <1>3 DEF IInv, Queued

---------------------------------------------------------------------------
(* Contact.                                                                *)

LEMMA ContactOK == ASSUME IInv, Contact PROVE IInv'
<1> USE DEF IInv
<1>1. CASE create_call_attempt
  <2> DEFINE w == [wf EXCEPT !.at = "classify"]
  <2>1. /\ db' = [db EXCEPT !.attempt = NewAttempt] /\ Reply(w) /\ wf.at = "attempt"
    BY <1>1 DEF create_call_attempt
  <2>2. NewAttempt \in Attempt
    BY DEF NewAttempt, Attempt, Parties, Levels, Disclosures, Resolutions
  <2>3. Good(wf, db')
    BY <2>1, <2>2, RowsGood DEF Good, Rows
  <2>4. Good(w, db')
    <3>1. /\ w \in Memory /\ w.at = "classify" /\ w.stage = wf.stage
          /\ w.rightParty = wf.rightParty /\ w.level = wf.level
          /\ w.delivered = wf.delivered /\ w.seq = wf.seq
      BY DEF Good, Memory, Activities
    <3> HIDE DEF w
    <3>2. QED
      BY <2>1, <2>3, <3>1 DEF Good, Placed, Ladder, Evidence, Closing, Known, Untrusted, Ended
  <2> HIDE DEF w
  <2>5. QED
    BY <2>1, <2>3, <2>4, ReplyOK
<1>2. CASE classify_answer
  <2>1. CASE Answered([wf EXCEPT !.at = "session"])
    <3> DEFINE w == [wf EXCEPT !.at = "session"]
    <3>1. /\ w \in Memory /\ w.at = "session" /\ w.stage = wf.stage
          /\ w.rightParty = wf.rightParty /\ w.level = wf.level
          /\ w.delivered = wf.delivered /\ w.seq = wf.seq
      BY DEF Good, Memory, Activities
    <3>2. wf' = w /\ Queued' /\ UNCHANGED db /\ wf.at = "classify"
      BY <1>2, <2>1 DEF classify_answer, Answered, Queued
    <3> HIDE DEF w
    <3>3. Good(w, db)
      BY <3>1, <3>2 DEF Good, Placed, Ladder, Evidence, Closing, Known, Untrusted, Ended
    <3>4. QED
      BY <3>2, <3>3
  <2>2. ASSUME NEW a \in {"NO_ANSWER", "VOICEMAIL", "FAILED"},
               Answered(Ending([wf EXCEPT !.resolution = "CONTACT_NOT_ESTABLISHED"], a, {}))
        PROVE  IInv'
    <3> DEFINE w == [wf EXCEPT !.resolution = "CONTACT_NOT_ESTABLISHED"]
    <3>1. /\ w \in Memory /\ w.at = wf.at /\ w.stage = wf.stage /\ w.table = wf.table
          /\ w.rightParty = wf.rightParty /\ w.level = wf.level
          /\ w.delivered = wf.delivered /\ w.seq = wf.seq
      BY DEF Good, Memory, Resolutions
    <3>2. wf' = Ending(w, a, {}) /\ Queued' /\ UNCHANGED db
      BY <1>2, <2>2 DEF classify_answer, Answered, Queued
    <3> HIDE DEF w
    <3>3. Good(w, db)
      BY <3>1 DEF Good, Placed, Ladder, Evidence, Untrusted
    <3>4. a \in FinalStates /\ {} \in SUBSET Flags
      BY DEF FinalStates
    <3>5. Good(Ending(w, a, {}), db)
      BY <3>3, <3>4, EndingGood
    <3>6. QED
      BY <3>2, <3>5
  <2>3. QED
    BY <1>2, <2>1, <2>2 DEF classify_answer
<1>3. CASE create_call_session
  <2> DEFINE w == Waiting(wf, "party")
  <2>1. db' = [db EXCEPT !.session = NewSession] /\ Reply(w) /\ wf.at = "session"
    BY <1>3 DEF create_call_session
  <2>2. NewSession \in Session
    BY DEF NewSession, Session, Levels
  <2>3. db' \in Rows
    BY <2>1, <2>2 DEF Good, Rows
  <2>4. wf.stage = "start" /\ wf.level = "L0" /\ wf.rightParty = "unknown"
    BY <2>1 DEF Good, Placed, Ladder, Untrusted
  <2>5. Good(wf, db')
    BY <2>1, <2>3, <2>4 DEF Good, Evidence, Known
  <2>6. Good(w, db')
    <3>1. /\ w \in Memory /\ w.at = "wait" /\ w.stage = "party"
          /\ w.rightParty = wf.rightParty /\ w.level = wf.level
          /\ w.delivered = wf.delivered /\ w.seq = wf.seq
      BY DEF Good, Memory, Activities, Waiting, Stages, NoSignal
    <3> HIDE DEF w
    <3>2. QED
      BY <2>1, <2>3, <2>4, <2>5, <3>1
         DEF Good, Placed, Ladder, Evidence, Closing, Known, Untrusted, Ended
  <2> HIDE DEF w
  <2>7. QED
    BY <2>1, <2>5, <2>6, ReplyOK
<1>4. QED
  BY <1>1, <1>2, <1>3 DEF Contact

---------------------------------------------------------------------------
(* Waiting.                                                                *)

\* The words the flags are written with.
LEMMA FlagWords ==
    /\ Delivered \in SUBSET Flags
    /\ {} \in SUBSET Flags
    /\ {"dtmf_fallback", "human_transferred", "callback_requested", "call_dropped",
        "question_resolved", "action_created", "complaint_created",
        "backend_unavailable", "otp_locked"} \subseteq Flags
    /\ {"CLOSE", "AUTH_FAILED", "CUSTOMER_UNAVAILABLE", "WRONG_PARTY"} \subseteq FinalStates
BY DEF Delivered, Flags, FinalStates

LEMMA WaitOK == ASSUME IInv, Wait PROVE IInv'
<1> USE DEF IInv
<1>1. CASE Dequeue
  <2>1. /\ wf.at = "wait" /\ inbox.queue # <<>> /\ UNCHANGED <<db, lost>>
        /\ wf' = [wf EXCEPT !.at = "note", !.heard = Head(inbox.queue)]
        /\ inbox' = [inbox EXCEPT !.queue = Tail(@)]
    BY <1>1 DEF Dequeue
  <2>2. inbox.queue \in Seq(Signal) /\ Len(inbox.queue) <= MaxQueue
    BY DEF Queued, Inbox
  <2>3. /\ Head(inbox.queue) \in Signal
        /\ Tail(inbox.queue) \in Seq(Signal)
        /\ Len(Tail(inbox.queue)) = Len(inbox.queue) - 1
        /\ Len(inbox.queue) \in Nat
    BY <2>1, <2>2, HeadTailProperties, LenProperties
  <2>4. inbox'.queue = Tail(inbox.queue) /\ inbox' \in Inbox
    BY <2>1, <2>3 DEF Queued, Inbox
  <2>5. Len(inbox'.queue) <= MaxQueue
    BY <2>2, <2>3, <2>4
  <2>6. Queued'
    BY <2>1, <2>4, <2>5 DEF Queued
  <2>7. wf' \in Memory /\ wf'.at = "note" /\ Same(wf', wf) /\ wf'.seq = wf.seq
    BY <2>1, <2>3 DEF Good, Memory, Activities, Same
  <2>8. Good(wf', db)
    BY <2>1, <2>7, HeardGood
  <2>9. QED
    BY <2>1, <2>6, <2>8
<1>2. CASE Keypad
  <2> DEFINE w == [wf EXCEPT !.at = "dtmf_audit"]
  <2>1. wf.at = "wait" /\ Answered(w) /\ UNCHANGED db
    BY <1>2 DEF Keypad, NothingQueued
  <2>2. w \in Memory /\ w.at = "dtmf_audit" /\ Same(w, wf) /\ w.seq = wf.seq
    BY DEF Good, Memory, Activities, Same
  <2> HIDE DEF w
  <2>3. Good(w, db)
    BY <2>1, <2>2, HeardGood
  <2>4. QED
    BY <2>1, <2>3, AnsweredOK
<1>3. CASE Dropped
  <2>1. Answered(Ending(wf, "CLOSE", {"call_dropped"} \union Delivered)) /\ UNCHANGED db
    BY <1>3 DEF Dropped
  <2>2. Good(Ending(wf, "CLOSE", {"call_dropped"} \union Delivered), db)
    BY EndingGood, FlagWords
  <2>3. QED
    BY <2>1, <2>2, AnsweredOK
<1>4. CASE Silence
  <2>1. wf.at = "wait" /\ UNCHANGED db /\ wf.stage \in Stages
    BY <1>4 DEF Silence, SilenceIn, NothingQueued
  <2>2. CASE wf.stage = "party"
    <3>1. Answered(Ending(Nobody(wf), "CUSTOMER_UNAVAILABLE", {}))
      BY <1>4, <2>2 DEF Silence, SilenceIn
    <3>2. Good(Ending(Nobody(wf), "CUSTOMER_UNAVAILABLE", {}), db)
      BY <2>2, NobodyGood, FlagWords
    <3>3. QED
      BY <2>1, <3>1, <3>2, AnsweredOK
  <2>3. CASE wf.stage \in {"auth", "otp"}
    <3>1. Answered(Ending(wf, "AUTH_FAILED", {}))
      BY <1>4, <2>3 DEF Silence, SilenceIn
    <3>2. Good(Ending(wf, "AUTH_FAILED", {}), db)
      BY EndingGood, FlagWords
    <3>3. QED
      BY <2>1, <3>1, <3>2, AnsweredOK
  <2>4. CASE wf.stage = "follow"
    <3> DEFINE w == [wf EXCEPT !.resolution = "FULLY_RESOLVED_BY_AI"]
    <3>1. Answered(Ending(w, "CLOSE", Delivered))
      BY <1>4, <2>4 DEF Silence, SilenceIn
    <3>2. Good(w, db)
      BY ResolvedGood DEF Resolutions
    <3> HIDE DEF w
    <3>3. Good(Ending(w, "CLOSE", Delivered), db)
      BY <3>2, EndingGood, FlagWords
    <3>4. QED
      BY <2>1, <3>1, <3>3, AnsweredOK
  <2>5. wf.stage # "start"
    BY <2>1 DEF Good, Placed
  <2>6. QED
    BY <2>1, <2>2, <2>3, <2>4, <2>5 DEF Stages
<1>5. QED
  BY <1>1, <1>2, <1>3, <1>4 DEF Wait

---------------------------------------------------------------------------
(* Conversing.                                                             *)

LEMMA AnswerKeeps ==
    ASSUME Queued, NEW w, Answered(w), Good(w, db')
    PROVE  IInv'
BY AnsweredOK DEF IInv

LEMMA ReplyKeeps ==
    ASSUME Queued, NEW w, Reply(w), Good(w, db'), Good(wf, db')
    PROVE  IInv'
BY ReplyOK DEF IInv

LEMMA HearOK ==
    ASSUME IInv, NEW stage, NEW intents \in SUBSET Intents, Hear(stage, intents)
    PROVE  wf.at = "note" /\ wf.stage = stage /\ Good(wf, db') /\ Queued
<1>1. /\ wf.at = "note" /\ wf.stage = stage /\ wf.heard.intent \in Intents
      /\ db' = [db EXCEPT !.intents = @ \union {wf.heard.intent}]
  BY DEF Hear
<1>2. db' \in Rows /\ db'.session = db.session /\ db'.match = db.match /\ db'.otp = db.otp
  BY <1>1 DEF IInv, Good, Rows
<1>3. QED
  BY <1>1, <1>2, RowsGood DEF IInv

\* What may be heard, and where it may be written.
LEMMA Words ==
    /\ {"WRONG_PARTY", "CUSTOMER_UNAVAILABLE", "CUSTOMER_DRIVING", "REQUEST_HUMAN",
        "RIGHT_PARTY_CONFIRMED", "REQUEST_OTP", "AUTH_ANSWER", "OTP_ANSWER",
        "ASK_QUESTION", "AI_SEND_SECURE_LINK", "COMPLAINT_REQUEST",
        "AI_SCHEDULE_CALLBACK"} \subseteq Intents
    /\ ActionIntents \subseteq Intents
    /\ {"action", "link", "callback", "escalation", "complaint"} \subseteq Tables
    /\ {"FULLY_RESOLVED_BY_AI", "ACTION_CREATED", "COMPLAINT_REGISTERED",
        "CALLBACK_SCHEDULED", "HUMAN_TRANSFER", "BACKEND_SYSTEM_FAILURE"} \subseteq Resolutions
BY DEF Intents, ActionIntents, Tables, Resolutions

\* The moves a heard signal may lead to.
LEMMA WriteHeard ==
    ASSUME Queued, Good(wf, db'), wf.at \in {"note", "dtmf_audit"},
           NEW table \in Tables, NEW resolution \in Resolutions, NEW flags \in SUBSET Flags,
           Answered(Writing(wf, table, resolution, flags))
    PROVE  IInv'
BY WritingGood, AnswerKeeps

LEMMA EscalateHeard ==
    ASSUME Queued, Good(wf, db'), wf.at \in {"note", "dtmf_audit"},
           NEW flags \in SUBSET Flags, Answered(Escalating(wf, flags))
    PROVE  IInv'
<1>1. flags \union {"human_transferred"} \in SUBSET Flags
  BY FlagWords
<1>2. QED
  BY <1>1, WriteHeard, Words DEF Escalating

LEMMA WaitHeard ==
    ASSUME Queued, Good(wf, db'), wf.at = "note", NEW stage, wf.stage = stage,
           Answered(Waiting(wf, stage))
    PROVE  IInv'
BY WaitingGood, AnswerKeeps

LEMMA CheckHeard ==
    ASSUME Queued, Good(wf, db'), wf.at = "note", NEW w, w \in Memory, Same(w, wf),
           w.seq = wf.seq, Answered(w),
           \/ wf.stage = "auth" /\ w.at \in {"verify_level1", "send_otp"}
           \/ wf.stage = "otp" /\ w.at = "verify_otp"
    PROVE  IInv'
BY CheckGood, AnswerKeeps

LEMMA ResolveHeard ==
    ASSUME Queued, Good(wf, db'), NEW flags \in SUBSET Flags,
           Answered(Ending([wf EXCEPT !.resolution = "FULLY_RESOLVED_BY_AI"], "CLOSE", flags))
    PROVE  IInv'
<1> DEFINE w == [wf EXCEPT !.resolution = "FULLY_RESOLVED_BY_AI"]
<1>1. Good(w, db')
  BY ResolvedGood, Words
<1>2. Answered(Ending(w, "CLOSE", flags))
  OBVIOUS
<1> HIDE DEF w
<1>3. Good(Ending(w, "CLOSE", flags), db')
  BY <1>1, EndingGood, FlagWords
<1>4. QED
  BY <1>2, <1>3, AnswerKeeps

LEMMA KeypadOK == ASSUME IInv, HandleKeypad PROVE IInv'
<1>1. /\ wf.at = "dtmf_audit"
      /\ db' = [db EXCEPT !.audits = @ \union {"DTMF_FALLBACK_ACTIVATED"}]
  BY DEF HandleKeypad
<1>2. db' \in Rows /\ db'.session = db.session /\ db'.match = db.match /\ db'.otp = db.otp
  BY <1>1 DEF IInv, Good, Rows
<1>3. Good(wf, db') /\ Queued
  BY <1>2, RowsGood DEF IInv
<1>4. {"dtmf_fallback"} \in SUBSET Flags
      /\ {"dtmf_fallback", "callback_requested"} \in SUBSET Flags
  BY FlagWords
<1>5. \/ Answered(Escalating(wf, {"dtmf_fallback"}))
      \/ Answered(Writing(wf, "callback", "CALLBACK_SCHEDULED",
                          {"dtmf_fallback", "callback_requested"}))
  BY DEF HandleKeypad
<1>6. QED
  BY <1>1, <1>3, <1>4, <1>5, EscalateHeard, WriteHeard, Words

LEMMA HearPartyOK == ASSUME IInv, HearParty PROVE IInv'
<1>1. CASE /\ Hear("party", {"WRONG_PARTY", "CUSTOMER_UNAVAILABLE"})
           /\ Answered(Ending(Nobody(wf), wf.heard.intent, {}))
  <2>1. wf.stage = "party" /\ Good(wf, db') /\ Queued
    BY <1>1, HearOK, Words
  <2>2. wf.heard.intent \in FinalStates
    BY <1>1, FlagWords DEF Hear
  <2>3. Good(Ending(Nobody(wf), wf.heard.intent, {}), db')
    BY <2>1, <2>2, NobodyGood
  <2>4. QED
    BY <1>1, <2>1, <2>3, AnswerKeeps
<1>2. CASE /\ Hear("party", {"CUSTOMER_DRIVING"})
           /\ Answered(Writing(wf, "callback", "CALLBACK_SCHEDULED", {"callback_requested"}))
  <2>1. wf.at = "note" /\ Good(wf, db') /\ Queued
    BY <1>2, HearOK, Words
  <2>2. {"callback_requested"} \in SUBSET Flags
    BY FlagWords
  <2>3. QED
    BY <1>2, <2>1, <2>2, WriteHeard, Words
<1>3. CASE Hear("party", {"REQUEST_HUMAN"}) /\ Answered(Escalating(wf, {}))
  <2>1. wf.at = "note" /\ Good(wf, db') /\ Queued
    BY <1>3, HearOK, Words
  <2>2. QED
    BY <1>3, <2>1, EscalateHeard, FlagWords
<1>4. CASE /\ Hear("party", {"RIGHT_PARTY_CONFIRMED"})
           /\ Answered([wf EXCEPT !.rightParty = "right", !.at = "confirm"])
  <2> DEFINE w == [wf EXCEPT !.rightParty = "right", !.at = "confirm"]
  <2>1. wf.at = "note" /\ wf.stage = "party" /\ Good(wf, db') /\ Queued /\ Answered(w)
    BY <1>4, HearOK, Words
  <2>2. /\ w \in Memory /\ w.at = "confirm" /\ w.rightParty = "right" /\ w.seq = wf.seq
        /\ w.stage = wf.stage /\ w.level = wf.level /\ w.delivered = wf.delivered
    BY <2>1 DEF Good, Memory, Activities, Parties
  <2> HIDE DEF w
  <2>3. Good(w, db')
    BY <2>1, <2>2 DEF Good, Placed, Ladder, Evidence, Closing, Known, Untrusted, Ended
  <2>4. QED
    BY <2>1, <2>3, AnswerKeeps
<1>5. ASSUME NEW intents \in SUBSET Intents, Hear("party", intents),
             Answered(Waiting(wf, "party"))
      PROVE  IInv'
  BY <1>5, HearOK, WaitHeard
<1>6. QED
  BY <1>1, <1>2, <1>3, <1>4, <1>5 DEF HearParty

LEMMA HearAuthOK == ASSUME IInv, HearAuth PROVE IInv'
<1>1. CASE Hear("auth", {"REQUEST_HUMAN"}) /\ Answered(Escalating(wf, {}))
  <2>1. wf.at = "note" /\ Good(wf, db') /\ Queued
    BY <1>1, HearOK, Words
  <2>2. QED
    BY <1>1, <2>1, EscalateHeard, FlagWords
<1>2. ASSUME NEW at \in {"send_otp", "verify_level1"}, NEW intents \in SUBSET Intents,
             Hear("auth", intents), Answered([wf EXCEPT !.at = at])
      PROVE  IInv'
  <2> DEFINE w == [wf EXCEPT !.at = at]
  <2>1. wf.at = "note" /\ wf.stage = "auth" /\ Good(wf, db') /\ Queued /\ Answered(w)
    BY <1>2, HearOK
  <2>2. w \in Memory /\ w.at = at /\ Same(w, wf) /\ w.seq = wf.seq
    BY <2>1 DEF Good, Memory, Activities, Same
  <2> HIDE DEF w
  <2>3. QED
    BY <2>1, <2>2, CheckHeard
<1>3. ASSUME NEW intents \in SUBSET Intents, Hear("auth", intents),
             Answered(Waiting(wf, "auth"))
      PROVE  IInv'
  BY <1>3, HearOK, WaitHeard
<1>4. QED
  BY <1>1, <1>2, <1>3, Words DEF HearAuth

LEMMA HearOtpOK == ASSUME IInv, HearOtp PROVE IInv'
<1>1. CASE Hear("otp", {"REQUEST_HUMAN"}) /\ Answered(Escalating(wf, {}))
  <2>1. wf.at = "note" /\ Good(wf, db') /\ Queued
    BY <1>1, HearOK, Words
  <2>2. QED
    BY <1>1, <2>1, EscalateHeard, FlagWords
<1>2. ASSUME Hear("otp", {"OTP_ANSWER"}), NEW l \in OtpLateness,
             Answered([wf EXCEPT !.at = "verify_otp", !.late = l])
      PROVE  IInv'
  <2> DEFINE w == [wf EXCEPT !.at = "verify_otp", !.late = l]
  <2>1. wf.at = "note" /\ wf.stage = "otp" /\ Good(wf, db') /\ Queued /\ Answered(w)
    BY <1>2, HearOK, Words
  <2>2. l \in BOOLEAN
    OBVIOUS
  <2>3. w \in Memory /\ w.at = "verify_otp" /\ Same(w, wf) /\ w.seq = wf.seq
    BY <2>1, <2>2 DEF Good, Memory, Activities, Same
  <2> HIDE DEF w
  <2>4. QED
    BY <2>1, <2>3, CheckHeard
<1>3. ASSUME NEW intents \in SUBSET Intents, Hear("otp", intents),
             Answered(Waiting(wf, "otp"))
      PROVE  IInv'
  BY <1>3, HearOK, WaitHeard
<1>4. QED
  BY <1>1, <1>2, <1>3 DEF HearOtp

LEMMA HearFollowUpOK == ASSUME IInv, HearFollowUp PROVE IInv'
<1>1. ASSUME NEW intents \in SUBSET Intents, Hear("follow", intents), NEW table \in Tables,
             NEW resolution \in Resolutions, NEW flags \in SUBSET Flags,
             Answered(Writing(wf, table, resolution, flags))
      PROVE  IInv'
  BY <1>1, HearOK, WriteHeard
<1>2. ASSUME NEW intents \in SUBSET Intents, Hear("follow", intents),
             NEW flags \in SUBSET Flags,
             Answered(Ending([wf EXCEPT !.resolution = "FULLY_RESOLVED_BY_AI"], "CLOSE", flags))
      PROVE  IInv'
  BY <1>2, HearOK, ResolveHeard
<1>3. CASE Hear("follow", {"REQUEST_HUMAN"}) /\ Answered(Escalating(wf, {}))
  <2>1. wf.at = "note" /\ Good(wf, db') /\ Queued
    BY <1>3, HearOK, Words
  <2>2. QED
    BY <1>3, <2>1, EscalateHeard, FlagWords
<1>4. /\ Delivered \union {"question_resolved"} \in SUBSET Flags
      /\ Delivered \union {"action_created"} \in SUBSET Flags
      /\ Delivered \union {"complaint_created"} \in SUBSET Flags
      /\ Delivered \union {"callback_requested"} \in SUBSET Flags
      /\ Delivered \in SUBSET Flags
  BY FlagWords
<1>5. /\ {"ASK_QUESTION"} \in SUBSET Intents /\ ActionIntents \in SUBSET Intents
      /\ {"AI_SEND_SECURE_LINK"} \in SUBSET Intents
      /\ {"COMPLAINT_REQUEST"} \in SUBSET Intents
      /\ {"AI_SCHEDULE_CALLBACK"} \in SUBSET Intents
  BY Words
<1>6. QED
  BY <1>1, <1>2, <1>3, <1>4, <1>5, Words DEF HearFollowUp

LEMMA ConverseOK == ASSUME IInv, Converse PROVE IInv'
BY KeypadOK, HearPartyOK, HearAuthOK, HearOtpOK, HearFollowUpOK DEF Converse

---------------------------------------------------------------------------
(* Verifying.                                                              *)

\* A stranger's belief rests on the confirmed party alone.
LEMMA StrangerRows ==
    ASSUME NEW w, NEW d, NEW e, Good(w, d), w.level = "L0", e \in Rows,
           d.session.rightParty => e.session.rightParty
    PROVE  Good(w, e)
BY DEF Good, Evidence

LEMMA ConfirmPartyOK == ASSUME IInv, ConfirmParty PROVE IInv'
<1> USE DEF IInv
<1> DEFINE w == [wf EXCEPT !.at = "factor"]
<1>1. wf.at = "confirm" /\ db' = [db EXCEPT !.session.rightParty = TRUE] /\ Reply(w)
  BY DEF ConfirmParty
<1>2. db.session \in Session /\ db' \in Rows /\ db'.session.rightParty
      /\ db'.match = db.match /\ db'.otp = db.otp
  BY <1>1 DEF Good, Rows, Session
<1>3. Good(wf, db')
  BY <1>2, RowsGood
<1>4. w \in Memory /\ w.at = "factor" /\ Same(w, wf) /\ w.seq = wf.seq
  BY DEF Good, Memory, Activities, Same
<1> HIDE DEF w
<1>5. Good(w, db')
  BY <1>1, <1>2, <1>3, <1>4
     DEF Good, Same, Placed, Ladder, Evidence, Closing, Known, Untrusted, Ended
<1>6. QED
  BY <1>1, <1>3, <1>5, ReplyKeeps

LEMMA FactorOK == ASSUME IInv, get_configured_auth_factor_type PROVE IInv'
<1> USE DEF IInv
<1>1. PICK f \in FactorOnFile : Answered(Waiting([wf EXCEPT !.factor = f], "auth"))
  BY DEF get_configured_auth_factor_type
<1> DEFINE w == Waiting([wf EXCEPT !.factor = f], "auth")
<1>2. wf.at = "factor" /\ UNCHANGED db /\ f \in BOOLEAN /\ Answered(w)
  BY <1>1 DEF get_configured_auth_factor_type
<1>3. /\ w \in Memory /\ w.at = "wait" /\ w.stage = "auth" /\ w.seq = wf.seq
      /\ w.rightParty = wf.rightParty /\ w.level = wf.level /\ w.delivered = wf.delivered
  BY <1>2 DEF Good, Memory, Activities, Stages, Waiting, NoSignal
<1> HIDE DEF w
<1>4. Good(w, db)
  BY <1>2, <1>3 DEF Good, Placed, Ladder, Evidence, Closing, Known, Untrusted, Ended
<1>5. QED
  BY <1>2, <1>4, AnswerKeeps

\* Getting in: the memory gains the level the rows now show.
LEMMA LetInGood ==
    ASSUME NEW w, NEW d, Good(w, d), w.at \in {"verify_level1", "verify_otp"},
           NEW level \in {"L1", "L2"},
           level = "L1" => d.match > 0, level = "L2" => d.otp = "VERIFIED"
    PROVE  Good([w EXCEPT !.level = level, !.at = "save_level"], d)
<1> DEFINE v == [w EXCEPT !.level = level, !.at = "save_level"]
<1>1. /\ v \in Memory /\ v.at = "save_level" /\ v.level = level /\ v.stage = w.stage
      /\ v.rightParty = w.rightParty /\ v.delivered = w.delivered /\ v.seq = w.seq
  BY DEF Good, Memory, Activities, Levels
<1> HIDE DEF v
<1>2. Good(v, d)
  BY <1>1 DEF Good, Placed, Ladder, Evidence, Closing, Known, Untrusted, Ended
<1>3. QED
  BY <1>2 DEF v

LEMMA FactorComparedOK == ASSUME IInv, verify_level1 PROVE IInv'
<1> USE DEF IInv
<1>1. /\ wf.at = "verify_level1" /\ wf.stage = "auth" /\ wf.level = "L0"
      /\ db.match \in Nat /\ db.miss \in Nat
  BY DEF verify_level1, CompareFactor, Good, Placed, Ladder, Untrusted, Rows
<1>2. CASE wf.heard.right
  <2>1. /\ db' = [db EXCEPT !.match = @ + 1]
        /\ Reply([wf EXCEPT !.level = "L1", !.at = "save_level"])
    BY <1>2 DEF verify_level1, CompareFactor
  <2>2. db' \in Rows /\ db'.session = db.session /\ db'.match > 0
    BY <1>1, <2>1 DEF Good, Rows
  <2>3. Good(wf, db')
    BY <1>1, <2>2, StrangerRows
  <2>4. Good([wf EXCEPT !.level = "L1", !.at = "save_level"], db')
    BY <1>1, <2>2, <2>3, LetInGood
  <2>5. QED
    BY <2>1, <2>3, <2>4, ReplyKeeps
<1>3. CASE ~wf.heard.right
  <2>0. db' = [db EXCEPT !.miss = @ + 1]
    BY <1>3 DEF verify_level1, CompareFactor
  <2>1. Reply(Ending(wf, "AUTH_FAILED", {})) \/ Reply(Waiting(wf, "auth"))
    BY <1>3 DEF verify_level1, CompareFactor
  <2>2. db' \in Rows /\ db'.session = db.session
    <3>1. db \in Rows /\ db.miss + 1 \in Nat
      BY <1>1 DEF Good
    <3>2. QED
      BY <2>0, <3>1 DEF Rows
  <2>3. Good(wf, db')
    BY <1>1, <2>2, StrangerRows
  <2>4. Good(Ending(wf, "AUTH_FAILED", {}), db')
    BY <2>3, EndingGood, FlagWords
  <2>5. Good(Waiting(wf, "auth"), db')
    BY <1>1, <2>3, WaitingGood
  <2>6. QED
    BY <2>1, <2>3, <2>4, <2>5, ReplyKeeps
<1>4. QED
  BY <1>2, <1>3

LEMMA SendOtpOK == ASSUME IInv, send_otp PROVE IInv'
<1> USE DEF IInv
<1> DEFINE w == Waiting(wf, "otp")
<1>1. /\ wf.at = "send_otp" /\ wf.stage = "auth" /\ wf.level = "L0"
      /\ db' = [db EXCEPT !.otp = "SENT", !.wrong = 0] /\ Reply(w)
  BY DEF send_otp, Good, Placed, Ladder, Untrusted
<1>2. db' \in Rows /\ db'.session = db.session
  BY <1>1 DEF Good, Rows
<1>3. Good(wf, db')
  BY <1>1, <1>2, StrangerRows
<1>4. /\ w \in Memory /\ w.at = "wait" /\ w.stage = "otp" /\ w.seq = wf.seq
      /\ w.rightParty = wf.rightParty /\ w.level = wf.level /\ w.delivered = wf.delivered
  BY DEF Good, Memory, Activities, Stages, Waiting, NoSignal
<1> HIDE DEF w
<1>5. Good(w, db')
  BY <1>1, <1>3, <1>4 DEF Good, Placed, Ladder, Evidence, Closing, Known, Untrusted, Ended
<1>6. QED
  BY <1>1, <1>3, <1>5, ReplyKeeps

LEMMA OtpComparedOK == ASSUME IInv, verify_otp PROVE IInv'
<1> USE DEF IInv
<1>1. /\ wf.at = "verify_otp" /\ wf.stage = "otp" /\ wf.level = "L0" /\ db.wrong \in Nat
  BY DEF verify_otp, Good, Placed, Ladder, Untrusted, Rows
<1>2. CASE wf.heard.right
  <2>1. /\ db' = [db EXCEPT !.otp = "VERIFIED"]
        /\ Reply([wf EXCEPT !.level = "L2", !.at = "save_level"])
    BY <1>2 DEF verify_otp
  <2>2. db' \in Rows /\ db'.session = db.session /\ db'.otp = "VERIFIED"
    BY <2>1 DEF Good, Rows
  <2>3. Good(wf, db')
    BY <1>1, <2>2, StrangerRows
  <2>4. Good([wf EXCEPT !.level = "L2", !.at = "save_level"], db')
    BY <1>1, <2>2, <2>3, LetInGood
  <2>5. QED
    BY <2>1, <2>3, <2>4, ReplyKeeps
<1>3. CASE ~wf.heard.right
  <2> DEFINE otp == IF db.wrong + 1 >= MaxOtpAttempts THEN "LOCKED" ELSE db.otp
  <2>1. /\ db' = [db EXCEPT !.wrong = @ + 1, !.otp = otp]
        /\ Reply(Ending(wf, "CLOSE", {"otp_locked"})) \/ Reply(Waiting(wf, "otp"))
    BY <1>3 DEF verify_otp
  <2>2. db' \in Rows /\ db'.session = db.session
    <3>1. otp \in {"ABSENT", "SENT", "VERIFIED", "LOCKED"} /\ db.wrong + 1 \in Nat
      BY <1>1 DEF Good, Rows
    <3> HIDE DEF otp
    <3>2. QED
      BY <2>1, <3>1 DEF Good, Rows
  <2>3. Good(wf, db')
    BY <1>1, <2>2, StrangerRows
  <2>4. Good(Ending(wf, "CLOSE", {"otp_locked"}), db')
    BY <2>3, EndingGood, FlagWords
  <2>5. Good(Waiting(wf, "otp"), db')
    BY <1>1, <2>3, WaitingGood
  <2>6. QED
    BY <2>1, <2>3, <2>4, <2>5, ReplyKeeps
<1>4. QED
  BY <1>2, <1>3

LEMMA SaveLevelOK == ASSUME IInv, SaveLevel PROVE IInv'
<1> USE DEF IInv
<1> DEFINE w == [wf EXCEPT !.at = "deliver", !.heard = NoSignal]
<1>1. wf.at = "save_level" /\ db' = [db EXCEPT !.session.level = wf.level] /\ Reply(w)
  BY DEF SaveLevel
<1>2. /\ db' \in Rows /\ db'.session.rightParty = db.session.rightParty
      /\ db'.match = db.match /\ db'.otp = db.otp
  <2>1. wf.level \in Levels /\ db.session \in Session
    BY DEF Good, Memory, Rows
  <2>2. [db.session EXCEPT !.level = wf.level] \in Session
    BY <2>1 DEF Session
  <2>3. [db.session EXCEPT !.level = wf.level].rightParty = db.session.rightParty
    BY <2>1 DEF Session
  <2>4. QED
    BY <1>1, <2>2, <2>3 DEF Good, Rows
<1>3. Good(wf, db')
  BY <1>2, RowsGood
<1>4. w \in Memory /\ w.at = "deliver" /\ Same(w, wf) /\ w.seq = wf.seq
  BY DEF Good, Memory, Activities, Same, NoSignal
<1> HIDE DEF w
<1>5. Good(w, db')
  BY <1>1, <1>3, <1>4
     DEF Good, Same, Placed, Ladder, Evidence, Closing, Known, Untrusted, Ended
<1>6. QED
  BY <1>1, <1>3, <1>5, ReplyKeeps

LEMMA VerifyOK == ASSUME IInv, Verify PROVE IInv'
BY ConfirmPartyOK, FactorOK, FactorComparedOK, SendOtpOK, OtpComparedOK, SaveLevelOK
   DEF Verify

---------------------------------------------------------------------------
(* Concluding.                                                             *)

\* Some rule always matches, so a first one does.
LEMMA FirstRule ==
    ASSUME NEW final, NEW authenticated, NEW flags
    PROVE  LET rules == Rules(final, authenticated, flags)
           IN \E i \in DOMAIN rules : rules[i][1] /\ \A j \in 1 .. (i - 1) : ~rules[j][1]
<1> DEFINE rules == Rules(final, authenticated, flags)
           matching == {i \in 1 .. 20 : rules[i][1]}
           Less == {p \in Nat \X Nat : p[1] < p[2]}
<1>1. DOMAIN rules = 1 .. 20 /\ rules[20][1]
  BY DEF Rules
<1> HIDE DEF rules
<1>2. matching \subseteq Nat /\ 20 \in matching
  BY <1>1
<1>3. IsWellFoundedOn(Less, Nat)
  BY NatLessThanWellFounded DEF OpToRel
<1>4. \E i \in matching : \A j \in matching : ~(<<j, i>> \in Less)
  <2> HIDE DEF matching, Less
  <2>1. QED
    BY <1>2, <1>3, WFMin
<1>5. PICK i \in matching : \A j \in matching : ~(<<j, i>> \in Less)
  BY <1>4
<1>6. \A j \in matching : ~(j < i)
  BY <1>2, <1>5
<1>7. i \in DOMAIN rules /\ rules[i][1] /\ \A j \in 1 .. (i - 1) : ~rules[j][1]
  BY <1>1, <1>6
<1>8. QED
  BY <1>7 DEF rules

\* Whatever a call ends with, resolve_disposition names a code.
LEMMA ResolveCode ==
    ASSUME NEW final, NEW authenticated, NEW flags
    PROVE  resolve_disposition(final, authenticated, flags) \in Codes
<1> DEFINE rules == Rules(final, authenticated, flags)
           first == CHOOSE i \in DOMAIN rules :
                       rules[i][1] /\ \A j \in 1 .. (i - 1) : ~rules[j][1]
<1>1. first \in DOMAIN rules
  BY FirstRule
<1>2. DOMAIN rules = 1 .. 20
  BY DEF Rules
<1>3. ASSUME NEW i \in 1 .. 20 PROVE rules[i][2] \in Codes
  BY DEF Rules, Codes
<1>4. rules[first][2] \in Codes
  BY <1>1, <1>2, <1>3
<1>5. QED
  BY <1>4 DEF resolve_disposition

\* Whatever the claim, something is told, and the amount of a financial one
\* to L2 alone.
LEMMA Disclosed ==
    ASSUME NEW claim, NEW level
    PROVE  /\ get_disclosable_status(claim, level) \in Disclosures \ {"NOTHING"}
           /\ get_disclosable_status(claim, level) = "FINANCIAL_AMOUNT" => level = "L2"
  BY DEF get_disclosable_status, Withheld, Disclosures

LEMMA DeliverOK == ASSUME IInv, deliver_status PROVE IInv'
<1> USE DEF IInv
<1>1. wf.at = "deliver" /\ UNCHANGED db
  BY DEF deliver_status
<1>2. ASSUME NEW claim \in ClaimsOnFile,
             Answered([wf EXCEPT !.delivered = get_disclosable_status(claim, wf.level),
                                 !.at = "disclose"])
      PROVE  IInv'
  <2> DEFINE told == get_disclosable_status(claim, wf.level)
             w == [wf EXCEPT !.delivered = told, !.at = "disclose"]
  <2>1. told \in Disclosures /\ told # "NOTHING" /\ (told = "FINANCIAL_AMOUNT" => wf.level = "L2")
    BY Disclosed
  <2>2. /\ w \in Memory /\ w.at = "disclose" /\ w.delivered = told
        /\ w.seq = wf.seq /\ w.stage = wf.stage /\ w.rightParty = wf.rightParty
        /\ w.level = wf.level
    BY <2>1 DEF Good, Memory, Activities
  <2>3. Answered(w)
    BY <1>2
  <2> HIDE DEF w, told
  <2>4. Good(w, db)
    BY <1>1, <2>1, <2>2 DEF Good, Placed, Ladder, Evidence, Closing, Known, Untrusted, Ended
  <2>5. QED
    BY <1>1, <2>3, <2>4, AnswerKeeps
<1>3. CASE Answered(Writing(wf, "action", "BACKEND_SYSTEM_FAILURE", {"backend_unavailable"}))
  <2>1. {"backend_unavailable"} \in SUBSET Flags
    BY FlagWords
  <2>2. Good(Writing(wf, "action", "BACKEND_SYSTEM_FAILURE", {"backend_unavailable"}), db)
    BY <1>1, <2>1, WritingGood, Words
  <2>3. QED
    BY <1>1, <1>3, <2>2, AnswerKeeps
<1>4. QED
  BY <1>2, <1>3 DEF deliver_status

LEMMA DiscloseOK == ASSUME IInv, Disclose PROVE IInv'
<1> USE DEF IInv
<1> DEFINE w == Waiting(wf, "follow")
<1>1. wf.at = "disclose" /\ db' = [db EXCEPT !.session.disclosed = TRUE] /\ Reply(w)
  BY DEF Disclose
<1>2. /\ db' \in Rows /\ db'.session.rightParty = db.session.rightParty
      /\ db'.match = db.match /\ db'.otp = db.otp
  BY <1>1 DEF Good, Rows, Session
<1>3. Good(wf, db')
  BY <1>2, RowsGood
<1>4. /\ w \in Memory /\ w.at = "wait" /\ w.stage = "follow" /\ w.seq = wf.seq
      /\ w.rightParty = wf.rightParty /\ w.level = wf.level /\ w.delivered = wf.delivered
  BY DEF Good, Memory, Activities, Stages, Waiting, NoSignal
<1> HIDE DEF w
<1>5. Good(w, db')
  BY <1>1, <1>3, <1>4 DEF Good, Placed, Ladder, Evidence, Closing, Known, Untrusted, Ended
<1>6. QED
  BY <1>1, <1>3, <1>5, ReplyKeeps

\* The moves that conclude a call, with and without a lost reply.
LEMMA ConcludeGood ==
    ASSUME NEW d, Good(wf, d), NEW at \in Closing \ {"terminated"}
    PROVE  Good([wf EXCEPT !.at = at], d)
<1> DEFINE w == [wf EXCEPT !.at = at]
<1>1. at \in Activities \union Ended
  BY DEF Closing, Activities, Ended
<1>2. w \in Memory /\ w.at = at /\ Same(w, wf)
  BY <1>1 DEF Good, Memory, Same
<1> HIDE DEF w
<1>3. Good(w, d)
  BY <1>2, ClosingGood
<1>4. QED
  BY <1>3 DEF w

LEMMA AfterWriteGood == ASSUME NEW d, Good(wf, d) PROVE Good(AfterWrite, d)
BY ConcludeGood DEF AfterWrite, Closing, Ended

LEMMA WriteOK ==
    ASSUME IInv, PerformWrite \/ ReplayWrite \/ AbandonWrite
    PROVE  IInv'
<1> USE DEF IInv
<1>0. wf.at = "write"
  BY DEF PerformWrite, ReplayWrite, AbandonWrite
<1>1. wf.seq \in Keys /\ wf.table \in Tables
  BY <1>0 DEF Good, Placed, Keys
<1>2. db.claim \in [Keys -> {"absent", "pending", "done"}] /\ db.rows \in Seq(Tables)
  BY DEF Good, Rows
<1>3. CASE PerformWrite
  <2>1. /\ db' = [db EXCEPT !.claim[wf.seq] = "done", !.rows = Append(@, wf.table)]
        /\ Reply(AfterWrite)
    BY <1>3 DEF PerformWrite
  <2>2. Append(db.rows, wf.table) \in Seq(Tables)
    BY <1>1, <1>2, AppendProperties
  <2>3. [db.claim EXCEPT ![wf.seq] = "done"] \in [Keys -> {"absent", "pending", "done"}]
    BY <1>1, <1>2
  <2>4. /\ db' \in Rows /\ db'.session = db.session
        /\ db'.match = db.match /\ db'.otp = db.otp
    BY <2>1, <2>2, <2>3 DEF Good, Rows
  <2>5. Good(wf, db')
    BY <2>4, RowsGood
  <2>6. QED
    BY <2>1, <2>5, AfterWriteGood, ReplyKeeps
<1>4. CASE ReplayWrite
  <2>1. Answered(AfterWrite) /\ UNCHANGED db
    BY <1>4 DEF ReplayWrite
  <2>2. Good(AfterWrite, db)
    BY AfterWriteGood
  <2>3. QED
    BY <2>1, <2>2, AnswerKeeps
<1>5. CASE AbandonWrite
  <2>1. /\ db' = [db EXCEPT !.claim[wf.seq] = "pending"]
        /\ lost < MaxLost /\ lost' = lost + 1 /\ UNCHANGED <<wf, inbox>>
    BY <1>5 DEF AbandonWrite
  <2>2. [db.claim EXCEPT ![wf.seq] = "pending"] \in [Keys -> {"absent", "pending", "done"}]
    BY <1>1, <1>2
  <2>3. /\ db' \in Rows /\ db'.session = db.session
        /\ db'.match = db.match /\ db'.otp = db.otp
    BY <2>1, <2>2 DEF Good, Rows
  <2>4. Good(wf, db')
    BY <2>3, RowsGood
  <2>5. Queued'
    BY <2>1 DEF Queued
  <2>6. QED
    BY <2>1, <2>4, <2>5
<1>6. QED
  BY <1>3, <1>4, <1>5

LEMMA FileOK ==
    ASSUME IInv,
           StartMonitor \/ finalize_outcome \/ record_audit_event \/ generate_call_summary
    PROVE  IInv'
<1> USE DEF IInv
<1>0. {"finalize", "audit", "summary", "closed"} \subseteq Closing \ {"terminated"}
  BY DEF Closing, Ended
<1>1. DispositionCode \in Codes
  BY ResolveCode DEF DispositionCode
<1>2. CASE StartMonitor
  <2>1. db' = [db EXCEPT !.monitor = TRUE] /\ Answered([wf EXCEPT !.at = "finalize"])
    BY <1>2 DEF StartMonitor
  <2>2. /\ db' \in Rows /\ db'.session = db.session
        /\ db'.match = db.match /\ db'.otp = db.otp
    BY <2>1 DEF Good, Rows
  <2>3. Good(wf, db')
    BY <2>2, RowsGood
  <2>4. Good([wf EXCEPT !.at = "finalize"], db')
    BY <1>0, <2>3, ConcludeGood
  <2>5. QED
    BY <2>1, <2>4, AnswerKeeps
<1>3. CASE finalize_outcome
  <2> DEFINE a == [disposition |-> DispositionCode, rightParty |-> wf.rightParty,
                   level |-> wf.level, delivered |-> wf.delivered,
                   resolution |-> wf.resolution]
  <2>1. db' = [db EXCEPT !.attempt = a] /\ Reply([wf EXCEPT !.at = "audit"])
    BY <1>3 DEF finalize_outcome
  <2>2. a \in Attempt
    BY <1>1 DEF Good, Memory, Attempt
  <2> HIDE DEF a
  <2>3. /\ db' \in Rows /\ db'.session = db.session
        /\ db'.match = db.match /\ db'.otp = db.otp
    BY <2>1, <2>2 DEF Good, Rows
  <2>4. Good(wf, db')
    BY <2>3, RowsGood
  <2>5. Good([wf EXCEPT !.at = "audit"], db')
    BY <1>0, <2>4, ConcludeGood
  <2>6. QED
    BY <2>1, <2>4, <2>5, ReplyKeeps
<1>4. CASE record_audit_event
  <2>1. db' = [db EXCEPT !.audits = @ \union {DispositionCode}]
        /\ Answered([wf EXCEPT !.at = "summary"])
    BY <1>4 DEF record_audit_event
  <2>2. /\ db' \in Rows /\ db'.session = db.session
        /\ db'.match = db.match /\ db'.otp = db.otp
    BY <1>1, <2>1 DEF Good, Rows
  <2>3. Good(wf, db')
    BY <2>2, RowsGood
  <2>4. Good([wf EXCEPT !.at = "summary"], db')
    BY <1>0, <2>3, ConcludeGood
  <2>5. QED
    BY <2>1, <2>4, AnswerKeeps
<1>5. CASE generate_call_summary
  <2>1. Answered([wf EXCEPT !.at = "closed"]) /\ UNCHANGED db
    BY <1>5 DEF generate_call_summary
  <2>2. Good([wf EXCEPT !.at = "closed"], db)
    BY <1>0, ConcludeGood
  <2>3. QED
    BY <2>1, <2>2, AnswerKeeps
<1>6. QED
  BY <1>2, <1>3, <1>4, <1>5

LEMMA ConcludeOK == ASSUME IInv, Conclude PROVE IInv'
BY DeliverOK, DiscloseOK, WriteOK, FileOK DEF Conclude

---------------------------------------------------------------------------
(* Results.                                                                *)

LEMMA NextIInv == IInv /\ [Next]_vars => IInv'
<1> SUFFICES ASSUME IInv, [Next]_vars PROVE IInv'
  OBVIOUS
<1>1. CASE UNCHANGED vars
  BY <1>1 DEF vars, IInv, Queued
<1>2. CASE Next
  BY <1>2, SignalOK, TimeoutOK, ContactOK, WaitOK, ConverseOK, VerifyOK, ConcludeOK
     DEF Next, Work
<1>3. QED
  BY <1>1, <1>2

\* Every memory and every row the workflow makes is of the shape the code
\* declares, and the disposition is one some rule gave (calls/workflows.py,
\* calls/disposition.py).
THEOREM TypeCorrect == Spec => []TypeOK
<1>1. IInv => TypeOK
  BY DEF IInv, Good, Queued, TypeOK
<1>2. QED
  BY <1>1, InitIInv, NextIInv, PTL DEF Spec

\* Whatever the customer says, in whatever order, and however many replies
\* are lost, and whatever claims are on file: no status without a confirmed
\* right party and a match, and no settlement amount of a claim in one of
\* FINANCIAL_STAGES without a verified OTP (calls/workflows.py,
\* claims/service.py).
THEOREM EarnedDisclosure == Spec => []DisclosureIsEarned
<1>1. IInv => DisclosureIsEarned
  <2> SUFFICES ASSUME IInv, wf.delivered # "NOTHING" PROVE DisclosureIsEarned
    BY DEF DisclosureIsEarned
  <2>1. wf.level # "L0" /\ wf.level \in Levels
    BY DEF IInv, Good, Ladder, Memory
  <2>2. db.match > 0 \/ db.otp = "VERIFIED"
    BY <2>1 DEF IInv, Good, Evidence, Levels
  <2>3. wf.delivered = "FINANCIAL_AMOUNT" => db.otp = "VERIFIED"
    BY DEF IInv, Good, Ladder, Evidence
  <2>4. wf.stage \in Known
    BY <2>1 DEF IInv, Good, Ladder, Untrusted, Memory, Stages, Known
  <2>5. QED
    BY <2>2, <2>3, <2>4 DEF IInv, Good, Evidence, DisclosureIsEarned
<1>2. QED
  BY <1>1, InitIInv, NextIInv, PTL DEF Spec
===========================================================================
