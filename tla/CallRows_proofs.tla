-------------------------- MODULE CallRows_proofs --------------------------
(***************************************************************************)
(* Proofs about the rows a CallSession leaves behind, whatever replies of  *)
(* its activities are lost: the session row follows the memory, guesses    *)
(* are limited, every business row has a cause on file, and the recorded   *)
(* outcome is backed by the rows it claims.                                *)
(*                                                                         *)
(* Each invariant is again a relation of a memory and the rows.  Most      *)
(* steps are Quiet: they change nothing that the first two speak of.       *)
(***************************************************************************)
EXTENDS CallFiling_proofs

\* Each column of the session row is behind the memory only while the
\* activity that writes it is under way.
KeptUp(w, d) ==
    /\ w.at \notin {"confirm", "terminated"} =>
         (d.session.rightParty <=> w.rightParty = "right")
    /\ w.at \notin {"save_level", "terminated"} => d.session.level = w.level
    /\ w.at \notin {"disclose", "terminated"} =>
         (d.session.disclosed <=> w.delivered # "NOTHING")

\* The knowledge factor may still be asked for.
Asking(w) ==
    /\ w.stage \in {"start", "party", "auth"}
    /\ w.level = "L0"
    /\ w.at \notin {"verify_level1"} \union Closing

\* Comparisons are within the limit when one begins, and exceed it only by
\* the replies that were lost.
Guessed(w, d, l) ==
    /\ d.match + d.miss <= MaxAuthAttempts + l
    /\ Asking(w) => d.match + d.miss < MaxAuthAttempts
    /\ w.at = "verify_level1" =>
         /\ d.match + d.miss < MaxAuthAttempts + l
         /\ w.heard.right => d.miss < MaxAuthAttempts
    /\ w.level = "L1" => d.miss < MaxAuthAttempts
    /\ d.wrong <= MaxOtpAttempts
    /\ d.otp # "LOCKED" => d.wrong < MaxOtpAttempts

GInv == KeptUp(wf, db) /\ Guessed(wf, db, lost)

\* Where an activity is under way that changes what GInv speaks of.
Pending == {"session", "confirm", "verify_level1", "save_level", "disclose"}

\* Nothing that GInv speaks of changes, but where the workflow stands.
Quiet ==
    /\ wf'.level = wf.level
    /\ wf'.delivered = wf.delivered
    /\ wf'.rightParty = "right" <=> wf.rightParty = "right"
    /\ db'.session = db.session
    /\ db'.match = db.match
    /\ db'.miss = db.miss
    /\ db'.otp = db.otp
    /\ db'.wrong = db.wrong
    /\ lost' \in {lost, lost + 1}
    /\ \/ wf' = wf
       \/ wf'.at = "terminated"
       \/ /\ wf.at \notin Pending \union Ended
          /\ Asking(wf') \/ wf'.at = "verify_level1" => Asking(wf)

---------------------------------------------------------------------------
(* The session row, and the guesses.                                       *)

LEMMA Counts ==
    ASSUME IInv
    PROVE  /\ db.match \in Nat /\ db.miss \in Nat /\ db.wrong \in Nat /\ lost \in Nat
           /\ MaxAuthAttempts \in Nat \ {0} /\ MaxOtpAttempts \in Nat \ {0}
<1>1. db \in Rows /\ lost \in 0 .. MaxLost
  BY DEF IInv, Good, Queued
<1>2. QED
  BY <1>1, BoundsAssumption DEF Rows

LEMMA QuietKeeps == ASSUME IInv, GInv, Quiet PROVE GInv'
<1>1. KeptUp(wf', db')
  BY DEF GInv, KeptUp, Quiet, Pending, Ended
<1>2. Guessed(wf', db', lost')
  <2>1. wf'.at \notin {"terminated"} /\ wf' # wf =>
          (Asking(wf') \/ wf'.at = "verify_level1" => Asking(wf))
    BY DEF Quiet
  <2>2. wf'.at = "terminated" => ~Asking(wf') /\ wf'.at # "verify_level1"
    BY DEF Asking, Closing, Ended
  <2>3. db.match + db.miss < MaxAuthAttempts =>
          db.match + db.miss < MaxAuthAttempts + lost /\ db.miss < MaxAuthAttempts
    BY Counts
  <2>4. /\ db'.match = db.match /\ db'.miss = db.miss /\ db'.wrong = db.wrong
        /\ db'.otp = db.otp /\ wf'.level = wf.level
        /\ lost' \in Nat /\ lost <= lost'
    BY Counts DEF Quiet
  <2>5. CASE wf' = wf
    BY <2>4, <2>5, Counts DEF GInv, Guessed, Asking
  <2>6. CASE wf' # wf
    BY <2>1, <2>2, <2>3, <2>4, <2>6, Counts DEF GInv, Guessed
  <2>7. QED
    BY <2>5, <2>6
<1>3. QED
  BY <1>1, <1>2 DEF GInv

\* The stages in which the knowledge factor is not asked for any more.
Later == {"otp", "follow"}

\* From no pending activity on, without a change of the customer's standing.
LEMMA QuietMove ==
    ASSUME wf.at \notin Pending \union Ended,
           wf'.level = wf.level, wf'.delivered = wf.delivered,
           wf'.rightParty = "right" <=> wf.rightParty = "right",
           wf.stage \in Later => wf'.stage \in Later,
           wf.stage \in Stages, wf'.stage \in Stages,
           wf.at \in Closing => wf'.at \in Closing,
           wf'.at # "verify_level1" \/ Asking(wf),
           db'.session = db.session, db'.match = db.match, db'.miss = db.miss,
           db'.otp = db.otp, db'.wrong = db.wrong, lost' \in {lost, lost + 1}
    PROVE  Quiet
<1>1. wf'.stage \in {"start", "party", "auth"} => wf.stage \in {"start", "party", "auth"}
  BY DEF Later, Stages
<1>2. wf.at # "verify_level1"
  BY DEF Pending
<1>3. Asking(wf') \/ wf'.at = "verify_level1" => Asking(wf)
  BY <1>1, <1>2 DEF Asking
<1>4. QED
  BY <1>3 DEF Quiet

\* What the workflow's own moves leave as it was.
LEMMA EndsAs ==
    ASSUME NEW w \in Memory, NEW final, NEW flags
    PROVE  Same(Ending(w, final, flags), w) /\ Ending(w, final, flags).at = "finalize"
BY DEF Memory, Same, Ending

LEMMA WritesAs ==
    ASSUME NEW w \in Memory, NEW table, NEW resolution, NEW flags
    PROVE  /\ Same(Writing(w, table, resolution, flags), w)
           /\ Writing(w, table, resolution, flags).at = "write"
BY DEF Memory, Same, Writing

LEMMA WaitsAs ==
    ASSUME NEW w \in Memory, NEW stage
    PROVE  /\ Alike(Waiting(w, stage), w)
           /\ Waiting(w, stage).at = "wait" /\ Waiting(w, stage).stage = stage
BY DEF Memory, Alike, Waiting

LEMMA NobodyIs ==
    ASSUME NEW w \in Memory
    PROVE  /\ Nobody(w) \in Memory /\ Nobody(w).rightParty = "other"
           /\ Nobody(w).stage = w.stage /\ Nobody(w).level = w.level
           /\ Nobody(w).delivered = w.delivered
BY DEF Memory, Parties, Nobody

\* The memory is what it was, elsewhere in the same stage.
LEMMA QuietTurn ==
    ASSUME IInv, wf.at \notin Pending \union Ended, NEW w \in Memory, Same(w, wf),
           \/ wf' = w /\ (wf.at \in Closing => w.at \in Closing)
                /\ (w.at # "verify_level1" \/ Asking(wf))
           \/ \E final, flags : wf' = Ending(w, final, flags)
           \/ /\ wf.at \notin Closing
              /\ \E table, resolution, flags : wf' = Writing(w, table, resolution, flags)
           \/ /\ wf.at \notin Closing
              /\ wf' = Waiting(w, w.stage),
           db'.session = db.session, db'.match = db.match, db'.miss = db.miss,
           db'.otp = db.otp, db'.wrong = db.wrong, lost' = lost
    PROVE  Quiet
<1>1. wf.stage \in Stages
  BY DEF IInv, Good, Memory
<1>2. Same(wf', wf) /\ (wf.at \in Closing => wf'.at \in Closing)
      /\ (wf'.at # "verify_level1" \/ Asking(wf))
  <2>1. CASE wf' = w /\ (wf.at \in Closing => w.at \in Closing)
             /\ (w.at # "verify_level1" \/ Asking(wf))
    BY <2>1
  <2>2. ASSUME NEW final, NEW flags, wf' = Ending(w, final, flags)
        PROVE  Same(wf', w) /\ wf'.at = "finalize"
    BY <2>2, EndsAs
  <2>3. ASSUME NEW table, NEW resolution, NEW flags, wf' = Writing(w, table, resolution, flags)
        PROVE  Same(wf', w) /\ wf'.at = "write"
    BY <2>3, WritesAs
  <2>4. ASSUME wf' = Waiting(w, w.stage)
        PROVE  Same(wf', w) /\ wf'.at = "wait"
    BY <2>4, WaitsAs DEF Same, Alike
  <2>5. "finalize" \in Closing
    BY DEF Closing
  <2>6. QED
    BY <2>1, <2>2, <2>3, <2>4, <2>5 DEF Same
<1>3. QED
  BY <1>1, <1>2, QuietMove DEF Same

LEMMA SignalQuiet ==
    ASSUME IInv, Speak \/ call_dropped \/ dtmf_fallback
    PROVE  Quiet
BY DEF Quiet, Speak, call_dropped, dtmf_fallback

LEMMA TimeoutQuiet == ASSUME IInv, ExecutionTimeout PROVE Quiet
<1>1. wf' = [wf EXCEPT !.at = "terminated"] /\ UNCHANGED <<db, lost>> /\ wf \in Memory
  BY DEF ExecutionTimeout, IInv, Good
<1>2. wf'.at = "terminated" /\ Alike(wf', wf)
  BY <1>1 DEF Memory, Alike
<1>3. QED
  BY <1>1, <1>2 DEF Quiet, Alike

\* A signal is heard: the rows GInv speaks of are untouched.
LEMMA HeardQuietly ==
    ASSUME IInv, NEW stage, NEW intents, Hear(stage, intents)
    PROVE  /\ wf \in Memory /\ wf.at = "note" /\ wf.stage = stage
           /\ wf.at \notin Pending \union Ended /\ wf.at \notin Closing
           /\ db'.session = db.session /\ db'.match = db.match /\ db'.miss = db.miss
           /\ db'.otp = db.otp /\ db'.wrong = db.wrong
BY DEF Hear, IInv, Good, Rows, Pending, Closing, Ended

\* The ways a heard signal is turned to quietly.
LEMMA HeardTurn ==
    ASSUME IInv, NEW stage, NEW intents, Hear(stage, intents), NEW w \in Memory, Same(w, wf),
           \/ Answered(w) /\ (w.at # "verify_level1" \/ Asking(wf))
           \/ \E final, flags : Answered(Ending(w, final, flags))
           \/ \E table, resolution, flags : Answered(Writing(w, table, resolution, flags))
           \/ \E flags : w = wf /\ Answered(Escalating(w, flags))
           \/ Answered(Waiting(w, w.stage))
    PROVE  Quiet
BY HeardQuietly, QuietTurn DEF Answered, Escalating

LEMMA ContactQuiet == ASSUME IInv, create_call_attempt \/ classify_answer PROVE Quiet
<1>0. wf \in Memory /\ db \in Rows
  BY DEF IInv, Good
<1>1. CASE create_call_attempt
  <2>1. /\ wf.at = "attempt" /\ db' = [db EXCEPT !.attempt = NewAttempt]
        /\ lost' \in {lost, lost + 1} /\ (wf' = wf \/ wf' = [wf EXCEPT !.at = "classify"])
    BY <1>1 DEF create_call_attempt, Reply
  <2>2. /\ db'.session = db.session /\ db'.match = db.match /\ db'.miss = db.miss
        /\ db'.otp = db.otp /\ db'.wrong = db.wrong
    BY <1>0, <2>1 DEF Rows
  <2>3. CASE wf' = wf
    BY <2>1, <2>2, <2>3 DEF Quiet
  <2>4. CASE wf' = [wf EXCEPT !.at = "classify"]
    <3>1. Same(wf', wf) /\ wf'.at = "classify" /\ wf.stage \in Stages
      BY <1>0, <2>4 DEF Memory, Same
    <3>2. wf.at \notin Pending \union Ended /\ wf.at \notin Closing
      BY <2>1 DEF Pending, Closing, Ended
    <3>3. QED
      BY <2>1, <2>2, <3>1, <3>2, QuietMove DEF Same
  <2>5. QED
    BY <2>1, <2>3, <2>4
<1>2. CASE classify_answer
  <2>1. /\ wf.at = "classify" /\ UNCHANGED <<db, lost>>
        /\ wf.at \notin Pending \union Ended /\ wf.at \notin Closing
    BY <1>2 DEF classify_answer, Answered, Pending, Closing, Ended
  <2>2. CASE wf' = [wf EXCEPT !.at = "session"]
    <3>1. Same(wf', wf) /\ wf'.at = "session" /\ wf.stage \in Stages
      BY <1>0, <2>2 DEF Memory, Same
    <3>2. QED
      BY <2>1, <3>1, QuietMove DEF Same
  <2>3. ASSUME NEW a,
               wf' = Ending([wf EXCEPT !.resolution = "CONTACT_NOT_ESTABLISHED"], a, {})
        PROVE  Quiet
    <3> DEFINE w == [wf EXCEPT !.resolution = "CONTACT_NOT_ESTABLISHED"]
    <3>1. w \in Memory /\ Same(w, wf) /\ wf' = Ending(w, a, {})
      BY <1>0, <2>3 DEF Memory, Resolutions, Same
    <3> HIDE DEF w
    <3>2. QED
      BY <2>1, <3>1, QuietTurn
  <2>4. QED
    BY <1>2, <2>2, <2>3 DEF classify_answer, Answered
<1>3. QED
  BY <1>1, <1>2

LEMMA WaitQuiet == ASSUME IInv, Wait PROVE Quiet
<1>0. /\ wf.at = "wait" /\ UNCHANGED <<db, lost>> /\ wf \in Memory
      /\ wf.at \notin Pending \union Ended /\ wf.at \notin Closing
  BY DEF Wait, Dequeue, Keypad, Dropped, Silence, SilenceIn, NothingQueued, Answered,
         IInv, Good, Pending, Closing, Ended
<1>1. CASE Dequeue \/ Keypad
  <2>1. \/ wf' = [wf EXCEPT !.at = "note", !.heard = Head(inbox.queue)]
        \/ wf' = [wf EXCEPT !.at = "dtmf_audit"]
    BY <1>1 DEF Dequeue, Keypad, Answered
  <2>2. Same(wf', wf) /\ wf'.at \in {"note", "dtmf_audit"} /\ wf.stage \in Stages
    BY <1>0, <2>1 DEF Memory, Same
  <2>3. QED
    BY <1>0, <2>2, QuietMove DEF Same
<1>2. CASE Dropped
  <2>1. wf' = Ending(wf, "CLOSE", {"call_dropped"} \union Delivered)
    BY <1>2 DEF Dropped, Answered
  <2>2. QED
    BY <1>0, <2>1, QuietTurn DEF Same
<1>3. CASE Silence
  <2>0. wf.stage \in {"party", "auth", "otp", "follow"}
    BY <1>0, Region DEF Memory, Stages
  <2>1. CASE wf.stage = "party"
    <3>1. wf' = Ending(Nobody(wf), "CUSTOMER_UNAVAILABLE", {})
      BY <1>3, <2>1 DEF Silence, SilenceIn, Answered
    <3>2. wf.rightParty = "unknown"
      BY <1>0, <2>1, Region
    <3>3. /\ Same(wf', Nobody(wf)) /\ wf'.at = "finalize" /\ Nobody(wf).rightParty = "other"
          /\ Nobody(wf).stage = wf.stage /\ Nobody(wf).level = wf.level
          /\ Nobody(wf).delivered = wf.delivered
      BY <1>0, <3>1, EndsAs, NobodyIs
    <3>4. QED
      BY <1>0, <2>1, <3>2, <3>3, QuietMove DEF Same, Stages
  <2>2. CASE wf.stage \in {"auth", "otp"}
    <3>1. wf' = Ending(wf, "AUTH_FAILED", {})
      BY <1>3, <2>2 DEF Silence, SilenceIn, Answered
    <3>2. QED
      BY <1>0, <3>1, QuietTurn DEF Same
  <2>3. CASE wf.stage = "follow"
    <3> DEFINE w == [wf EXCEPT !.resolution = "FULLY_RESOLVED_BY_AI"]
    <3>1. wf' = Ending(w, "CLOSE", Delivered)
      BY <1>3, <2>3 DEF Silence, SilenceIn, Answered
    <3>2. w \in Memory /\ Same(w, wf)
      BY <1>0 DEF Memory, Resolutions, Same
    <3> HIDE DEF w
    <3>3. QED
      BY <1>0, <3>1, <3>2, QuietTurn
  <2>4. QED
    BY <2>0, <2>1, <2>2, <2>3
<1>4. QED
  BY <1>1, <1>2, <1>3 DEF Wait

\* While the customer is not let in, the knowledge factor may be asked for.
LEMMA NoteAsks ==
    ASSUME IInv, wf.at = "note", wf.stage \in {"party", "auth"}
    PROVE  Asking(wf)
BY Region DEF Asking, Closing, Ended

LEMMA KeypadQuiet == ASSUME IInv, HandleKeypad PROVE Quiet
<1>1. /\ wf \in Memory /\ wf.at = "dtmf_audit"
      /\ wf.at \notin Pending \union Ended /\ wf.at \notin Closing
      /\ db'.session = db.session /\ db'.match = db.match /\ db'.miss = db.miss
      /\ db'.otp = db.otp /\ db'.wrong = db.wrong /\ lost' = lost
  BY DEF HandleKeypad, Answered, IInv, Good, Rows, Pending, Closing, Ended
<1>2. \E table, resolution, flags : wf' = Writing(wf, table, resolution, flags)
  BY DEF HandleKeypad, Answered, Escalating
<1>3. QED
  BY <1>1, <1>2, QuietTurn DEF Same

\* The party stage hears something, other than that he is the right party.
LEMMA HearPartyQuiet ==
    ASSUME IInv, HearParty
    PROVE  \/ Quiet
           \/ /\ Hear("party", {"RIGHT_PARTY_CONFIRMED"})
              /\ Answered([wf EXCEPT !.rightParty = "right", !.at = "confirm"])
<1>1. ASSUME Hear("party", {"WRONG_PARTY", "CUSTOMER_UNAVAILABLE"}),
             Answered(Ending(Nobody(wf), wf.heard.intent, {}))
      PROVE  Quiet
  <2>1. /\ wf \in Memory /\ wf.at = "note" /\ wf.stage = "party"
        /\ wf.at \notin Pending \union Ended /\ wf.at \notin Closing
        /\ db'.session = db.session /\ db'.match = db.match /\ db'.miss = db.miss
        /\ db'.otp = db.otp /\ db'.wrong = db.wrong /\ lost' = lost
    BY <1>1, HeardQuietly DEF Answered
  <2>2. wf' = Ending(Nobody(wf), wf.heard.intent, {})
    BY <1>1 DEF Answered
  <2>3. wf.rightParty = "unknown"
    BY <2>1, Region
  <2>4. /\ Same(wf', Nobody(wf)) /\ wf'.at = "finalize" /\ Nobody(wf).rightParty = "other"
        /\ Nobody(wf).stage = wf.stage /\ Nobody(wf).level = wf.level
        /\ Nobody(wf).delivered = wf.delivered
    BY <2>1, <2>2, EndsAs, NobodyIs
  <2>5. QED
    BY <2>1, <2>3, <2>4, QuietMove DEF Same, Stages
<1>2. ASSUME NEW intents, Hear("party", intents),
             \/ \E table, resolution, flags : Answered(Writing(wf, table, resolution, flags))
             \/ \E flags : Answered(Escalating(wf, flags))
             \/ Answered(Waiting(wf, "party"))
      PROVE  Quiet
  <2>1. wf \in Memory /\ wf.stage = "party" /\ Same(wf, wf)
    BY <1>2, HeardQuietly DEF Same
  <2>2. QED
    BY <1>2, <2>1, HeardTurn
<1>3. QED
  BY <1>1, <1>2 DEF HearParty

LEMMA HearAuthQuiet == ASSUME IInv, HearAuth PROVE Quiet
<1>1. ASSUME NEW intents, Hear("auth", intents),
             \/ \E flags : Answered(Escalating(wf, flags))
             \/ Answered(Waiting(wf, "auth"))
      PROVE  Quiet
  <2>1. wf \in Memory /\ wf.stage = "auth" /\ Same(wf, wf)
    BY <1>1, HeardQuietly DEF Same
  <2>2. QED
    BY <1>1, <2>1, HeardTurn
<1>2. ASSUME NEW intents, Hear("auth", intents), NEW at \in {"send_otp", "verify_level1"},
             Answered([wf EXCEPT !.at = at])
      PROVE  Quiet
  <2> DEFINE w == [wf EXCEPT !.at = at]
  <2>1. wf \in Memory /\ wf.at = "note" /\ wf.stage = "auth"
    BY <1>2, HeardQuietly
  <2>2. w \in Memory /\ Same(w, wf) /\ Answered(w)
    BY <1>2, <2>1 DEF Memory, Activities, Same
  <2>3. Asking(wf)
    BY <2>1, NoteAsks
  <2> HIDE DEF w
  <2>4. QED
    BY <1>2, <2>2, <2>3, HeardTurn
<1>3. QED
  BY <1>1, <1>2 DEF HearAuth

LEMMA HearOtpQuiet == ASSUME IInv, HearOtp PROVE Quiet
<1>1. ASSUME NEW intents, Hear("otp", intents),
             \/ \E flags : Answered(Escalating(wf, flags))
             \/ Answered(Waiting(wf, "otp"))
      PROVE  Quiet
  <2>1. wf \in Memory /\ wf.stage = "otp" /\ Same(wf, wf)
    BY <1>1, HeardQuietly DEF Same
  <2>2. QED
    BY <1>1, <2>1, HeardTurn
<1>2. ASSUME Hear("otp", {"OTP_ANSWER"}), NEW l \in OtpLateness,
             Answered([wf EXCEPT !.at = "verify_otp", !.late = l])
      PROVE  Quiet
  <2> DEFINE w == [wf EXCEPT !.at = "verify_otp", !.late = l]
  <2>1. wf \in Memory /\ l \in BOOLEAN
    BY <1>2, HeardQuietly, ChoicesAssumption
  <2>2. w \in Memory /\ Same(w, wf) /\ Answered(w) /\ w.at = "verify_otp"
    BY <1>2, <2>1 DEF Memory, Activities, Same
  <2> HIDE DEF w
  <2>3. QED
    BY <1>2, <2>2, HeardTurn
<1>3. QED
  BY <1>1, <1>2 DEF HearOtp

LEMMA HearFollowUpQuiet == ASSUME IInv, HearFollowUp PROVE Quiet
<1>1. ASSUME NEW intents, Hear("follow", intents),
             \/ \E table, resolution, flags : Answered(Writing(wf, table, resolution, flags))
             \/ \E flags : Answered(Escalating(wf, flags))
      PROVE  Quiet
  <2>1. wf \in Memory /\ Same(wf, wf)
    BY <1>1, HeardQuietly DEF Same
  <2>2. QED
    BY <1>1, <2>1, HeardTurn
<1>2. ASSUME NEW intents, Hear("follow", intents), NEW flags,
             Answered(Ending([wf EXCEPT !.resolution = "FULLY_RESOLVED_BY_AI"],
                             "CLOSE", flags))
      PROVE  Quiet
  <2> DEFINE w == [wf EXCEPT !.resolution = "FULLY_RESOLVED_BY_AI"]
  <2>1. wf \in Memory
    BY <1>2, HeardQuietly
  <2>2. w \in Memory /\ Same(w, wf) /\ Answered(Ending(w, "CLOSE", flags))
    BY <1>2, <2>1 DEF Memory, Resolutions, Same
  <2> HIDE DEF w
  <2>3. QED
    BY <1>2, <2>2, HeardTurn
<1>3. QED
  BY <1>1, <1>2 DEF HearFollowUp

LEMMA ConverseGuessed == ASSUME IInv, GInv, Converse PROVE GInv'
<1>1. ASSUME Hear("party", {"RIGHT_PARTY_CONFIRMED"}),
             Answered([wf EXCEPT !.rightParty = "right", !.at = "confirm"])
      PROVE  GInv'
  <2>1. /\ wf \in Memory /\ wf.at = "note" /\ wf.stage = "party" /\ lost' = lost
        /\ db'.session = db.session /\ db'.match = db.match /\ db'.miss = db.miss
        /\ db'.otp = db.otp /\ db'.wrong = db.wrong
    BY <1>1, HeardQuietly DEF Answered
  <2>2. /\ wf'.at = "confirm" /\ wf'.level = wf.level /\ wf'.delivered = wf.delivered
    BY <1>1, <2>1 DEF Answered, Memory
  <2>3. Asking(wf)
    BY <2>1, NoteAsks
  <2>4. KeptUp(wf', db')
    BY <2>1, <2>2 DEF GInv, KeptUp
  <2>5. Guessed(wf', db', lost')
    BY <2>1, <2>2, <2>3 DEF GInv, Guessed
  <2>6. QED
    BY <2>4, <2>5 DEF GInv
<1>2. QED
  BY <1>1, KeypadQuiet, HearPartyQuiet, HearAuthQuiet, HearOtpQuiet, HearFollowUpQuiet,
     QuietKeeps DEF Converse

LEMMA SessionGuessed == ASSUME IInv, GInv, create_call_session PROVE GInv'
<1>1. /\ wf \in Memory /\ db \in Rows /\ wf.at = "session" /\ wf.stage = "start"
      /\ wf.level = "L0" /\ wf.rightParty = "unknown" /\ wf.delivered = "NOTHING"
  BY DEF create_call_session, IInv, Good, Placed, Ladder, Untrusted
<1>2. /\ db' = [db EXCEPT !.session = NewSession] /\ lost' \in {lost, lost + 1}
      /\ wf' = wf \/ wf' = Waiting(wf, "party")
  BY DEF create_call_session, Reply
<1>3. /\ db'.session = NewSession /\ db'.match = db.match /\ db'.miss = db.miss
      /\ db'.otp = db.otp /\ db'.wrong = db.wrong
  BY <1>1, <1>2 DEF Rows
<1>4. /\ wf'.level = "L0" /\ wf'.rightParty = "unknown" /\ wf'.delivered = "NOTHING"
      /\ wf'.at \in {"session", "wait"}
  BY <1>1, <1>2, WaitsAs DEF Alike
<1>5. KeptUp(wf', db')
  BY <1>3, <1>4 DEF KeptUp, NewSession
<1>6. Guessed(wf', db', lost')
  <2>1. Asking(wf)
    BY <1>1 DEF Asking, Closing, Ended
  <2>2. QED
    BY <1>2, <1>3, <1>4, <2>1, Counts DEF GInv, Guessed
<1>7. QED
  BY <1>5, <1>6 DEF GInv

LEMMA ConfirmGuessed == ASSUME IInv, GInv, ConfirmParty PROVE GInv'
<1>1. wf \in Memory /\ db \in Rows /\ wf.at = "confirm" /\ wf.rightParty = "right"
  BY DEF ConfirmParty, IInv, Good, Ladder
<1>2. /\ db' = [db EXCEPT !.session.rightParty = TRUE] /\ lost' \in {lost, lost + 1}
      /\ wf' = wf \/ wf' = [wf EXCEPT !.at = "factor"]
  BY DEF ConfirmParty, Reply
<1>3. /\ db'.session.rightParty = TRUE /\ db'.session.level = db.session.level
      /\ db'.session.disclosed = db.session.disclosed
      /\ db'.match = db.match /\ db'.miss = db.miss
      /\ db'.otp = db.otp /\ db'.wrong = db.wrong
  BY <1>1, <1>2 DEF Rows, Session
<1>4. Same(wf', wf) /\ wf'.at \in {"confirm", "factor"}
  BY <1>1, <1>2 DEF Memory, Same
<1>5. KeptUp(wf', db')
  BY <1>1, <1>3, <1>4 DEF GInv, KeptUp, Same
<1>6. Guessed(wf', db', lost')
  <2>1. Asking(wf') => Asking(wf)
    BY <1>1, <1>4 DEF Asking, Same, Closing, Ended
  <2>2. QED
    BY <1>2, <1>3, <1>4, <2>1, Counts DEF GInv, Guessed, Same
<1>7. QED
  BY <1>5, <1>6 DEF GInv

LEMMA FactorQuiet == ASSUME IInv, get_configured_auth_factor_type PROVE Quiet
<1>1. /\ wf \in Memory /\ wf.at = "factor" /\ wf.stage = "party" /\ UNCHANGED <<db, lost>>
      /\ wf.at \notin Pending \union Ended /\ wf.at \notin Closing
  BY DEF get_configured_auth_factor_type, Answered, IInv, Good, Placed, Pending, Closing, Ended
<1>2. PICK f \in FactorOnFile : wf' = Waiting([wf EXCEPT !.factor = f], "auth")
  BY DEF get_configured_auth_factor_type, Answered
<1>3. [wf EXCEPT !.factor = f] \in Memory /\ Alike([wf EXCEPT !.factor = f], wf)
  BY <1>1, ChoicesAssumption DEF Memory, Alike
<1>4. Alike(wf', wf) /\ wf'.at = "wait" /\ wf'.stage = "auth"
  <2> DEFINE w == [wf EXCEPT !.factor = f]
  <2>1. w \in Memory /\ Alike(w, wf) /\ wf' = Waiting(w, "auth")
    BY <1>2, <1>3
  <2> HIDE DEF w
  <2>2. QED
    BY <2>1, WaitsAs DEF Alike
<1>5. QED
  BY <1>1, <1>4, QuietMove DEF Alike, Stages, Later

\* One comparison more, and perhaps its reply is lost.
LEMMA CompareGuessed == ASSUME IInv, GInv, verify_level1 PROVE GInv'
<1>1. /\ wf \in Memory /\ db \in Rows /\ wf.at = "verify_level1"
      /\ wf.stage = "auth" /\ wf.level = "L0"
  BY Region DEF verify_level1, CompareFactor, IInv, Good, Placed
<1>2. CASE wf.heard.right
  <2>1. /\ db' = [db EXCEPT !.match = @ + 1]
        /\ \/ wf' = [wf EXCEPT !.level = "L1", !.at = "save_level"] /\ lost' = lost
           \/ wf' = wf /\ lost' = lost + 1
    BY <1>2 DEF verify_level1, CompareFactor, Reply
  <2>2. /\ db'.session = db.session /\ db'.match = db.match + 1 /\ db'.miss = db.miss
        /\ db'.otp = db.otp /\ db'.wrong = db.wrong
    BY <1>1, <2>1 DEF Rows
  <2>3. CASE wf' = [wf EXCEPT !.level = "L1", !.at = "save_level"] /\ lost' = lost
    <3>1. /\ wf'.level = "L1" /\ wf'.at = "save_level"
          /\ wf'.rightParty = wf.rightParty /\ wf'.delivered = wf.delivered
      BY <1>1, <2>3 DEF Memory
    <3>2. KeptUp(wf', db')
      BY <1>1, <2>2, <3>1 DEF GInv, KeptUp
    <3>3. ~Asking(wf')
      BY <3>1 DEF Asking
    <3>4. Guessed(wf', db', lost')
      BY <1>1, <1>2, <2>2, <2>3, <3>1, <3>3, Counts DEF GInv, Guessed
    <3>5. QED
      BY <3>2, <3>4 DEF GInv
  <2>4. CASE wf' = wf /\ lost' = lost + 1
    <3>1. KeptUp(wf', db')
      BY <2>2, <2>4 DEF GInv, KeptUp
    <3>2. ~Asking(wf)
      BY <1>1 DEF Asking
    <3>3. Guessed(wf', db', lost')
      BY <1>1, <2>2, <2>4, <3>2, Counts DEF GInv, Guessed
    <3>4. QED
      BY <3>1, <3>3 DEF GInv
  <2>5. QED
    BY <2>1, <2>3, <2>4
<1>3. CASE ~wf.heard.right
  <2>1. /\ db' = [db EXCEPT !.miss = @ + 1]
        /\ \/ wf' = Ending(wf, "AUTH_FAILED", {}) /\ lost' = lost
           \/ /\ wf' = Waiting(wf, "auth") /\ lost' = lost
              /\ ~(db'.match + db'.miss >= MaxAuthAttempts)
           \/ wf' = wf /\ lost' = lost + 1
    BY <1>3 DEF verify_level1, CompareFactor, Reply
  <2>2. /\ db'.session = db.session /\ db'.match = db.match /\ db'.miss = db.miss + 1
        /\ db'.otp = db.otp /\ db'.wrong = db.wrong
    BY <1>1, <2>1 DEF Rows
  <2>3. /\ Alike(wf', wf)
        /\ \/ wf'.at = "finalize" /\ lost' = lost
           \/ wf'.at = "wait" /\ lost' = lost /\ ~(db'.match + db'.miss >= MaxAuthAttempts)
           \/ wf' = wf /\ lost' = lost + 1
    BY <1>1, <2>1, EndsAs, WaitsAs DEF Alike, Same
  <2>4. KeptUp(wf', db')
    BY <1>1, <2>2, <2>3 DEF GInv, KeptUp, Alike
  <2>5. wf'.level = "L0"
    BY <1>1, <2>3 DEF Alike
  <2>6. CASE wf'.at = "finalize" /\ lost' = lost
    <3>1. ~Asking(wf')
      BY <2>6 DEF Asking, Closing
    <3>2. Guessed(wf', db', lost')
      BY <1>1, <2>2, <2>5, <2>6, <3>1, Counts DEF GInv, Guessed
    <3>3. QED
      BY <2>4, <3>2 DEF GInv
  <2>7. CASE wf'.at = "wait" /\ lost' = lost /\ ~(db'.match + db'.miss >= MaxAuthAttempts)
    <3>1. Guessed(wf', db', lost')
      BY <1>1, <2>2, <2>5, <2>7, Counts DEF GInv, Guessed
    <3>2. QED
      BY <2>4, <3>1 DEF GInv
  <2>8. CASE wf' = wf /\ lost' = lost + 1
    <3>1. ~Asking(wf)
      BY <1>1 DEF Asking
    <3>2. Guessed(wf', db', lost')
      BY <1>1, <1>3, <2>2, <2>8, <3>1, Counts DEF GInv, Guessed
    <3>3. QED
      BY <2>4, <3>2 DEF GInv
  <2>9. QED
    BY <2>3, <2>6, <2>7, <2>8
<1>4. QED
  BY <1>2, <1>3

\* A challenge is sent, with no wrong answer counted yet.
LEMMA SendGuessed == ASSUME IInv, GInv, send_otp PROVE GInv'
<1>1. wf \in Memory /\ db \in Rows /\ wf.at = "send_otp"
  BY DEF send_otp, IInv, Good
<1>2. /\ db' = [db EXCEPT !.otp = "SENT", !.wrong = 0] /\ lost' \in {lost, lost + 1}
      /\ wf' = wf \/ wf' = Waiting(wf, "otp")
  BY DEF send_otp, Reply
<1>3. /\ db'.session = db.session /\ db'.match = db.match /\ db'.miss = db.miss
      /\ db'.wrong = 0
  BY <1>1, <1>2 DEF Rows
<1>4. Alike(wf', wf) /\ (wf' = wf \/ (wf'.at = "wait" /\ wf'.stage = "otp"))
  <2>1. wf' = Waiting(wf, "otp") =>
          Alike(wf', wf) /\ wf'.at = "wait" /\ wf'.stage = "otp"
    BY <1>1, WaitsAs
  <2>2. wf' = wf => Alike(wf', wf)
    BY DEF Alike
  <2>3. QED
    BY <1>2, <2>1, <2>2
<1>5. KeptUp(wf', db')
  BY <1>1, <1>3, <1>4 DEF GInv, KeptUp, Alike
<1>6. Guessed(wf', db', lost')
  <2>1. Asking(wf') => Asking(wf)
    BY <1>4 DEF Asking
  <2>2. wf'.at # "verify_level1" /\ wf'.level = wf.level
    BY <1>1, <1>4 DEF Alike
  <2>3. QED
    BY <1>2, <1>3, <2>1, <2>2, Counts DEF GInv, Guessed
<1>7. QED
  BY <1>5, <1>6 DEF GInv

\* One answer more, to a challenge that is not locked.
LEMMA AnswerGuessed == ASSUME IInv, GInv, verify_otp PROVE GInv'
<1>1. /\ wf \in Memory /\ db \in Rows /\ wf.at = "verify_otp" /\ wf.stage = "otp"
      /\ wf.level = "L0" /\ db.otp # "LOCKED"
  BY Region DEF verify_otp, IInv, Good, Placed
<1>2. /\ lost' \in {lost, lost + 1}
      /\ \/ wf' = wf
         \/ wf' = [wf EXCEPT !.level = "L2", !.at = "save_level"]
         \/ wf' = Ending(wf, "CLOSE", {"otp_locked"})
         \/ wf' = Waiting(wf, "otp")
  BY DEF verify_otp, Reply
<1>3. /\ wf'.rightParty = wf.rightParty /\ wf'.delivered = wf.delivered
      /\ wf'.stage = "otp" /\ wf'.at \in {"verify_otp", "save_level", "finalize", "wait"}
      /\ wf'.level = wf.level \/ (wf'.level = "L2" /\ wf'.at = "save_level")
  <2>1. wf' = [wf EXCEPT !.level = "L2", !.at = "save_level"] =>
          /\ wf'.rightParty = wf.rightParty /\ wf'.delivered = wf.delivered
          /\ wf'.stage = wf.stage /\ wf'.level = "L2" /\ wf'.at = "save_level"
    BY <1>1 DEF Memory
  <2>2. wf' = Waiting(wf, "otp") =>
          Alike(wf', wf) /\ wf'.at = "wait" /\ wf'.stage = "otp"
    BY <1>1, WaitsAs
  <2>3. wf' = Ending(wf, "CLOSE", {"otp_locked"}) =>
          Same(wf', wf) /\ wf'.at = "finalize"
    BY <1>1, EndsAs
  <2>4. QED
    BY <1>1, <1>2, <2>1, <2>2, <2>3 DEF Alike, Same
<1>4. /\ db'.session = db.session /\ db'.match = db.match /\ db'.miss = db.miss
      /\ db'.wrong <= MaxOtpAttempts
      /\ db'.otp # "LOCKED" => db'.wrong < MaxOtpAttempts
  <2>1. db.wrong < MaxOtpAttempts
    BY <1>1 DEF GInv, Guessed
  <2>2. CASE wf.heard.right
    <3>1. db' = [db EXCEPT !.otp = "VERIFIED"]
      BY <2>2 DEF verify_otp
    <3>2. /\ db'.session = db.session /\ db'.match = db.match /\ db'.miss = db.miss
          /\ db'.wrong = db.wrong
      BY <1>1, <3>1 DEF Rows
    <3>3. QED
      BY <2>1, <3>2, Counts
  <2>3. CASE ~wf.heard.right
    <3>1. db' = [db EXCEPT !.wrong = @ + 1,
                  !.otp = IF db.wrong + 1 >= MaxOtpAttempts THEN "LOCKED" ELSE @]
      BY <2>3 DEF verify_otp
    <3>2. /\ db'.session = db.session /\ db'.match = db.match /\ db'.miss = db.miss
          /\ db'.wrong = db.wrong + 1
          /\ db'.otp = IF db.wrong + 1 >= MaxOtpAttempts THEN "LOCKED" ELSE db.otp
      BY <1>1, <3>1 DEF Rows
    <3>3. QED
      BY <2>1, <3>2, Counts
  <2>4. QED
    BY <2>2, <2>3
<1>5. KeptUp(wf', db')
  BY <1>1, <1>3, <1>4 DEF GInv, KeptUp
<1>6. Guessed(wf', db', lost')
  <2>1. ~Asking(wf') /\ wf'.at # "verify_level1" /\ wf'.level # "L1"
    BY <1>1, <1>3 DEF Asking
  <2>2. QED
    BY <1>2, <1>4, <2>1, Counts DEF GInv, Guessed
<1>7. QED
  BY <1>5, <1>6 DEF GInv

LEMMA SaveGuessed == ASSUME IInv, GInv, SaveLevel PROVE GInv'
<1>1. wf \in Memory /\ db \in Rows /\ wf.at = "save_level" /\ wf.level # "L0"
  BY DEF SaveLevel, IInv, Good, Ladder
<1>2. /\ db' = [db EXCEPT !.session.level = wf.level] /\ lost' \in {lost, lost + 1}
      /\ wf' = wf \/ wf' = [wf EXCEPT !.at = "deliver", !.heard = NoSignal]
  BY DEF SaveLevel, Reply
<1>3. /\ db'.session.level = wf.level /\ db'.session.rightParty = db.session.rightParty
      /\ db'.session.disclosed = db.session.disclosed
      /\ db'.match = db.match /\ db'.miss = db.miss
      /\ db'.otp = db.otp /\ db'.wrong = db.wrong
  BY <1>1, <1>2 DEF Rows, Session
<1>4. Same(wf', wf) /\ wf'.at \in {"save_level", "deliver"}
  BY <1>1, <1>2 DEF Memory, Same
<1>5. KeptUp(wf', db')
  BY <1>1, <1>3, <1>4 DEF GInv, KeptUp, Same
<1>6. Guessed(wf', db', lost')
  <2>1. ~Asking(wf') /\ wf'.at # "verify_level1" /\ wf'.level = wf.level
    BY <1>1, <1>4 DEF Asking, Same
  <2>2. QED
    BY <1>2, <1>3, <2>1, Counts DEF GInv, Guessed
<1>7. QED
  BY <1>5, <1>6 DEF GInv

LEMMA DiscloseGuessed == ASSUME IInv, GInv, Disclose PROVE GInv'
<1>1. /\ wf \in Memory /\ db \in Rows /\ wf.at = "disclose"
      /\ wf.level # "L0" /\ wf.delivered # "NOTHING"
  BY DEF Disclose, IInv, Good, Ladder
<1>2. /\ db' = [db EXCEPT !.session.disclosed = TRUE] /\ lost' \in {lost, lost + 1}
      /\ wf' = wf \/ wf' = Waiting(wf, "follow")
  BY DEF Disclose, Reply
<1>3. /\ db'.session.disclosed = TRUE /\ db'.session.rightParty = db.session.rightParty
      /\ db'.session.level = db.session.level
      /\ db'.match = db.match /\ db'.miss = db.miss
      /\ db'.otp = db.otp /\ db'.wrong = db.wrong
  BY <1>1, <1>2 DEF Rows, Session
<1>4. Alike(wf', wf) /\ wf'.at \in {"disclose", "wait"}
  <2>1. wf' = Waiting(wf, "follow") => Alike(wf', wf) /\ wf'.at = "wait"
    BY <1>1, WaitsAs
  <2>2. QED
    BY <1>1, <1>2, <2>1 DEF Alike
<1>5. KeptUp(wf', db')
  BY <1>1, <1>3, <1>4 DEF GInv, KeptUp, Alike
<1>6. Guessed(wf', db', lost')
  <2>1. ~Asking(wf') /\ wf'.at # "verify_level1" /\ wf'.level = wf.level
    BY <1>1, <1>4 DEF Asking, Alike
  <2>2. QED
    BY <1>2, <1>3, <2>1, Counts DEF GInv, Guessed
<1>7. QED
  BY <1>5, <1>6 DEF GInv

LEMMA DeliverGuessed == ASSUME IInv, GInv, deliver_status PROVE GInv'
<1>1. /\ wf \in Memory /\ wf.at = "deliver" /\ wf.level # "L0" /\ UNCHANGED <<db, lost>>
      /\ wf.at \notin Pending \union Ended /\ wf.at \notin Closing
  BY Region DEF deliver_status, Answered, IInv, Good, Pending, Closing, Ended
<1>2. ASSUME NEW claim \in ClaimsOnFile,
             wf' = [wf EXCEPT !.delivered = get_disclosable_status(claim, wf.level),
                              !.at = "disclose"]
      PROVE  GInv'
  <2>1. /\ wf'.at = "disclose" /\ wf'.level = wf.level /\ wf'.rightParty = wf.rightParty
    BY <1>1, <1>2 DEF Memory
  <2>2. KeptUp(wf', db')
    BY <1>1, <2>1 DEF GInv, KeptUp
  <2>3. ~Asking(wf')
    BY <1>1, <2>1 DEF Asking
  <2>4. Guessed(wf', db', lost')
    BY <1>1, <2>1, <2>3 DEF GInv, Guessed
  <2>5. QED
    BY <2>2, <2>4 DEF GInv
<1>3. CASE wf' = Writing(wf, "action", "BACKEND_SYSTEM_FAILURE", {"backend_unavailable"})
  <2>1. Quiet
    BY <1>1, <1>3, QuietTurn DEF Same
  <2>2. QED
    BY <2>1, QuietKeeps
<1>4. QED
  BY <1>2, <1>3 DEF deliver_status, Answered

\* The call's end is quiet.
LEMMA EndQuiet ==
    ASSUME IInv,
           \/ PerformWrite \/ ReplayWrite \/ AbandonWrite \/ StartMonitor
           \/ finalize_outcome \/ record_audit_event \/ generate_call_summary
    PROVE  Quiet
<1>0. wf \in Memory /\ db \in Rows /\ wf.stage \in Stages
  BY DEF IInv, Good, Memory
<1>1. /\ wf.at \in {"write", "monitor", "finalize", "audit", "summary"}
      /\ lost' \in {lost, lost + 1}
      /\ \/ wf' = wf
         \/ \E at \in {"monitor", "finalize", "audit", "summary", "closed"} :
              wf' = [wf EXCEPT !.at = at]
  BY DEF PerformWrite, ReplayWrite, AbandonWrite, StartMonitor, finalize_outcome,
         record_audit_event, generate_call_summary, Reply, Answered, AfterWrite
<1>2. /\ db'.session = db.session /\ db'.match = db.match /\ db'.miss = db.miss
      /\ db'.otp = db.otp /\ db'.wrong = db.wrong
  BY <1>0 DEF PerformWrite, ReplayWrite, AbandonWrite, StartMonitor, finalize_outcome,
         record_audit_event, generate_call_summary, Rows
<1>3. CASE wf' = wf
  BY <1>1, <1>2, <1>3 DEF Quiet
<1>4. ASSUME NEW at \in {"monitor", "finalize", "audit", "summary", "closed"},
             wf' = [wf EXCEPT !.at = at]
      PROVE  Quiet
  <2>1. Same(wf', wf) /\ wf'.at = at
    BY <1>0, <1>4 DEF Memory, Same
  <2>2. wf.at \notin Pending \union Ended /\ wf'.at \in Closing
    BY <1>1, <2>1 DEF Pending, Ended, Closing
  <2>3. QED
    BY <1>0, <1>1, <1>2, <2>1, <2>2, QuietMove DEF Same
<1>5. QED
  BY <1>1, <1>3, <1>4

LEMMA NextGInv == ASSUME IInv, GInv, [Next]_vars PROVE GInv'
<1>1. CASE UNCHANGED vars
  <2>1. Quiet
    BY <1>1 DEF vars, Quiet
  <2>2. QED
    BY <2>1, QuietKeeps
<1>2. CASE Contact
  BY <1>2, ContactQuiet, SessionGuessed, QuietKeeps DEF Contact
<1>3. CASE Verify
  BY <1>3, ConfirmGuessed, FactorQuiet, CompareGuessed, SendGuessed, AnswerGuessed,
     SaveGuessed, QuietKeeps DEF Verify
<1>4. CASE Conclude
  BY <1>4, DeliverGuessed, DiscloseGuessed, EndQuiet, QuietKeeps DEF Conclude
<1>5. CASE Next
  BY <1>2, <1>3, <1>4, <1>5, SignalQuiet, TimeoutQuiet, WaitQuiet, ConverseGuessed,
     QuietKeeps DEF Next, Work
<1>6. QED
  BY <1>1, <1>5

LEMMA InitGInv == Init => GInv
BY BoundsAssumption DEF Init, GInv, KeptUp, Guessed, NewSession

\* However many replies were lost on the way, the session row tells a process
\* that reads it what the workflow knows while it listens
\* (calls/activities.py update_call_session).
THEOREM SessionRowFollows == Spec => []SessionRowKeepsUp
<1>1. GInv => SessionRowKeepsUp
  BY DEF GInv, KeptUp, SessionRowKeepsUp
<1>2. IInv /\ GInv /\ [Next]_vars => GInv'
  BY NextGInv
<1>3. QED
  BY <1>1, <1>2, InitIInv, NextIInv, InitGInv, PTL DEF Spec

\* Nobody gets in after the last guess allowed, and a lost reply costs the
\* customer a guess but never grants him one (verification/service.py
\* verify_level1, verify_otp).
THEOREM GuessesStayLimited == Spec => []GuessesAreLimited
<1>1. IInv /\ GInv => GuessesAreLimited
  <2> SUFFICES ASSUME IInv, GInv PROVE GuessesAreLimited
    OBVIOUS
  <2>1. wf.level = "L2" => db.otp = "VERIFIED"
    BY DEF IInv, Good, Evidence
  <2>2. QED
    BY <2>1 DEF GInv, Guessed, GuessesAreLimited
<1>2. IInv /\ GInv /\ [Next]_vars => GInv'
  BY NextGInv
<1>3. QED
  BY <1>1, <1>2, InitIInv, NextIInv, InitGInv, PTL DEF Spec

---------------------------------------------------------------------------
(* The business rows: at most one, with a cause on file and a disposition  *)
(* that claims it.                                                         *)

\* The business write is still to come, or will not come.
Unwritten == wf.at \notin {"write"} \union Closing

RInv ==
    /\ Unwritten => db.rows = <<>> /\ ~db.monitor /\ db.claim[1] = "absent"
    /\ wf.at = "write" =>
         /\ ~db.monitor
         /\ db.rows = IF db.claim[1] = "done" THEN <<wf.table>> ELSE <<>>
         /\ Cause(wf.table)
    /\ wf.at = "monitor" => wf.table = "complaint" /\ db.rows = <<"complaint">>
    /\ wf.at \in {"write", "monitor"} => <<wf.table>> \in Backing(DispositionCode)
    /\ wf.at = "finalize" =>
         /\ db.rows \in Backing(DispositionCode)
         /\ db.monitor <=> db.rows = <<"complaint">>
    /\ WritesHaveACause
    /\ OutcomeMatchesRows

\* The business rows and their claims are untouched; what is on file as a
\* cause stays on file.
BooksKept ==
    /\ db'.rows = db.rows
    /\ db'.claim = db.claim
    /\ db'.monitor = db.monitor
    /\ db'.attempt = db.attempt
    /\ db.intents \subseteq db'.intents
    /\ db.audits \subseteq db'.audits

LEMMA CauseStays ==
    ASSUME NEW table, Cause(table),
           db.intents \subseteq db'.intents, db.audits \subseteq db'.audits,
           "backend_unavailable" \in wf.flags => "backend_unavailable" \in wf'.flags
    PROVE  Cause(table)'
BY DEF Cause

\* The dispositions nothing stands behind, and those a row stands behind.
LEMMA EmptyBacking ==
    ASSUME NEW code \in {"NO_ANSWER", "VOICEMAIL", "NETWORK_FAILURE", "WRONG_PARTY",
                         "RIGHT_PARTY_NOT_AVAILABLE", "AUTH_FAILED", "OTP_LOCKED",
                         "CALL_DROPPED_PRE_AUTH", "CALL_DROPPED_POST_AUTH",
                         "SUCCESS_STATUS_AND_QUERY_RESOLVED", "SUCCESS_STATUS_DELIVERED"}
    PROVE  <<>> \in Backing(code)
BY DEF Backing

LEMMA RowBacking ==
    /\ <<"escalation">> \in Backing("SUCCESS_HUMAN_TRANSFER")
    /\ <<"complaint">> \in Backing("SUCCESS_COMPLAINT_REGISTERED")
    /\ <<"action">> \in Backing("SUCCESS_ACTION_CREATED")
    /\ <<"link">> \in Backing("SUCCESS_ACTION_CREATED")
    /\ <<"callback">> \in Backing("CALLBACK_REQUESTED")
    /\ <<"action">> \in Backing("BACKEND_SYSTEM_FAILURE")
    /\ <<"callback">> \in Backing("DTMF_FALLBACK_ACTIVATED")
    /\ <<"escalation">> \in Backing("DTMF_FALLBACK_ACTIVATED")
BY DEF Backing

\* The memory stands still, and no book changes.
LEMMA StillBacked == ASSUME RInv, wf' = wf, BooksKept PROVE RInv'
<1>1. DispositionCode' = DispositionCode /\ (Filed' <=> Filed)
  BY DEF DispositionCode, BooksKept, Filed
<1>2. ASSUME NEW table, Cause(table) PROVE Cause(table)'
  BY <1>2, CauseStays DEF BooksKept
<1>3. WritesHaveACause'
  BY <1>2 DEF RInv, WritesHaveACause, BooksKept
<1>4. OutcomeMatchesRows'
  BY <1>1 DEF RInv, OutcomeMatchesRows, BooksKept
<1>5. wf'.at = "write" => Cause(wf.table)'
  BY <1>2 DEF RInv
<1>6. QED
  BY <1>1, <1>3, <1>4, <1>5 DEF RInv, Unwritten, BooksKept

\* Nothing is written yet: no row to give a cause for, no outcome on file.
LEMMA NothingWritten ==
    ASSUME FInv, RInv, Unwritten, BooksKept
    PROVE  /\ db'.rows = <<>> /\ ~db'.monitor /\ db'.claim[1] = "absent"
           /\ WritesHaveACause' /\ OutcomeMatchesRows'
<1>1. db.rows = <<>> /\ ~db.monitor /\ db.claim[1] = "absent"
  BY DEF RInv
<1>2. ~Filed
  BY DEF FInv, Unwritten, Filing, Closing
<1>3. ~Filed'
  BY <1>2 DEF Filed, BooksKept
<1>4. WritesHaveACause'
  BY <1>1 DEF WritesHaveACause, BooksKept
<1>5. QED
  BY <1>1, <1>3, <1>4 DEF OutcomeMatchesRows, BooksKept

\* The call goes on without a business write.
LEMMA MovesUnwritten ==
    ASSUME FInv, RInv, Unwritten, BooksKept, wf'.at \notin {"write"} \union Closing
    PROVE  RInv'
BY NothingWritten DEF RInv, Unwritten, Closing

\* It turns to its end under a disposition nothing need stand behind.
LEMMA EndsUnwritten ==
    ASSUME FInv, RInv, Unwritten, BooksKept, wf'.at = "finalize",
           <<>> \in Backing(DispositionCode')
    PROVE  RInv'
BY NothingWritten DEF RInv, Unwritten, Closing

\* It turns to a business write, for a cause and for a disposition.
LEMMA TurnsToWrite ==
    ASSUME FInv, RInv, Unwritten, BooksKept, wf \in Memory,
           NEW table, NEW resolution, NEW flags,
           wf' = Writing(wf, table, resolution, flags), Cause(table)',
           <<table>> \in Backing(resolve_disposition("CLOSE", wf.level # "L0", flags))
    PROVE  RInv'
<1>1. wf'.at = "write" /\ wf'.table = table
  BY DEF Writing, Memory
<1>2. <<table>> \in Backing(DispositionCode')
  BY WritingIs
<1>3. QED
  BY <1>1, <1>2, NothingWritten DEF RInv, Unwritten, Closing

\* It turns to its end, by _finalize.
LEMMA TurnsToEndUnwritten ==
    ASSUME FInv, RInv, Unwritten, BooksKept, NEW w \in Memory, w.level = wf.level,
           NEW final, NEW flags, wf' = Ending(w, final, flags),
           <<>> \in Backing(resolve_disposition(final, wf.level # "L0", flags))
    PROVE  RInv'
<1>1. wf'.at = "finalize" /\ <<>> \in Backing(DispositionCode')
  BY EndingIs
<1>2. QED
  BY <1>1, EndsUnwritten

---------------------------------------------------------------------------
(* The actions, one by one.                                                *)

LEMMA SignalBacked ==
    ASSUME RInv, Speak \/ call_dropped \/ dtmf_fallback
    PROVE  RInv'
BY StillBacked DEF BooksKept, Speak, call_dropped, dtmf_fallback

\* After the business write, and when the execution timeout strikes.
LEMMA OverBacked ==
    ASSUME RInv, wf'.at \in {"audit", "summary", "closed", "terminated"},
           wf'.flags = wf.flags, BooksKept
    PROVE  RInv'
<1>1. \A table : Cause(table) => Cause(table)'
  BY CauseStays DEF BooksKept
<1>2. WritesHaveACause'
  BY <1>1 DEF RInv, WritesHaveACause, BooksKept
<1>3. OutcomeMatchesRows'
  BY DEF RInv, OutcomeMatchesRows, Filed, BooksKept
<1>4. wf'.at \in Closing /\ wf'.at \notin {"write", "monitor", "finalize"}
  BY DEF Closing, Ended
<1>5. QED
  BY <1>2, <1>3, <1>4 DEF RInv, Unwritten

LEMMA TimeoutBacked == ASSUME IInv, RInv, ExecutionTimeout PROVE RInv'
<1>1. wf' = [wf EXCEPT !.at = "terminated"] /\ UNCHANGED db /\ wf \in Memory
  BY DEF ExecutionTimeout, IInv, Good
<1>2. wf'.at = "terminated" /\ wf'.flags = wf.flags /\ BooksKept
  BY <1>1 DEF Memory, BooksKept
<1>3. QED
  BY <1>2, OverBacked

LEMMA ContactBacked == ASSUME IInv, FInv, RInv, Contact PROVE RInv'
<1>0. wf \in Memory /\ db \in Rows
  BY DEF IInv, Good
<1>1. CASE create_call_attempt
  <2>1. /\ wf.at = "attempt" /\ db.attempt.disposition = "ABSENT"
        /\ db' = [db EXCEPT !.attempt = NewAttempt]
        /\ wf' = wf \/ wf' = [wf EXCEPT !.at = "classify"]
    BY <1>1 DEF create_call_attempt, Reply
  <2>2. /\ db'.rows = db.rows /\ db'.claim = db.claim /\ db'.monitor = db.monitor
        /\ db'.attempt.disposition = "NONE"
    BY <1>0, <2>1 DEF Rows, NewAttempt
  <2>3. wf'.at \notin {"write"} \union Closing /\ Unwritten
    BY <1>0, <2>1 DEF Memory, Unwritten, Closing, Ended
  <2>4. db.rows = <<>> /\ ~db.monitor /\ db.claim[1] = "absent"
    BY <2>3 DEF RInv
  <2>5. WritesHaveACause' /\ OutcomeMatchesRows'
    BY <2>2, <2>4 DEF WritesHaveACause, OutcomeMatchesRows, Filed
  <2>6. QED
    BY <2>2, <2>3, <2>4, <2>5 DEF RInv, Unwritten, Closing
<1>2. CASE classify_answer
  <2>1. wf.at = "classify" /\ BooksKept /\ Unwritten
    BY <1>2 DEF classify_answer, BooksKept, Unwritten, Closing, Ended
  <2>2. CASE wf' = [wf EXCEPT !.at = "session"]
    <3>1. wf'.at \notin {"write"} \union Closing
      BY <1>0, <2>2 DEF Memory, Closing, Ended
    <3>2. QED
      BY <2>1, <3>1, MovesUnwritten
  <2>3. ASSUME NEW a \in {"NO_ANSWER", "VOICEMAIL", "FAILED"},
               wf' = Ending([wf EXCEPT !.resolution = "CONTACT_NOT_ESTABLISHED"], a, {})
        PROVE  RInv'
    <3> DEFINE w == [wf EXCEPT !.resolution = "CONTACT_NOT_ESTABLISHED"]
    <3>1. w \in Memory /\ w.level = wf.level /\ wf' = Ending(w, a, {})
      BY <1>0, <2>3 DEF Memory, Resolutions
    <3> HIDE DEF w
    <3>2. resolve_disposition(a, wf.level # "L0", {}) = PlainCode(a)
      BY PlainEnd DEF FinalStates
    <3>3. PlainCode(a) \in {"NO_ANSWER", "VOICEMAIL", "NETWORK_FAILURE"}
      BY DEF PlainCode
    <3>4. <<>> \in Backing(resolve_disposition(a, wf.level # "L0", {}))
      BY <3>2, <3>3, EmptyBacking
    <3>5. QED
      BY <2>1, <3>1, <3>4, TurnsToEndUnwritten
  <2>4. QED
    BY <1>2, <2>2, <2>3 DEF classify_answer, Answered
<1>3. CASE create_call_session
  <2>1. /\ wf.at = "session" /\ db' = [db EXCEPT !.session = NewSession]
        /\ wf' = wf \/ wf' = Waiting(wf, "party")
    BY <1>3 DEF create_call_session, Reply
  <2>2. BooksKept
    BY <1>0, <2>1 DEF Rows, BooksKept
  <2>3. wf'.at \notin {"write"} \union Closing /\ Unwritten
    BY <1>0, <2>1 DEF Memory, Waiting, Unwritten, Closing, Ended
  <2>4. QED
    BY <2>2, <2>3, MovesUnwritten
<1>4. QED
  BY <1>1, <1>2, <1>3 DEF Contact

LEMMA WaitBacked == ASSUME IInv, FInv, RInv, Wait PROVE RInv'
<1>0. /\ wf.at = "wait" /\ UNCHANGED db /\ wf \in Memory /\ Unwritten /\ BooksKept
  BY DEF Wait, Dequeue, Keypad, Dropped, Silence, SilenceIn, NothingQueued, Answered,
         IInv, Good, Unwritten, Closing, Ended, BooksKept
<1>1. CASE Dequeue \/ Keypad
  <2>1. \/ wf' = [wf EXCEPT !.at = "note", !.heard = Head(inbox.queue)]
        \/ wf' = [wf EXCEPT !.at = "dtmf_audit"]
    BY <1>1 DEF Dequeue, Keypad, Answered
  <2>2. wf'.at \notin {"write"} \union Closing
    BY <1>0, <2>1 DEF Memory, Closing, Ended
  <2>3. QED
    BY <1>0, <2>2, MovesUnwritten
<1>2. CASE Dropped
  <2> DEFINE flags == {"call_dropped"} \union Delivered
             authenticated == wf.level # "L0"
  <2>1. /\ wf' = Ending(wf, "CLOSE", flags)
        /\ "call_dropped" \in flags /\ authenticated \in BOOLEAN
    BY <1>2 DEF Dropped, Answered
  <2>2. resolve_disposition("CLOSE", authenticated, flags) \in
          {"CALL_DROPPED_POST_AUTH", "CALL_DROPPED_PRE_AUTH"}
    <3> HIDE DEF flags, authenticated
    <3>1. QED
      BY <2>1, DroppedCode
  <2>3. <<>> \in Backing(resolve_disposition("CLOSE", wf.level # "L0", flags))
    BY <2>2, EmptyBacking
  <2> HIDE DEF flags
  <2>4. QED
    BY <1>0, <2>1, <2>3, TurnsToEndUnwritten
<1>3. CASE Silence
  <2>0. wf.stage \in {"party", "auth", "otp", "follow"}
    BY <1>0, Region DEF Memory, Stages
  <2>1. CASE wf.stage = "party"
    <3>1. wf' = Ending(Nobody(wf), "CUSTOMER_UNAVAILABLE", {})
      BY <1>3, <2>1 DEF Silence, SilenceIn, Answered
    <3>2. resolve_disposition("CUSTOMER_UNAVAILABLE", wf.level # "L0", {})
            = "RIGHT_PARTY_NOT_AVAILABLE"
      BY PlainEnd DEF FinalStates, PlainCode
    <3>3. QED
      BY <1>0, <3>1, <3>2, NobodyIs, EmptyBacking, TurnsToEndUnwritten
  <2>2. CASE wf.stage \in {"auth", "otp"}
    <3>1. wf' = Ending(wf, "AUTH_FAILED", {})
      BY <1>3, <2>2 DEF Silence, SilenceIn, Answered
    <3>2. resolve_disposition("AUTH_FAILED", wf.level # "L0", {}) = "AUTH_FAILED"
      BY PlainEnd DEF FinalStates, PlainCode
    <3>3. QED
      BY <1>0, <3>1, <3>2, EmptyBacking, TurnsToEndUnwritten
  <2>3. CASE wf.stage = "follow"
    <3> DEFINE w == [wf EXCEPT !.resolution = "FULLY_RESOLVED_BY_AI"]
    <3>1. wf' = Ending(w, "CLOSE", {"status_delivered"})
      BY <1>3, <2>3 DEF Silence, SilenceIn, Answered, Delivered
    <3>2. w \in Memory /\ w.level = wf.level
      BY <1>0 DEF Memory, Resolutions
    <3> HIDE DEF w
    <3>3. resolve_disposition("CLOSE", wf.level # "L0", {"status_delivered"})
            = "SUCCESS_STATUS_DELIVERED"
      BY ClosedCode DEF Flags
    <3>4. QED
      BY <1>0, <3>1, <3>2, <3>3, EmptyBacking, TurnsToEndUnwritten
  <2>4. QED
    BY <2>0, <2>1, <2>2, <2>3
<1>4. QED
  BY <1>1, <1>2, <1>3 DEF Wait

\* A signal is heard: its intent is on file before the stage turns to it.
LEMMA HeardBooks ==
    ASSUME IInv, NEW stage, NEW intents, Hear(stage, intents)
    PROVE  /\ wf \in Memory /\ wf.at = "note" /\ wf.stage = stage /\ Unwritten /\ BooksKept
           /\ wf.heard.intent \in intents /\ wf.heard.intent \in db'.intents
<1>1. db \in Rows /\ db' = [db EXCEPT !.intents = @ \union {wf.heard.intent}]
  BY DEF Hear, IInv, Good
<1>2. BooksKept /\ db'.intents = db.intents \union {wf.heard.intent}
  BY <1>1 DEF Rows, BooksKept
<1>3. QED
  BY <1>2 DEF Hear, IInv, Good, Unwritten, Closing, Ended

LEMMA EscalationBacked ==
    ASSUME IInv, FInv, RInv, NEW stage, Hear(stage, {"REQUEST_HUMAN"}),
           Answered(Escalating(wf, {}))
    PROVE  RInv'
<1> DEFINE flags == {"human_transferred"}
<1>1. wf \in Memory /\ Unwritten /\ BooksKept /\ "REQUEST_HUMAN" \in db'.intents
  BY HeardBooks
<1>2. wf' = Writing(wf, "escalation", "HUMAN_TRANSFER", flags)
  BY DEF Answered, Escalating
<1>3. /\ flags \in SUBSET Flags /\ "human_transferred" \in flags
      /\ flags \subseteq {"human_transferred", "complaint_created", "action_created",
                          "callback_requested", "status_delivered", "question_resolved"}
  BY DEF Flags
<1>4. Cause("escalation")'
  BY <1>1 DEF Cause
<1> HIDE DEF flags
<1>5. resolve_disposition("CLOSE", wf.level # "L0", flags) = "SUCCESS_HUMAN_TRANSFER"
  BY <1>3, ClosedCode
<1>6. QED
  BY <1>1, <1>2, <1>4, <1>5, RowBacking, TurnsToWrite

\* The stage listens on.
LEMMA ListensBacked ==
    ASSUME IInv, FInv, RInv, NEW stage, NEW intents, Hear(stage, intents),
           Answered(Waiting(wf, stage))
    PROVE  RInv'
<1>1. wf \in Memory /\ Unwritten /\ BooksKept
  BY HeardBooks
<1>2. wf'.at \notin {"write"} \union Closing
  BY <1>1 DEF Answered, Waiting, Memory, Closing, Ended
<1>3. QED
  BY <1>1, <1>2, MovesUnwritten

LEMMA KeypadBacked == ASSUME IInv, FInv, RInv, HandleKeypad PROVE RInv'
<1>1. /\ wf \in Memory /\ db \in Rows /\ Unwritten
      /\ db' = [db EXCEPT !.audits = @ \union {"DTMF_FALLBACK_ACTIVATED"}]
  BY DEF HandleKeypad, IInv, Good, Unwritten, Closing, Ended
<1>2. BooksKept /\ "DTMF_FALLBACK_ACTIVATED" \in db'.audits
  BY <1>1 DEF Rows, BooksKept
<1>3. PICK table \in {"callback", "escalation"} : \E resolution, flags :
        /\ wf' = Writing(wf, table, resolution, flags)
        /\ "dtmf_fallback" \in flags
        /\ flags \subseteq {"dtmf_fallback", "callback_requested", "human_transferred"}
  <2>1. CASE wf' = Writing(wf, "escalation", "HUMAN_TRANSFER",
                           {"dtmf_fallback", "human_transferred"})
    BY <2>1
  <2>2. CASE wf' = Writing(wf, "callback", "CALLBACK_SCHEDULED",
                           {"dtmf_fallback", "callback_requested"})
    BY <2>2
  <2>3. {"dtmf_fallback"} \union {"human_transferred"} = {"dtmf_fallback", "human_transferred"}
    OBVIOUS
  <2>4. QED
    BY <2>1, <2>2, <2>3 DEF HandleKeypad, Answered, Escalating
<1>4. PICK resolution, flags :
        /\ wf' = Writing(wf, table, resolution, flags)
        /\ "dtmf_fallback" \in flags
        /\ flags \subseteq {"dtmf_fallback", "callback_requested", "human_transferred"}
  BY <1>3
<1>5. resolve_disposition("CLOSE", wf.level # "L0", flags) = "DTMF_FALLBACK_ACTIVATED"
  BY <1>4, InterruptedCode
<1>6. Cause(table)'
  BY <1>2 DEF Cause
<1>7. <<table>> \in Backing("DTMF_FALLBACK_ACTIVATED")
  BY RowBacking
<1>8. QED
  BY <1>1, <1>2, <1>4, <1>5, <1>6, <1>7, TurnsToWrite

LEMMA HearPartyBacked == ASSUME IInv, FInv, RInv, HearParty PROVE RInv'
<1>1. ASSUME Hear("party", {"WRONG_PARTY", "CUSTOMER_UNAVAILABLE"}),
             Answered(Ending(Nobody(wf), wf.heard.intent, {}))
      PROVE  RInv'
  <2>1. wf \in Memory /\ Unwritten /\ BooksKept
    BY <1>1, HeardBooks
  <2>2. PICK final \in {"WRONG_PARTY", "CUSTOMER_UNAVAILABLE"} :
          wf' = Ending(Nobody(wf), final, {})
    BY <1>1 DEF Hear, Answered
  <2>3. resolve_disposition(final, wf.level # "L0", {}) = PlainCode(final)
    BY PlainEnd DEF FinalStates
  <2>4. PlainCode(final) \in {"WRONG_PARTY", "RIGHT_PARTY_NOT_AVAILABLE"}
    BY DEF PlainCode
  <2>5. <<>> \in Backing(resolve_disposition(final, wf.level # "L0", {}))
    BY <2>3, <2>4, EmptyBacking
  <2>6. QED
    BY <2>1, <2>2, <2>5, NobodyIs, TurnsToEndUnwritten
<1>2. ASSUME Hear("party", {"CUSTOMER_DRIVING"}),
             Answered(Writing(wf, "callback", "CALLBACK_SCHEDULED", {"callback_requested"}))
      PROVE  RInv'
  <2>1. wf \in Memory /\ Unwritten /\ BooksKept /\ "CUSTOMER_DRIVING" \in db'.intents
    BY <1>2, HeardBooks
  <2>2. resolve_disposition("CLOSE", wf.level # "L0", {"callback_requested"})
          = "CALLBACK_REQUESTED"
    BY ClosedCode DEF Flags
  <2>3. Cause("callback")'
    BY <2>1 DEF Cause
  <2>4. QED
    BY <1>2, <2>1, <2>2, <2>3, RowBacking, TurnsToWrite DEF Answered
<1>3. ASSUME Hear("party", {"RIGHT_PARTY_CONFIRMED"}),
             Answered([wf EXCEPT !.rightParty = "right", !.at = "confirm"])
      PROVE  RInv'
  <2>1. wf \in Memory /\ Unwritten /\ BooksKept
    BY <1>3, HeardBooks
  <2>2. wf'.at \notin {"write"} \union Closing
    BY <1>3, <2>1 DEF Answered, Memory, Closing, Ended
  <2>3. QED
    BY <2>1, <2>2, MovesUnwritten
<1>4. QED
  BY <1>1, <1>2, <1>3, EscalationBacked, ListensBacked DEF HearParty

LEMMA HearAuthBacked == ASSUME IInv, FInv, RInv, HearAuth PROVE RInv'
<1>1. ASSUME NEW intents, Hear("auth", intents), NEW at \in {"send_otp", "verify_level1"},
             wf' = [wf EXCEPT !.at = at]
      PROVE  RInv'
  <2>1. wf \in Memory /\ Unwritten /\ BooksKept
    BY <1>1, HeardBooks
  <2>2. wf'.at \notin {"write"} \union Closing
    BY <1>1, <2>1 DEF Memory, Closing, Ended
  <2>3. QED
    BY <2>1, <2>2, MovesUnwritten
<1>2. QED
  BY <1>1, EscalationBacked, ListensBacked DEF HearAuth, Answered

LEMMA HearOtpBacked == ASSUME IInv, FInv, RInv, HearOtp PROVE RInv'
<1>1. ASSUME Hear("otp", {"OTP_ANSWER"}), NEW l \in OtpLateness,
             Answered([wf EXCEPT !.at = "verify_otp", !.late = l])
      PROVE  RInv'
  <2>1. wf \in Memory /\ Unwritten /\ BooksKept
    BY <1>1, HeardBooks
  <2>2. wf'.at \notin {"write"} \union Closing
    BY <1>1, <2>1 DEF Answered, Memory, Closing, Ended
  <2>3. QED
    BY <2>1, <2>2, MovesUnwritten
<1>2. QED
  BY <1>1, EscalationBacked, ListensBacked DEF HearOtp

LEMMA HearFollowUpBacked == ASSUME IInv, FInv, RInv, HearFollowUp PROVE RInv'
<1>1. ASSUME NEW intents, Hear("follow", intents),
             NEW more \in {{}, {"question_resolved"}},
             wf' = Ending([wf EXCEPT !.resolution = "FULLY_RESOLVED_BY_AI"],
                          "CLOSE", Delivered \union more)
      PROVE  RInv'
  <2> DEFINE w == [wf EXCEPT !.resolution = "FULLY_RESOLVED_BY_AI"]
             flags == Delivered \union more
  <2>1. wf \in Memory /\ Unwritten /\ BooksKept /\ Delivered = {"status_delivered"}
    BY <1>1, HeardBooks DEF Delivered
  <2>2. flags \in {{"status_delivered"}, {"status_delivered", "question_resolved"}}
    BY <1>1, <2>1
  <2>3. w \in Memory /\ w.level = wf.level /\ wf' = Ending(w, "CLOSE", flags)
    BY <1>1, <2>1 DEF Memory, Resolutions
  <2> HIDE DEF w, flags
  <2>4. flags \in SUBSET Flags
        /\ flags \subseteq {"human_transferred", "complaint_created", "action_created",
                            "callback_requested", "status_delivered", "question_resolved"}
    BY <2>2 DEF Flags
  <2>5. resolve_disposition("CLOSE", wf.level # "L0", flags) \in
          {"SUCCESS_STATUS_DELIVERED", "SUCCESS_STATUS_AND_QUERY_RESOLVED"}
    BY <2>2, <2>4, ClosedCode
  <2>6. <<>> \in Backing(resolve_disposition("CLOSE", wf.level # "L0", flags))
    BY <2>5, EmptyBacking
  <2>7. QED
    BY <2>1, <2>3, <2>6, TurnsToEndUnwritten
<1>2. ASSUME NEW intents, Hear("follow", intents), NEW table \in Tables, NEW resolution,
             NEW more, NEW code,
             \/ more = "action_created" /\ code = "SUCCESS_ACTION_CREATED"
             \/ more = "complaint_created" /\ code = "SUCCESS_COMPLAINT_REGISTERED"
             \/ more = "callback_requested" /\ code = "CALLBACK_REQUESTED",
             <<table>> \in Backing(code), Cause(table)',
             wf' = Writing(wf, table, resolution, Delivered \union {more})
      PROVE  RInv'
  <2> DEFINE flags == Delivered \union {more}
  <2>1. /\ wf \in Memory /\ Unwritten /\ BooksKept /\ Delivered = {"status_delivered"}
    BY <1>2, HeardBooks DEF Delivered
  <2>2. /\ flags = {"status_delivered", more}
        /\ wf' = Writing(wf, table, resolution, flags)
    BY <1>2, <2>1
  <2> HIDE DEF flags
  <2>3. flags \in SUBSET Flags
        /\ flags \subseteq {"human_transferred", "complaint_created", "action_created",
                            "callback_requested", "status_delivered", "question_resolved"}
    BY <1>2, <2>2 DEF Flags
  <2>4. resolve_disposition("CLOSE", wf.level # "L0", flags) = code
    BY <1>2, <2>2, <2>3, ClosedCode
  <2>5. QED
    BY <1>2, <2>1, <2>2, <2>4, TurnsToWrite
<1>3. {"action", "link", "complaint", "callback"} \subseteq Tables
  BY DEF Tables
<1>4. ASSUME Hear("follow", ActionIntents),
             Answered(Writing(wf, "action", "ACTION_CREATED", Delivered \union {"action_created"}))
      PROVE  RInv'
  <2>1. Cause("action")'
    BY <1>4, HeardBooks DEF Cause
  <2>2. QED
    BY <1>2, <1>3, <1>4, <2>1, RowBacking DEF Answered
<1>5. ASSUME Hear("follow", {"AI_SEND_SECURE_LINK"}),
             Answered(Writing(wf, "link", "ACTION_CREATED", Delivered \union {"action_created"}))
      PROVE  RInv'
  <2>1. Cause("link")'
    BY <1>5, HeardBooks DEF Cause
  <2>2. QED
    BY <1>2, <1>3, <1>5, <2>1, RowBacking DEF Answered
<1>6. ASSUME Hear("follow", {"COMPLAINT_REQUEST"}),
             Answered(Writing(wf, "complaint", "COMPLAINT_REGISTERED",
                              Delivered \union {"complaint_created"}))
      PROVE  RInv'
  <2>1. Cause("complaint")'
    BY <1>6, HeardBooks DEF Cause
  <2>2. QED
    BY <1>2, <1>3, <1>6, <2>1, RowBacking DEF Answered
<1>7. ASSUME Hear("follow", {"AI_SCHEDULE_CALLBACK"}),
             Answered(Writing(wf, "callback", "CALLBACK_SCHEDULED",
                              Delivered \union {"callback_requested"}))
      PROVE  RInv'
  <2>1. Cause("callback")'
    BY <1>7, HeardBooks DEF Cause
  <2>2. QED
    BY <1>2, <1>3, <1>7, <2>1, RowBacking DEF Answered
<1>8. Delivered = Delivered \union {}
  OBVIOUS
<1>9. QED
  BY <1>1, <1>4, <1>5, <1>6, <1>7, <1>8, EscalationBacked DEF HearFollowUp, Answered

LEMMA VerifyBacked == ASSUME IInv, FInv, RInv, Verify PROVE RInv'
<1>0. wf \in Memory /\ db \in Rows
  BY DEF IInv, Good
<1>1. wf.at \in {"confirm", "factor", "verify_level1", "send_otp", "verify_otp", "save_level"}
  BY DEF Verify, ConfirmParty, get_configured_auth_factor_type, verify_level1, CompareFactor,
         send_otp, verify_otp, SaveLevel
<1>2. Unwritten
  BY <1>1 DEF Unwritten, Closing, Ended
<1>3. BooksKept
  <2>1. CASE ConfirmParty \/ SaveLevel
    BY <1>0, <2>1 DEF ConfirmParty, SaveLevel, Rows, BooksKept
  <2>2. CASE get_configured_auth_factor_type
    BY <2>2 DEF get_configured_auth_factor_type, BooksKept
  <2>3. CASE verify_level1
    BY <1>0, <2>3 DEF verify_level1, CompareFactor, Rows, BooksKept
  <2>4. CASE send_otp
    BY <1>0, <2>4 DEF send_otp, Rows, BooksKept
  <2>5. CASE verify_otp
    <3>1. \/ db' = [db EXCEPT !.otp = "VERIFIED"]
          \/ db' = [db EXCEPT !.wrong = @ + 1,
                       !.otp = IF db.wrong + 1 >= MaxOtpAttempts THEN "LOCKED" ELSE @]
      BY <2>5 DEF verify_otp
    <3>2. QED
      BY <1>0, <3>1 DEF Rows, BooksKept
  <2>6. QED
    BY <2>1, <2>2, <2>3, <2>4, <2>5 DEF Verify
<1>4. \/ wf' = wf
      \/ wf'.at \in {"factor", "wait", "save_level", "deliver"}
      \/ wf' = Ending(wf, "AUTH_FAILED", {})
      \/ wf' = Ending(wf, "CLOSE", {"otp_locked"})
  <2>1. CASE ConfirmParty
    BY <1>0, <2>1 DEF ConfirmParty, Reply, Memory
  <2>2. CASE get_configured_auth_factor_type
    <3>1. PICK f \in FactorOnFile : wf' = Waiting([wf EXCEPT !.factor = f], "auth")
      BY <2>2 DEF get_configured_auth_factor_type, Answered
    <3>2. QED
      BY <1>0, <3>1 DEF Waiting, Memory
  <2>3. CASE verify_level1
    <3>1. \/ wf' = wf
          \/ wf' = [wf EXCEPT !.level = "L1", !.at = "save_level"]
          \/ wf' = Ending(wf, "AUTH_FAILED", {})
          \/ wf' = Waiting(wf, "auth")
      BY <2>3 DEF verify_level1, CompareFactor, Reply
    <3>2. QED
      BY <1>0, <3>1 DEF Waiting, Memory
  <2>4. CASE send_otp
    BY <1>0, <2>4 DEF send_otp, Reply, Waiting, Memory
  <2>5. CASE verify_otp
    <3>1. \/ wf' = wf
          \/ wf' = [wf EXCEPT !.level = "L2", !.at = "save_level"]
          \/ wf' = Ending(wf, "CLOSE", {"otp_locked"})
          \/ wf' = Waiting(wf, "otp")
      BY <2>5 DEF verify_otp, Reply
    <3>2. QED
      BY <1>0, <3>1 DEF Waiting, Memory
  <2>6. CASE SaveLevel
    BY <1>0, <2>6 DEF SaveLevel, Reply, Memory
  <2>7. QED
    BY <2>1, <2>2, <2>3, <2>4, <2>5, <2>6 DEF Verify
<1>5. resolve_disposition("AUTH_FAILED", wf.level # "L0", {}) = "AUTH_FAILED"
  BY PlainEnd DEF FinalStates, PlainCode
<1>6. resolve_disposition("CLOSE", wf.level # "L0", {"otp_locked"}) = "OTP_LOCKED"
  BY InterruptedCode
<1>7. wf'.at \in {"factor", "wait", "save_level", "deliver"} => RInv'
  BY <1>2, <1>3, MovesUnwritten DEF Closing, Ended
<1>8. QED
  BY <1>0, <1>2, <1>3, <1>4, <1>5, <1>6, <1>7, StillBacked, TurnsToEndUnwritten, EmptyBacking

LEMMA DeliverBacked == ASSUME IInv, FInv, RInv, deliver_status PROVE RInv'
<1>0. wf \in Memory /\ wf.at = "deliver" /\ db' = db /\ Unwritten /\ BooksKept
  BY DEF deliver_status, IInv, Good, Unwritten, Closing, Ended, BooksKept
<1>1. ASSUME NEW claim \in ClaimsOnFile,
             wf' = [wf EXCEPT !.delivered = get_disclosable_status(claim, wf.level),
                              !.at = "disclose"]
      PROVE  RInv'
  <2>1. wf'.at \notin {"write"} \union Closing
    BY <1>0, <1>1 DEF Memory, Closing, Ended
  <2>2. QED
    BY <1>0, <2>1, MovesUnwritten
<1>2. CASE wf' = Writing(wf, "action", "BACKEND_SYSTEM_FAILURE", {"backend_unavailable"})
  <2>1. resolve_disposition("CLOSE", wf.level # "L0", {"backend_unavailable"})
          = "BACKEND_SYSTEM_FAILURE"
    BY InterruptedCode
  <2>2. "backend_unavailable" \in wf'.flags
    BY <1>0, <1>2 DEF Writing, Memory
  <2>3. Cause("action")'
    BY <2>2 DEF Cause
  <2>4. QED
    BY <1>0, <1>2, <2>1, <2>3, RowBacking, TurnsToWrite
<1>3. QED
  BY <1>1, <1>2 DEF deliver_status, Answered

LEMMA DiscloseBacked == ASSUME IInv, FInv, RInv, Disclose PROVE RInv'
<1>1. /\ wf \in Memory /\ db \in Rows /\ wf.at = "disclose" /\ Unwritten
      /\ db' = [db EXCEPT !.session.disclosed = TRUE]
      /\ wf' = wf \/ wf' = Waiting(wf, "follow")
  BY DEF Disclose, Reply, IInv, Good, Unwritten, Closing, Ended
<1>2. BooksKept
  BY <1>1 DEF Rows, BooksKept
<1>3. wf'.at \notin {"write"} \union Closing
  BY <1>1 DEF Waiting, Memory, Closing, Ended
<1>4. QED
  BY <1>1, <1>2, <1>3, MovesUnwritten

\* The write is on file; the call goes on to the monitor, or to its filing.
LEMMA WrittenBacked ==
    ASSUME IInv, FInv, RInv, wf.at = "write", wf' = AfterWrite,
           db'.rows = <<wf.table>>, db'.monitor = db.monitor, db'.attempt = db.attempt,
           db'.intents = db.intents, db'.audits = db.audits
    PROVE  RInv'
<1>1. /\ wf \in Memory /\ wf.table \in Tables /\ ~db.monitor /\ Cause(wf.table)
      /\ <<wf.table>> \in Backing(DispositionCode)
  BY DEF IInv, Good, Placed, RInv
<1>2. /\ wf'.at = IF wf.table = "complaint" THEN "monitor" ELSE "finalize"
      /\ wf'.table = wf.table /\ wf'.flags = wf.flags /\ wf'.final = wf.final
      /\ wf'.level = wf.level
  BY <1>1 DEF AfterWrite, Memory
<1>3. DispositionCode' = DispositionCode
  BY <1>2 DEF DispositionCode
<1>4. Cause(wf.table)'
  BY <1>1, <1>2, CauseStays
<1>5. WritesHaveACause'
  <2> SUFFICES ASSUME NEW i \in DOMAIN db'.rows PROVE Cause(db.rows[i])'
    BY DEF WritesHaveACause
  <2>1. db'.rows[i] = wf'.table
    BY <1>2
  <2>2. QED
    BY <1>4, <2>1 DEF Cause
<1>6. ~Filed /\ ~Filed'
  BY DEF FInv, Filing, Ended, Filed
<1>7. OutcomeMatchesRows'
  BY <1>6 DEF OutcomeMatchesRows
<1>8. QED
  BY <1>1, <1>2, <1>3, <1>5, <1>7 DEF RInv, Unwritten, Closing

LEMMA WriteBacked ==
    ASSUME IInv, FInv, RInv, PerformWrite \/ ReplayWrite \/ AbandonWrite
    PROVE  RInv'
<1>0. wf \in Memory /\ db \in Rows /\ wf.at = "write" /\ wf.seq = 1 /\ 1 \in Keys
  BY DEF PerformWrite, ReplayWrite, AbandonWrite, IInv, Good, Placed, Keys
<1>1. CASE PerformWrite
  <2>1. /\ db.claim[1] = "absent"
        /\ db' = [db EXCEPT !.claim[1] = "done", !.rows = Append(@, wf.table)]
        /\ wf' = AfterWrite \/ wf' = wf
    BY <1>0, <1>1 DEF PerformWrite, Reply
  <2>2. db.rows = <<>>
    BY <1>0, <2>1 DEF RInv
  <2>3. /\ db'.rows = <<wf.table>> /\ db'.claim[1] = "done"
        /\ db'.monitor = db.monitor /\ db'.attempt = db.attempt
        /\ db'.intents = db.intents /\ db'.audits = db.audits
    BY <1>0, <2>1, <2>2 DEF Rows
  <2>4. CASE wf' = AfterWrite
    BY <1>0, <2>3, <2>4, WrittenBacked
  <2>5. CASE wf' = wf
    <3>1. Cause(wf.table) /\ <<wf.table>> \in Backing(DispositionCode) /\ ~db.monitor
      BY <1>0 DEF RInv
    <3>2. Cause(wf.table)'
      BY <2>3, <2>5, <3>1, CauseStays
    <3>3. DispositionCode' = DispositionCode
      BY <2>5 DEF DispositionCode
    <3>4. WritesHaveACause'
      <4> SUFFICES ASSUME NEW i \in DOMAIN db'.rows PROVE Cause(db.rows[i])'
        BY DEF WritesHaveACause
      <4>1. db'.rows[i] = wf'.table
        BY <2>3, <2>5
      <4>2. QED
        BY <3>2, <4>1 DEF Cause
    <3>5. ~Filed'
      BY <1>0, <2>3 DEF FInv, Filing, Ended, Filed
    <3>6. QED
      BY <1>0, <2>3, <2>5, <3>1, <3>2, <3>3, <3>4, <3>5
         DEF RInv, Unwritten, OutcomeMatchesRows
  <2>6. QED
    BY <2>1, <2>4, <2>5
<1>2. CASE ReplayWrite
  <2>1. wf' = AfterWrite /\ db' = db /\ db.claim[1] = "done"
    BY <1>0, <1>2 DEF ReplayWrite, Answered
  <2>2. db.rows = <<wf.table>>
    BY <1>0, <2>1 DEF RInv
  <2>3. QED
    BY <1>0, <2>1, <2>2, WrittenBacked
<1>3. CASE AbandonWrite
  <2>1. /\ db.claim[1] = "absent" /\ wf' = wf
        /\ db' = [db EXCEPT !.claim[1] = "pending"]
    BY <1>0, <1>3 DEF AbandonWrite
  <2>2. /\ db'.rows = db.rows /\ db'.claim[1] = "pending" /\ db'.monitor = db.monitor
        /\ db'.attempt = db.attempt /\ db'.intents = db.intents /\ db'.audits = db.audits
    BY <1>0, <2>1 DEF Rows
  <2>3. /\ Cause(wf.table) /\ <<wf.table>> \in Backing(DispositionCode) /\ ~db.monitor
        /\ db.rows = <<>>
    BY <1>0, <2>1 DEF RInv
  <2>4. Cause(wf.table)'
    BY <2>1, <2>2, <2>3, CauseStays
  <2>5. DispositionCode' = DispositionCode
    BY <2>1 DEF DispositionCode
  <2>6. WritesHaveACause'
    BY <2>2, <2>3 DEF WritesHaveACause
  <2>7. ~Filed'
    BY <1>0, <2>2 DEF FInv, Filing, Ended, Filed
  <2>8. QED
    BY <1>0, <2>1, <2>2, <2>3, <2>4, <2>5, <2>6, <2>7
       DEF RInv, Unwritten, OutcomeMatchesRows
<1>4. QED
  BY <1>1, <1>2, <1>3

LEMMA MonitorBacked == ASSUME IInv, FInv, RInv, StartMonitor PROVE RInv'
<1>1. /\ wf \in Memory /\ db \in Rows /\ wf.at = "monitor"
      /\ db' = [db EXCEPT !.monitor = TRUE] /\ wf' = [wf EXCEPT !.at = "finalize"]
  BY DEF StartMonitor, Answered, IInv, Good
<1>2. /\ db'.rows = db.rows /\ db'.monitor = TRUE /\ db'.attempt = db.attempt
      /\ db'.intents = db.intents /\ db'.audits = db.audits
  BY <1>1 DEF Rows
<1>3. /\ wf'.at = "finalize" /\ wf'.flags = wf.flags /\ wf'.final = wf.final
      /\ wf'.level = wf.level
  BY <1>1 DEF Memory
<1>4. DispositionCode' = DispositionCode
  BY <1>3 DEF DispositionCode
<1>5. db.rows = <<"complaint">> /\ db.rows \in Backing(DispositionCode)
  BY <1>1 DEF RInv
<1>6. \A table : Cause(table) => Cause(table)'
  BY <1>2, <1>3, CauseStays
<1>7. WritesHaveACause'
  BY <1>2, <1>6 DEF RInv, WritesHaveACause
<1>8. ~Filed'
  BY <1>1, <1>2 DEF FInv, Filing, Ended, Filed
<1>9. QED
  BY <1>2, <1>3, <1>4, <1>5, <1>7, <1>8 DEF RInv, Unwritten, Closing, OutcomeMatchesRows

\* No disposition that fits how far a call got is the one that means none did.
LEMMA FitsResolved ==
    ASSUME wf \in Memory
    PROVE  "UNRESOLVED" \notin Protocol!Fits
<1>1. wf.rightParty \in {"unknown", "right", "other"}
  BY DEF Memory, Parties
<1>2. QED
  BY <1>1, FitsIn DEF Protocol!NotContacted, Protocol!NotTheParty, Protocol!NotTrusted,
     Protocol!Served

\* The filing: the rows back the disposition that is filed.
LEMMA FilingBacked == ASSUME IInv, FInv, RInv, finalize_outcome PROVE RInv'
<1>1. /\ wf \in Memory /\ db \in Rows /\ wf.at = "finalize"
      /\ db' = [db EXCEPT !.attempt = Outcome]
      /\ wf' = wf \/ wf' = [wf EXCEPT !.at = "audit"]
  BY DEF finalize_outcome, Reply, Outcome, IInv, Good
<1>2. /\ db'.rows = db.rows /\ db'.monitor = db.monitor /\ db'.claim = db.claim
      /\ db'.attempt.disposition = DispositionCode
      /\ db'.intents = db.intents /\ db'.audits = db.audits
  BY <1>1 DEF Rows, Outcome
<1>3. wf'.flags = wf.flags /\ wf'.at \in {"finalize", "audit"}
      /\ DispositionCode' = DispositionCode
  <2>1. wf'.flags = wf.flags /\ wf'.final = wf.final /\ wf'.level = wf.level
        /\ wf'.at \in {"finalize", "audit"}
    BY <1>1 DEF Memory
  <2>2. QED
    BY <2>1 DEF DispositionCode
<1>4. DispositionCode # "UNRESOLVED"
  BY <1>1, FitsResolved DEF FInv, Concluding
<1>5. db.rows \in Backing(DispositionCode) /\ (db.monitor <=> db.rows = <<"complaint">>)
  BY <1>1 DEF RInv
<1>6. OutcomeMatchesRows'
  <2>1. db'.attempt.disposition # "UNRESOLVED"
    BY <1>2, <1>4
  <2>2. db'.rows \in Backing(db'.attempt.disposition)
    BY <1>2, <1>5
  <2>3. Backing(db.attempt.disposition)' = Backing(db'.attempt.disposition)
    BY DEF Backing
  <2>4. QED
    BY <1>2, <1>5, <2>1, <2>2, <2>3 DEF OutcomeMatchesRows
<1>7. \A table : Cause(table) => Cause(table)'
  BY <1>2, <1>3, CauseStays
<1>8. WritesHaveACause'
  BY <1>2, <1>7 DEF RInv, WritesHaveACause
<1>9. QED
  BY <1>2, <1>3, <1>5, <1>6, <1>8 DEF RInv, Unwritten, Closing

LEMMA AfterFilingBacked ==
    ASSUME IInv, RInv, record_audit_event \/ generate_call_summary
    PROVE  RInv'
<1>1. /\ wf \in Memory /\ db \in Rows
      /\ \/ /\ db' = [db EXCEPT !.audits = @ \union {DispositionCode}]
            /\ wf' = [wf EXCEPT !.at = "summary"]
         \/ db' = db /\ wf' = [wf EXCEPT !.at = "closed"]
  BY DEF record_audit_event, generate_call_summary, Answered, IInv, Good
<1>2. BooksKept
  BY <1>1 DEF Rows, BooksKept
<1>3. wf'.at \in {"summary", "closed"} /\ wf'.flags = wf.flags
  BY <1>1 DEF Memory
<1>4. QED
  BY <1>2, <1>3, OverBacked

LEMMA NextRInv == ASSUME IInv, FInv, RInv, [Next]_vars PROVE RInv'
<1>1. CASE UNCHANGED vars
  BY <1>1, StillBacked DEF vars, BooksKept
<1>2. CASE Converse
  BY <1>2, KeypadBacked, HearPartyBacked, HearAuthBacked, HearOtpBacked, HearFollowUpBacked
     DEF Converse
<1>3. CASE Conclude
  BY <1>3, DeliverBacked, DiscloseBacked, WriteBacked, MonitorBacked, FilingBacked,
     AfterFilingBacked DEF Conclude
<1>4. CASE Next
  BY <1>2, <1>3, <1>4, SignalBacked, TimeoutBacked, ContactBacked, WaitBacked, VerifyBacked
     DEF Next, Work
<1>5. QED
  BY <1>1, <1>4

LEMMA InitRInv == Init => RInv
<1> SUFFICES ASSUME Init PROVE RInv
  OBVIOUS
<1>1. /\ wf.at = "attempt" /\ db.rows = <<>> /\ db.monitor = FALSE
      /\ db.claim = [k \in Keys |-> "absent"] /\ db.attempt.disposition = "ABSENT"
  BY DEF Init, NewAttempt
<1>2. db.claim[1] = "absent"
  BY <1>1 DEF Keys
<1>3. QED
  BY <1>1, <1>2 DEF RInv, Unwritten, WritesHaveACause, OutcomeMatchesRows, Filed

\* Once an outcome is recorded, a rule gave its disposition, exactly the one
\* business row it reports is on file, and a registered complaint has its SLA
\* monitor, whatever activity was repeated (calls/workflows.py _finalize,
\* calls/disposition.py, actions/service.py).
THEOREM OutcomeIsBacked == Spec => []OutcomeMatchesRows
<1>1. RInv => OutcomeMatchesRows
  BY DEF RInv
<1>2. IInv /\ FInv /\ [Next]_vars => FInv'
  BY NextKept DEF Kept
<1>3. IInv /\ FInv /\ RInv /\ [Next]_vars => RInv'
  BY NextRInv
<1>4. QED
  BY <1>1, <1>2, <1>3, InitIInv, NextIInv, InitFInv, InitRInv, PTL DEF Spec

\* No business row without a durable record of what asked for it: the intent,
\* the keypad choice, or the backend's failure (calls/workflows.py
\* _record_intent, _handle_dtmf_fallback, _run_status_and_follow_up).
THEOREM WritesAreCaused == Spec => []WritesHaveACause
<1>1. RInv => WritesHaveACause
  BY DEF RInv
<1>2. IInv /\ FInv /\ [Next]_vars => FInv'
  BY NextKept DEF Kept
<1>3. IInv /\ FInv /\ RInv /\ [Next]_vars => RInv'
  BY NextRInv
<1>4. QED
  BY <1>1, <1>2, <1>3, InitIInv, NextIInv, InitFInv, InitRInv, PTL DEF Spec
=============================================================================
