--------------------------- MODULE VoicePipeline ---------------------------
(***************************************************************************)
(* backend/src/voice/pipeline.py: the processors of one live call, and the *)
(* rows they write directly (calls/activities.py, calls/service.py,        *)
(* privacy/service.py).                                                    *)
(*                                                                         *)
(* Every processor is a task of one event loop and handles its frames one  *)
(* by one: the conversation tap the transcriptions, the assistant tap the  *)
(* LLM's responses, the latency tap the audio.  A step is what a handler   *)
(* does between two awaits, with the effect of the second (a commit, a     *)
(* signal).  A keypad press is a system frame, handled at once, beside     *)
(* whatever the conversation tap awaits.  Pipecat is external: it feeds    *)
(* the taps, an interruption cancels a handler at an await, and a handler  *)
(* that raises drops its frame and goes on with the next.                  *)
(***************************************************************************)
EXTENDS Redaction

CONSTANTS
    Utterances,         \* what the customer may be heard to say
    Replies,            \* what the LLM may answer
    InitialLanguage,    \* motor_claim.language
    MAX_CONSECUTIVE_LOW_STT_TURNS,
    MAX_ADVERSARIAL_STREAK,
    Budgets             \* bounds: how many frames (transcriptions, tool calls)
                        \* and how many other steps from outside
                        \* (interruptions, the workflow's) a behaviour has

\* A phrase of an utterance that one of the classifiers knows.
SignalLexicon == <<"DELAY_DISSATISFACTION", "SERVICE_FAILURE", "CUSTOMER_DISPUTE",
                   "NEGATIVE_SENTIMENT">>
Phrases == Range(SignalLexicon) \union {"POSITIVE", "INJECTION"}
Languages == {"en", "ar"}

\* "": the transcription frame names no language.
Utterance == [said: SUBSET Phrases, language: Languages \union {""}, text: Text]

ASSUME UtterancesAssumption ==
    /\ Utterances \subseteq Utterance
    /\ Replies \subseteq Utterance
    /\ \A u \in Utterances \union Replies : Findable(u.text)
ASSUME PipelineAssumption ==
    /\ InitialLanguage \in Languages
    /\ MAX_CONSECUTIVE_LOW_STT_TURNS \in Nat \ {0}
    /\ MAX_ADVERSARIAL_STREAK \in Nat \ {0}
    /\ Budgets \subseteq [frames: Nat, steps: Nat]

VARIABLES
    ctx,        \* CallPipelineContext
    keypad,     \* dtmf.py's counter of this call, and _fallback_pending
    task,       \* the handler each transcribing tap is in
    sample,     \* the turn whose latency sample is being recorded, if any
    db,         \* the rows the pipeline has written
    signals,    \* how many signals of each kind reached the workflow
    open,       \* does the workflow still run?
    line,       \* the frames between the taps, and what was heard
    budget      \* what is left of the bounds

pipelineVars == <<ctx, keypad, task, sample, db, signals, open, line, budget>>

Writers == {"tap", "assistant"}
Places == {"idle", "audit", "streak", "turn", "reply", "store", "log", "mark",
           "feel", "tell", "push"}
Silence == [said |-> {}, language |-> "",
            text |-> [len |-> 0, found |-> <<>>, entities |-> <<>>]]

\* A call_transcript row; about: the question it asks or answers (a ghost).
Turn == [turn_index: Nat, speaker: {"CUSTOMER", "AI"}, about: Nat,
         redacted_text: Seq(Piece)]
NoTurn == [turn_index |-> 0, speaker |-> "AI", redacted_text |-> <<>>, about |-> 0]

Handler == [at: Places, heard: Utterance, about: Nat, row: Turn, detections: Seq(Categories)]
Handling(place, u, about) ==
    [at |-> place, heard |-> u, about |-> about, row |-> NoTurn, detections |-> <<>>]
Idle == Handling("idle", Silence, 0)

\* What reaches the workflow: the keypad's choice, human_request_detected for an
\* adversarial streak or a transfer tool, an intent of the tap or of a tool.
Kinds == {"CALLBACK", "HUMAN", "adversarial", "transfer", "DISSATISFIED", "intent"}

PipelineTypeOK ==
    /\ ctx \in [language: Languages, turn_index: Nat, adversarial_streak: Nat,
                pending: SUBSET Nat]
    /\ Cardinality(ctx.pending) <= 1
    /\ keypad \in [low: 0 .. MAX_CONSECUTIVE_LOW_STT_TURNS - 1, fallback: BOOLEAN]
    /\ task \in [Writers -> Handler]
    /\ sample \in SUBSET Nat
    /\ db \in [turns: SUBSET Turn, events: SUBSET [turn: Nat, category: Categories],
               moods: Seq([turn: Nat, sentiment: {"POSITIVE", "NEUTRAL", "NEGATIVE"},
                           signal: Range(SignalLexicon) \union {"NONE"}]),
               samples: Seq(Nat), tagged: Nat]
    /\ signals \in [Kinds -> Nat]
    /\ open \in BOOLEAN
    /\ line \in [heard: Nat, passed: Nat, due: BOOLEAN, voiced: BOOLEAN, prompts: Nat,
                 cut: SUBSET Nat]
    /\ budget \in [frames: Nat, steps: Nat]

PipelineInit ==
    /\ ctx = [language |-> InitialLanguage, turn_index |-> 0, adversarial_streak |-> 0,
              pending |-> {}]
    /\ keypad = [low |-> 0, fallback |-> FALSE]
    /\ task = [w \in Writers |-> Idle]
    /\ sample = {}
    /\ db = [turns |-> {}, events |-> {}, moods |-> <<>>, samples |-> <<>>, tagged |-> 0]
    /\ signals = [k \in Kinds |-> 0]
    /\ open = TRUE
    /\ line = [heard |-> 0, passed |-> 0, due |-> FALSE, voiced |-> FALSE, prompts |-> 0,
               cut |-> {}]
    /\ budget \in Budgets

-----------------------------------------------------------------------------
\* The classifiers: the first lexicon, in order, with a phrase the customer said.
classify_adversarial(said) == "INJECTION" \in said

classify_sentiment(said) ==
    LET hits == {i \in DOMAIN SignalLexicon : SignalLexicon[i] \in said}
        first == CHOOSE i \in hits : \A j \in hits : i <= j
    IN  CASE hits # {} -> [sentiment |-> "NEGATIVE", signal |-> SignalLexicon[first]]
          [] hits = {} /\ "POSITIVE" \in said -> [sentiment |-> "POSITIVE", signal |-> "NONE"]
          [] OTHER -> [sentiment |-> "NEUTRAL", signal |-> "NONE"]

resolve_dtmf_action(digit) == IF digit = "1" THEN "CALLBACK" ELSE "HUMAN"

SpendFrame == budget.frames > 0 /\ budget' = [budget EXCEPT !.frames = @ - 1]
SpendStep == budget.steps > 0 /\ budget' = [budget EXCEPT !.steps = @ - 1]

Goto(w, place) == task' = [task EXCEPT ![w].at = place]

\* A signal is accepted by a running workflow only; otherwise the await raises and
\* the frame goes no further.
Tell(w, kind, place) ==
    IF open
    THEN signals' = [signals EXCEPT ![kind] = @ + 1] /\ Goto(w, place)
    ELSE task' = [task EXCEPT ![w] = Idle] /\ UNCHANGED signals

-----------------------------------------------------------------------------
\* _ConversationTapProcessor, from the frame to the push.

\* Mutant for AnswersFollowQuestions: the frame is pushed before it is handled.
HearPushingFirst(u) ==
    /\ task["tap"].at = "idle"
    /\ SpendFrame
    /\ keypad' = [keypad EXCEPT !.low = 0]
    /\ ctx' = [ctx EXCEPT !.language = IF u.language = "" THEN @ ELSE u.language]
    /\ task' = [task EXCEPT !["tap"] = Handling("turn", u, line.heard + 1)]
    /\ line' = [line EXCEPT !.heard = @ + 1, !.passed = @ + 1, !.due = TRUE]
    /\ UNCHANGED <<sample, db, signals, open>>

\* A transcription with text: reset_counter, the language, the system prompt.  The
\* copy of the language in call_session is left out: nothing here reads it.
Hear(u) ==
    /\ task["tap"].at = "idle"
    /\ SpendFrame
    /\ keypad' = [keypad EXCEPT !.low = 0]
    /\ ctx' = [ctx EXCEPT !.language = IF u.language = "" THEN @ ELSE u.language]
    /\ task' = [task EXCEPT !["tap"] =
                   Handling(IF classify_adversarial(u.said) THEN "audit" ELSE "turn", u,
                            line.heard + 1)]
    /\ line' = [line EXCEPT !.heard = @ + 1]
    /\ UNCHANGED <<sample, db, signals, open>>

TagAdversarial ==
    /\ task["tap"].at = "audit"
    /\ db' = [db EXCEPT !.tagged = @ + 1]
    /\ Goto("tap", "streak")
    /\ UNCHANGED <<ctx, keypad, sample, signals, open, line, budget>>

\* Mutant for SignalsAreEarned: one injection too early.
IsPersistentEarly(streak) == streak + 1 >= MAX_ADVERSARIAL_STREAK

IsPersistent(streak) == streak >= MAX_ADVERSARIAL_STREAK

CountStreak ==
    /\ task["tap"].at = "streak"
    /\ ctx' = [ctx EXCEPT !.adversarial_streak = @ + 1]
    /\ IF IsPersistent(ctx'.adversarial_streak)
       THEN Tell("tap", "adversarial", "turn")
       ELSE Goto("tap", "turn") /\ UNCHANGED signals
    /\ UNCHANGED <<keypad, sample, db, open, line, budget>>

\* Mutant for OneTurnPerIndex: a counter per speaker.
NextIndexOfSpeaker(speaker) == Cardinality({r \in db.turns : r.speaker = speaker})

\* One counter for both speakers.
NextIndex(speaker) == ctx.turn_index

\* The index is taken and the text redacted before the first await of the insert.
Redacted(speaker, u, about) ==
    LET result == redact(u.text, ctx.language)
    IN  [at |-> "store", heard |-> u, about |-> about,
         row |-> [turn_index |-> NextIndex(speaker), speaker |-> speaker,
                  redacted_text |-> result.text, about |-> about],
         detections |-> result.detections]

TakeIndex == ctx' = [ctx EXCEPT !.turn_index = @ + 1]

TakeTurn ==
    /\ task["tap"].at = "turn"
    /\ task' = [task EXCEPT !["tap"] =
                   Redacted("CUSTOMER", task["tap"].heard, task["tap"].about)]
    /\ TakeIndex
    /\ UNCHANGED <<keypad, sample, db, signals, open, line, budget>>

\* persist_transcript_turn: the row, then one idempotent event per category.
Persisted(w) == IF w = "tap" THEN "mark" ELSE "push"

StoreTurn(w) ==
    /\ task[w].at = "store"
    /\ IF \E r \in db.turns : r.turn_index = task[w].row.turn_index
                              /\ r.speaker = task[w].row.speaker
       THEN task' = [task EXCEPT ![w] = Idle] /\ UNCHANGED db   \* IntegrityError
       ELSE /\ db' = [db EXCEPT !.turns = @ \union {task[w].row}]
            /\ Goto(w, IF task[w].detections = <<>> THEN Persisted(w) ELSE "log")
    /\ UNCHANGED <<ctx, keypad, sample, signals, open, line, budget>>

\* Mutant for EventsMatchMarkers: the first category stands for all.
LogFirstRedaction(w) ==
    /\ task[w].at = "log"
    /\ db' = [db EXCEPT !.events =
                 @ \union {[turn |-> task[w].row.turn_index, category |-> Head(task[w].detections)]}]
    /\ Goto(w, Persisted(w))
    /\ UNCHANGED <<ctx, keypad, sample, signals, open, line, budget>>

LogRedaction(w) ==
    /\ task[w].at = "log"
    /\ db' = [db EXCEPT !.events =
                 @ \union {[turn |-> task[w].row.turn_index, category |-> Head(task[w].detections)]}]
    /\ task' = [task EXCEPT ![w].detections = Tail(@),
                            ![w].at = IF Len(task[w].detections) = 1 THEN Persisted(w) ELSE "log"]
    /\ UNCHANGED <<ctx, keypad, sample, signals, open, line, budget>>

\* end_of_speech_at and pending_latency_turn_index.
MarkSpeech ==
    /\ task["tap"].at = "mark"
    /\ ctx' = [ctx EXCEPT !.pending = {task["tap"].row.turn_index}]
    /\ Goto("tap", "feel")
    /\ UNCHANGED <<keypad, sample, db, signals, open, line, budget>>

Mood(h) == [turn |-> h.row.turn_index, sentiment |-> classify_sentiment(h.heard.said).sentiment,
            signal |-> classify_sentiment(h.heard.said).signal]

\* Mutant for DissatisfactionOnFile: what is signalled is not recorded.
RecordSentimentOrSignal ==
    /\ task["tap"].at = "feel"
    /\ IF Mood(task["tap"]).signal = "DELAY_DISSATISFACTION"
       THEN Goto("tap", "tell") /\ UNCHANGED db
       ELSE Goto("tap", "push") /\ db' = [db EXCEPT !.moods = Append(@, Mood(task["tap"]))]
    /\ UNCHANGED <<ctx, keypad, sample, signals, open, line, budget>>

RecordSentiment ==
    /\ task["tap"].at = "feel"
    /\ db' = [db EXCEPT !.moods = Append(@, Mood(task["tap"]))]
    /\ Goto("tap", IF Mood(task["tap"]).signal = "DELAY_DISSATISFACTION" THEN "tell" ELSE "push")
    /\ UNCHANGED <<ctx, keypad, sample, signals, open, line, budget>>

SignalDissatisfied ==
    /\ task["tap"].at = "tell"
    /\ Tell("tap", "DISSATISFIED", "push")
    /\ UNCHANGED <<ctx, keypad, sample, db, open, line, budget>>

\* The transcription reaches the LLM's context, and the LLM owes an answer.
PassOn ==
    /\ task["tap"].at = "push"
    /\ line' = [line EXCEPT !.passed = task["tap"].about, !.due = TRUE]
    /\ task' = [task EXCEPT !["tap"] = Idle]
    /\ UNCHANGED <<ctx, keypad, sample, db, signals, open, budget>>

\* Mutant for TypeOK: one turn too late.
HearNothingOnceMore ==
    /\ task["tap"].at = "idle"
    /\ SpendFrame
    /\ IF keypad.low < MAX_CONSECUTIVE_LOW_STT_TURNS
       THEN keypad' = [keypad EXCEPT !.low = @ + 1] /\ UNCHANGED line
       ELSE /\ keypad' = [low |-> 0, fallback |-> TRUE]
            /\ line' = [line EXCEPT !.prompts = @ + 1, !.voiced = TRUE]
    /\ UNCHANGED <<ctx, task, sample, db, signals, open>>

\* A transcription without text: register_low_confidence_turn, and the prompt.
HearNothing ==
    /\ task["tap"].at = "idle"
    /\ SpendFrame
    /\ IF keypad.low + 1 < MAX_CONSECUTIVE_LOW_STT_TURNS
       THEN keypad' = [keypad EXCEPT !.low = @ + 1] /\ UNCHANGED line
       ELSE /\ keypad' = [low |-> 0, fallback |-> TRUE]
            /\ line' = [line EXCEPT !.prompts = @ + 1, !.voiced = TRUE]
    /\ UNCHANGED <<ctx, task, sample, db, signals, open>>

\* InputDTMFFrame with a pending fallback; without one the frame passes through.
Press(digit) ==
    /\ keypad.fallback
    /\ keypad' = [keypad EXCEPT !.fallback = FALSE]
    /\ signals' = IF open THEN [signals EXCEPT ![resolve_dtmf_action(digit)] = @ + 1] ELSE signals
    /\ UNCHANGED <<ctx, task, sample, db, open, line, budget>>

-----------------------------------------------------------------------------
\* _AssistantTranscriptTap.

StartReply ==
    /\ task["assistant"].at = "idle"
    /\ line.due
    /\ task' = [task EXCEPT !["assistant"] = Handling("reply", Silence, line.passed)]
    /\ line' = [line EXCEPT !.due = FALSE, !.voiced = TRUE]
    /\ UNCHANGED <<ctx, keypad, sample, db, signals, open, budget>>

EndReply(u) ==
    /\ task["assistant"].at = "reply"
    /\ task' = [task EXCEPT !["assistant"] =
                   Redacted("AI", u, task["assistant"].about)]
    /\ TakeIndex
    /\ UNCHANGED <<keypad, sample, db, signals, open, line, budget>>

\* Blank text, or the row and its events are written.
FinishReply ==
    /\ task["assistant"].at \in {"reply", "push"}
    /\ task' = [task EXCEPT !["assistant"] = Idle]
    /\ UNCHANGED <<ctx, keypad, sample, db, signals, open, line, budget>>

\* An interruption cancels the handler wherever it awaits; cut remembers a turn
\* whose redaction events it cost.
Cancel(w) ==
    /\ task[w].at # "idle"
    /\ SpendStep
    /\ line' = IF task[w].at = "log"
               THEN [line EXCEPT !.cut = @ \union {task[w].row.turn_index}] ELSE line
    /\ task' = [task EXCEPT ![w] = Idle]
    /\ UNCHANGED <<ctx, keypad, sample, db, signals, open>>

-----------------------------------------------------------------------------
\* _LatencyTapProcessor: any audio, of a reply or of the keypad prompt.

\* Mutant for SamplesMeasureTurns: the marks are left standing.
AudioKeepsMark ==
    /\ line.voiced
    /\ sample = {}
    /\ ctx.pending # {}
    /\ sample' = ctx.pending
    /\ UNCHANGED <<ctx, keypad, task, db, signals, open, line, budget>>

Audio ==
    /\ line.voiced
    /\ sample = {}
    /\ ctx.pending # {}
    /\ sample' = ctx.pending
    /\ ctx' = [ctx EXCEPT !.pending = {}]
    /\ UNCHANGED <<keypad, task, db, signals, open, line, budget>>

RecordSample ==
    /\ sample # {}
    /\ db' = [db EXCEPT !.samples = Append(@, CHOOSE t \in sample : TRUE)]
    /\ sample' = {}
    /\ UNCHANGED <<ctx, keypad, task, signals, open, line, budget>>

CancelSample ==
    /\ sample # {}
    /\ sample' = {}
    /\ UNCHANGED <<ctx, keypad, task, db, signals, open, line, budget>>

-----------------------------------------------------------------------------
TapNext ==
    \/ \E u \in Utterances : Hear(u)
    \/ TagAdversarial \/ CountStreak \/ TakeTurn \/ MarkSpeech \/ RecordSentiment
    \/ SignalDissatisfied \/ PassOn \/ HearNothing
    \/ \E digit \in {"1", "2"} : Press(digit)

AssistantNext ==
    \/ StartReply \/ FinishReply
    \/ \E u \in Replies : EndReply(u)

PipelineNext ==
    \/ TapNext
    \/ AssistantNext
    \/ \E w \in Writers : StoreTurn(w) \/ LogRedaction(w) \/ Cancel(w)
    \/ Audio \/ RecordSample \/ CancelSample

PipelineSpec == PipelineInit /\ [][PipelineNext]_pipelineVars

-----------------------------------------------------------------------------
\* Both taps persist turns, interrupted anywhere, from one counter: no two rows of a
\* call have the same turn_index (calls/models.py's docstring relies on it).
OneTurnPerIndex ==
    \A r, s \in db.turns : r.turn_index = s.turn_index => r = s

\* A transcript read by turn_index shows what the customer said before every answer
\* to it, and never the other way round.
AnswersFollowQuestions ==
    \A c, a \in db.turns :
        c.speaker = "CUSTOMER" /\ a.speaker = "AI" /\ c.about <= a.about =>
            c.turn_index < a.turn_index

\* The redaction log and the transcript agree, though each event is a commit of its
\* own: an event's turn is on file with the marker it reports, and a marker without
\* an event is about to be logged or was cut off by an interruption.
Marked(r) == {r.redacted_text[k].mark : k \in DOMAIN r.redacted_text} \ {"NONE"}
Logging(r, c) ==
    \E w \in Writers :
        /\ task[w].at = "log"
        /\ task[w].row = r
        /\ c \in Range(task[w].detections)
EventsMatchMarkers ==
    /\ \A e \in db.events :
          \E r \in db.turns : r.turn_index = e.turn /\ e.category \in Marked(r)
    /\ \A r \in db.turns : \A c \in Marked(r) :
          \/ [turn |-> r.turn_index, category |-> c] \in db.events
          \/ Logging(r, c)
          \/ r.turn_index \in line.cut

\* However presses, prompts and transcriptions interleave, the workflow is told a
\* keypad choice at most once for every prompt played.
KeypadAnswersThePrompt == signals["CALLBACK"] + signals["HUMAN"] <= line.prompts

\* The guard escalates on what is on file: the first time after
\* MAX_ADVERSARIAL_STREAK audited injections, then at most once for each further one.
EscalationIsEarned ==
    signals["adversarial"] > 0 =>
        signals["adversarial"] + MAX_ADVERSARIAL_STREAK - 1 <= db.tagged

\* What the keypad and the guard signal, the call has given cause for.
SignalsAreEarned == KeypadAnswersThePrompt /\ EscalationIsEarned

\* Behind every DISSATISFIED the tap signals is a sentiment row that says so, and
\* behind every sentiment row the customer's turn it was read from.
DissatisfactionOnFile ==
    /\ signals["DISSATISFIED"] <=
          Cardinality({i \in DOMAIN db.moods : db.moods[i].signal = "DELAY_DISSATISFACTION"})
    /\ \A i \in DOMAIN db.moods :
          \E r \in db.turns : r.speaker = "CUSTOMER" /\ r.turn_index = db.moods[i].turn

\* The latency tap reads two fields the conversation tap writes, across an await: a
\* customer's turn is measured at most once, and turns in their order.
SamplesMeasureTurns ==
    /\ \A i \in DOMAIN db.samples :
          \E r \in db.turns : r.speaker = "CUSTOMER" /\ r.turn_index = db.samples[i]
    /\ \A i \in 1 .. Len(db.samples) - 1 : db.samples[i] < db.samples[i + 1]
=============================================================================
