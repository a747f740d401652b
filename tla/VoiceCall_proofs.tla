-------------------------- MODULE VoiceCall_proofs --------------------------
(***************************************************************************)
(* Proofs about a live call: what its taps write, signal and read, however *)
(* their handlers interleave, are interrupted or raise, and whatever the   *)
(* LLM's tools and the workflow do beside them.                            *)
(*                                                                         *)
(* The inductive invariant is one part for each thing the handlers share:  *)
(* the turn counter and the order of the rows (Indexed), the keypad and    *)
(* the guard (Earned), the moods (Felt), the latency samples (Measured),   *)
(* the redaction log (Spoken, Logged), and, for the tools and the summary, *)
(* Trusted and Summed.                                                     *)
(***************************************************************************)
EXTENDS VoiceCall, Redaction_proofs

\* The handlers, and where each has its row on file.
tap == task["tap"]
assistant == task["assistant"]
SpeakerOf(w) == IF w = "tap" THEN "CUSTOMER" ELSE "AI"
Filed == {"log", "mark", "feel", "tell", "push"}

CustomerTurns == {r.turn_index : r \in {s \in db.turns : s.speaker = "CUSTOMER"}}

\* Every index is taken once, by a row on file or the one handler that holds it; a
\* question is heard before it is passed on, and passed on before it is answered.
Indexed ==
    /\ \A r \in db.turns : r.turn_index < ctx.turn_index
    /\ \A r, s \in db.turns : r.turn_index = s.turn_index => r = s
    /\ \A w \in Writers : task[w].at = "store" =>
          /\ task[w].row.turn_index < ctx.turn_index
          /\ task[w].row.speaker = SpeakerOf(w)
          /\ \A r \in db.turns : r.turn_index # task[w].row.turn_index
    /\ tap.at = "store" /\ assistant.at = "store" =>
          tap.row.turn_index # assistant.row.turn_index
    /\ tap.at \in Filed => tap.row \in db.turns /\ tap.row.speaker = "CUSTOMER"

Asked == {r \in db.turns : r.speaker = "CUSTOMER"}
             \union {r \in {tap.row} : tap.at = "store"}
Given == {r \in db.turns : r.speaker = "AI"}
             \union {r \in {assistant.row} : assistant.at = "store"}

Ordered ==
    /\ line.passed <= line.heard
    /\ tap.at # "idle" => tap.about = line.heard /\ line.passed < line.heard
    /\ tap.at = "store" => tap.row.about = line.heard
    /\ assistant.at # "idle" => assistant.about <= line.passed
    /\ \A a \in Given : a.about <= line.passed
    /\ \A c \in Asked, a \in Given : c.about <= a.about => c.turn_index < a.turn_index

\* A prompt is answered once, and the streak counts what was audited.
Earned ==
    /\ signals["CALLBACK"] + signals["HUMAN"] + (IF keypad.fallback THEN 1 ELSE 0)
         <= line.prompts
    /\ ctx.adversarial_streak + (IF tap.at = "streak" THEN 1 ELSE 0) <= db.tagged
    /\ signals["adversarial"] > 0 =>
         signals["adversarial"] + MAX_ADVERSARIAL_STREAK - 1 <= ctx.adversarial_streak

\* The moods are those of customer's turns, in their order, and a signal follows one.
Upset == {i \in DOMAIN db.moods : db.moods[i].signal = "DELAY_DISSATISFACTION"}
Felt ==
    /\ signals["DISSATISFIED"] + (IF tap.at = "tell" THEN 1 ELSE 0) <= Cardinality(Upset)
    /\ \A i \in DOMAIN db.moods : db.moods[i].turn \in CustomerTurns
    /\ \A i, j \in DOMAIN db.moods : i < j => db.moods[i].turn < db.moods[j].turn
    /\ tap.at \in {"store", "log", "mark", "feel"} =>
          \A i \in DOMAIN db.moods : db.moods[i].turn < tap.row.turn_index

\* The turns measured are the customer's, and come before the turn being measured,
\* the turn marked, and the turn about to be.
Measured ==
    /\ ctx.pending \union sample \subseteq CustomerTurns
    /\ \A i \in DOMAIN db.samples : db.samples[i] \in CustomerTurns
    /\ \A i, j \in DOMAIN db.samples : i < j => db.samples[i] < db.samples[j]
    /\ \A i \in DOMAIN db.samples, t \in ctx.pending \union sample : db.samples[i] < t
    /\ \A s \in sample, t \in ctx.pending : s < t
    /\ tap.at \in {"store", "log", "mark"} =>
          /\ \A i \in DOMAIN db.samples : db.samples[i] < tap.row.turn_index
          /\ \A t \in ctx.pending \union sample : t < tap.row.turn_index

\* What a tool goes by, and has told, the run it asked was verified for.
Backed(run, level) ==
    /\ run \in DOMAIN levels
    /\ level \in {"L1", "L2"}
    /\ LevelRank[level] <= LevelRank[levels[run]]
Trusted ==
    /\ tool.at = "read" => Backed(tool.run, tool.level)
    /\ \A a \in told : Backed(a.run, a.level) /\ (a.status = "FINANCIAL_AMOUNT" => a.level = "L2")

\* A final sentiment was the last one when it was read.
Summed ==
    /\ summary.since <= Len(db.moods)
    /\ summary.at \in {"none", "read"} => summary.sentiment = "NONE"
    /\ summary.sentiment # "NONE" =>
          \E i \in DOMAIN db.moods :
              i >= summary.since /\ db.moods[i].sentiment = summary.sentiment

\* What a row's text is made from was said (of what is said, what redact() finds is
\* what a detector can find), and a handler that logs has markers of its row left.
Said == {"audit", "streak", "turn"}
Spoken == tap.at \in Said => tap.heard \in Utterances
Logged ==
    /\ EventsMatchMarkers
    /\ \A w \in Writers : task[w].at = "store" =>
          Range(task[w].detections) = Marked(task[w].row)
    /\ \A w \in Writers : task[w].at = "log" =>
          /\ task[w].row \in db.turns
          /\ task[w].detections # <<>>
          /\ Range(task[w].detections) \subseteq Marked(task[w].row)

---------------------------------------------------------------------------
(* The types.                                                              *)

Sentiments == {"POSITIVE", "NEUTRAL", "NEGATIVE"}
MoodRow == [turn: Nat, sentiment: Sentiments, signal: Range(SignalLexicon) \union {"NONE"}]

IsHandler(h) ==
    /\ h = [at |-> h.at, heard |-> h.heard, about |-> h.about, row |-> h.row,
            detections |-> h.detections]
    /\ h.at \in Places
    /\ h.heard \in Utterance
    /\ h.about \in Nat
    /\ h.row \in Turn
    /\ h.detections \in Seq(Categories)

IsTask ==
    /\ task = [w \in Writers |-> task[w]]
    /\ \A w \in Writers : IsHandler(task[w])

IsDb ==
    /\ db = [turns |-> db.turns, events |-> db.events, moods |-> db.moods,
             samples |-> db.samples, tagged |-> db.tagged]
    /\ db.turns \subseteq Turn
    /\ db.events \subseteq [turn: Nat, category: Categories]
    /\ db.moods \in Seq(MoodRow)
    /\ db.samples \in Seq(Nat)
    /\ db.tagged \in Nat

IsCtx ==
    /\ ctx \in [language: Languages, turn_index: Nat, adversarial_streak: Nat,
                pending: SUBSET Nat]
    /\ \A s, t \in ctx.pending : s = t
IsKeypad == keypad \in [low: 0 .. MAX_CONSECUTIVE_LOW_STT_TURNS - 1, fallback: BOOLEAN]
IsLine == line \in [heard: Nat, passed: Nat, due: BOOLEAN, voiced: BOOLEAN, prompts: Nat,
                    cut: SUBSET Nat]
IsBudget == budget \in [frames: Nat, steps: Nat]
IsSignals == signals \in [Kinds -> Nat]
IsLevels == levels \in Seq(Levels) /\ Len(levels) \in 1 .. MaxRuns

\* The claim is asked for with a tool that reads it, and read for a run.
IsTool ==
    /\ tool \in ToolCall
    /\ tool.at \in {"query", "read"} => tool.name \in ReadTools
    /\ tool.at = "read" => tool.run \in 1 .. MaxRuns

Shape ==
    /\ IsCtx /\ IsKeypad /\ IsTask /\ IsDb /\ IsSignals /\ IsLine /\ IsBudget
    /\ sample \in SUBSET Nat
    /\ open \in BOOLEAN
    /\ IsTool
    /\ IsLevels
    /\ told \subseteq Answer
    /\ summary \in Summary

---------------------------------------------------------------------------
(* What a step leaves alone, part by part.                                 *)

\* w's handler keeps its row, if it is still at one of the places.
Keeps(w, places) ==
    task'[w].at \in places => task[w].at \in places /\ task'[w].row = task[w].row
Others(w) == \A v \in Writers \ {w} : task'[v] = task[v]

RowsQuiet ==
    /\ db'.turns = db.turns
    /\ ctx'.turn_index = ctx.turn_index
    /\ \A w \in Writers : Keeps(w, {"store"})
    /\ Keeps("tap", Filed)

OrderQuiet ==
    /\ line'.heard = line.heard /\ line'.passed = line.passed
    /\ \A w \in Writers : task'[w].at # "idle" =>
          task[w].at # "idle" /\ task'[w].about = task[w].about

CauseQuiet ==
    /\ \A k \in {"CALLBACK", "HUMAN", "adversarial"} : signals'[k] = signals[k]
    /\ keypad'.fallback = keypad.fallback
    /\ line'.prompts = line.prompts
    /\ ctx'.adversarial_streak = ctx.adversarial_streak
    /\ db'.tagged = db.tagged
    /\ tap'.at = "streak" => tap.at = "streak"

MoodQuiet ==
    /\ signals'["DISSATISFIED"] = signals["DISSATISFIED"]
    /\ db'.moods = db.moods
    /\ db.turns \subseteq db'.turns
    /\ tap'.at = "tell" => tap.at = "tell"
    /\ Keeps("tap", {"store", "log", "mark", "feel"})

SampleQuiet ==
    /\ ctx'.pending = ctx.pending
    /\ sample' = sample
    /\ db'.samples = db.samples
    /\ db.turns \subseteq db'.turns
    /\ Keeps("tap", {"store", "log", "mark"})

ToolQuiet == UNCHANGED <<tool, levels, told>>
SumQuiet == summary' = summary /\ db'.moods = db.moods

AllQuiet ==
    RowsQuiet /\ OrderQuiet /\ CauseQuiet /\ MoodQuiet /\ SampleQuiet /\ ToolQuiet /\ SumQuiet

---------------------------------------------------------------------------
(* The handlers' moves.                                                    *)

\* w's handler is at place, with the frame and the row it had.
Moved(w, place) ==
    /\ task'[w].at = place
    /\ task'[w].row = task[w].row
    /\ task'[w].about = task[w].about
    /\ task'[w].heard = task[w].heard
    /\ Others(w)
Dropped(w) == task'[w] = Idle /\ Others(w)

LEMMA IdleIsHandler == IsHandler(Idle) /\ Idle.at = "idle"
BY DEF IsHandler, Handling, Idle, Silence, NoTurn, Turn, Places, Utterance, Text, Languages

LEMMA GotoMoves ==
    ASSUME IsTask, NEW w \in Writers, NEW place \in Places, Goto(w, place)
    PROVE  IsTask' /\ Moved(w, place)
<1>1. task' = [task EXCEPT ![w] = [@ EXCEPT !.at = place]]
  BY DEF Goto, IsTask
<1>2. \A v \in Writers \ {w} : task'[v] = task[v]
  BY <1>1 DEF IsTask
<1>3. task'[w] = [task[w] EXCEPT !.at = place]
  BY <1>1 DEF IsTask
<1>4. IsHandler(task[w])
  BY DEF IsTask
<1>5. /\ task'[w].at = place /\ task'[w].row = task[w].row
      /\ task'[w].about = task[w].about /\ task'[w].heard = task[w].heard
      /\ task'[w].detections = task[w].detections
  BY <1>3, <1>4 DEF IsHandler
<1>6. IsHandler(task'[w])
  BY <1>3, <1>4, <1>5 DEF IsHandler
<1>7. task' = [v \in Writers |-> task'[v]]
  BY <1>1 DEF IsTask
<1>8. QED
  BY <1>2, <1>5, <1>6, <1>7 DEF IsTask, Moved, Others

LEMMA HandlerSet ==
    ASSUME IsTask, NEW w \in Writers, NEW h, task' = [task EXCEPT ![w] = h]
    PROVE  task'[w] = h /\ Others(w) /\ (IsHandler(h) => IsTask')
BY DEF IsTask, Others

LEMMA IdleDrops ==
    ASSUME IsTask, NEW w \in Writers, task' = [task EXCEPT ![w] = Idle]
    PROVE  IsTask' /\ Dropped(w)
BY HandlerSet, IdleIsHandler DEF Dropped

LEMMA MoodTyped ==
    ASSUME NEW said \in SUBSET Phrases
    PROVE  /\ classify_sentiment(said).sentiment \in Sentiments
           /\ classify_sentiment(said).signal \in Range(SignalLexicon) \union {"NONE"}
<1>. DEFINE hits == {i \in DOMAIN SignalLexicon : SignalLexicon[i] \in said}
            first == CHOOSE i \in hits : \A j \in hits : i <= j
<1>1. DOMAIN SignalLexicon = 1 .. 4
  BY DEF SignalLexicon
<1>2. ASSUME hits # {}
      PROVE  first \in hits
  <2>1. \E i \in hits : \A j \in hits : i <= j
    <3>. hits \subseteq {1, 2, 3, 4}
      BY <1>1
    <3>. QED  BY <1>2
  <2>2. QED  BY <2>1
<1>3. ASSUME hits # {}
      PROVE  SignalLexicon[first] \in Range(SignalLexicon)
  <2>. HIDE DEF first
  <2>. QED  BY <1>2, <1>3 DEF Range
<1>4. QED
  BY <1>3 DEF classify_sentiment, Sentiments

---------------------------------------------------------------------------
(* What each action of the pipeline does.                                  *)

LEMMA FrameSpent == IsBudget /\ SpendFrame => IsBudget'
BY DEF IsBudget, SpendFrame

LEMMA StepSpent == IsBudget /\ SpendStep => IsBudget'
BY DEF IsBudget, SpendStep

LEMMA HandlingIsHandler ==
    ASSUME NEW place \in Places, NEW u \in Utterance, NEW n \in Nat
    PROVE  IsHandler(Handling(place, u, n))
BY DEF Handling, IsHandler, Turn, NoTurn

LEMMA HearDoes ==
    ASSUME Shape, NEW u \in Utterances, Hear(u), UNCHANGED callVars
    PROVE  /\ Shape'
           /\ RowsQuiet /\ CauseQuiet /\ MoodQuiet /\ SampleQuiet /\ ToolQuiet /\ SumQuiet
           /\ tap.at = "idle" /\ tap'.at \in {"audit", "turn"} /\ tap'.about = line.heard + 1
           /\ tap'.heard = u
           /\ Others("tap")
           /\ line'.heard = line.heard + 1 /\ line'.passed = line.passed /\ line'.cut = line.cut
           /\ db' = db
<1>. DEFINE place == IF classify_adversarial(u.said) THEN "audit" ELSE "turn"
            h == Handling(place, u, line.heard + 1)
<1>1. IsTask /\ "tap" \in Writers /\ task' = [task EXCEPT !["tap"] = h]
  BY DEF Shape, Hear, Writers
<1>2. task'["tap"] = h /\ Others("tap")
  BY <1>1, HandlerSet
<1>3. h.at \in {"audit", "turn"} /\ h.about = line.heard + 1 /\ h.heard = u /\ IsHandler(h)
  <2>1. u \in Utterance /\ line.heard + 1 \in Nat
    BY UtterancesAssumption DEF Shape, IsLine
  <2>2. place \in {"audit", "turn"}
    OBVIOUS
  <2>3. place \in Places
    BY <2>2 DEF Places
  <2>. HIDE DEF place
  <2>. QED  BY <2>1, <2>2, <2>3, HandlingIsHandler DEF Handling
<1>4. IsTask'
  BY <1>1, <1>3, HandlerSet
<1>5. /\ IsCtx' /\ ctx'.turn_index = ctx.turn_index /\ ctx'.pending = ctx.pending
      /\ ctx'.adversarial_streak = ctx.adversarial_streak
  <2>1. u.language \in Languages \union {""}
    BY UtterancesAssumption DEF Utterance
  <2>2. QED
    BY <2>1 DEF Shape, Hear, IsCtx
<1>6. IsKeypad' /\ keypad'.fallback = keypad.fallback
  <2>. keypad' = [keypad EXCEPT !.low = 0]
    BY DEF Hear
  <2>. QED  BY PipelineAssumption DEF Shape, IsKeypad
<1>7. /\ IsLine' /\ line'.heard = line.heard + 1 /\ line'.passed = line.passed
      /\ line'.prompts = line.prompts /\ line'.cut = line.cut
  <2>. line' = [line EXCEPT !.heard = line.heard + 1]
    BY DEF Hear
  <2>. QED  BY DEF Shape, IsLine
<1>8. IsBudget'
  BY FrameSpent DEF Shape, Hear
<1>9. Shape'
  BY <1>4, <1>5, <1>6, <1>7, <1>8
  DEF Shape, Hear, IsDb, IsSignals, IsTool, IsLevels, callVars
<1>10. QED
  BY <1>2, <1>3, <1>5, <1>6, <1>7, <1>9
  DEF Shape, Hear, callVars, RowsQuiet, CauseQuiet, MoodQuiet, SampleQuiet, ToolQuiet, SumQuiet,
      Keeps, tap, Filed, Others, Writers

LEMMA TagDoes ==
    ASSUME Shape, TagAdversarial, UNCHANGED callVars
    PROVE  /\ Shape'
           /\ RowsQuiet /\ OrderQuiet /\ MoodQuiet /\ SampleQuiet /\ ToolQuiet /\ SumQuiet
           /\ tap.at = "audit" /\ tap'.at = "streak"
           /\ db'.tagged = db.tagged + 1
           /\ UNCHANGED <<ctx, keypad, signals, line>>
<1>1. IsTask' /\ Moved("tap", "streak")
  BY GotoMoves DEF Shape, TagAdversarial, Writers, Places
<1>2. IsDb' /\ db'.turns = db.turns /\ db'.moods = db.moods /\ db'.samples = db.samples
      /\ db'.tagged = db.tagged + 1
  <2>. IsDb /\ db' = [db EXCEPT !.tagged = db.tagged + 1]
    BY DEF Shape, TagAdversarial
  <2>. QED  BY DEF IsDb
<1>3. Shape'
  BY <1>1, <1>2
  DEF Shape, TagAdversarial, IsCtx, IsKeypad, IsSignals, IsLine, IsBudget, IsTool, IsLevels, callVars
<1>4. QED
  BY <1>1, <1>2, <1>3
  DEF TagAdversarial, callVars, RowsQuiet, OrderQuiet, MoodQuiet, SampleQuiet, ToolQuiet,
      SumQuiet, Keeps, tap, Filed, Moved, Others, Writers

LEMMA CountDoes ==
    ASSUME Shape, CountStreak, UNCHANGED callVars
    PROVE  /\ Shape'
           /\ RowsQuiet /\ OrderQuiet /\ MoodQuiet /\ SampleQuiet /\ ToolQuiet /\ SumQuiet
           /\ tap.at = "streak" /\ tap'.at # "streak"
           /\ ctx'.adversarial_streak = ctx.adversarial_streak + 1
           /\ \/ signals' = signals
              \/ /\ ctx'.adversarial_streak >= MAX_ADVERSARIAL_STREAK
                 /\ signals' = [signals EXCEPT !["adversarial"] = @ + 1]
           /\ UNCHANGED <<keypad, db, line>>
<1>1. IsTask' /\ (Moved("tap", "turn") \/ Dropped("tap"))
  BY GotoMoves, IdleDrops DEF Shape, CountStreak, Tell, Writers, Places
<1>2. /\ IsCtx'
      /\ ctx'.adversarial_streak = ctx.adversarial_streak + 1
      /\ ctx'.turn_index = ctx.turn_index /\ ctx'.pending = ctx.pending
  BY DEF Shape, CountStreak, IsCtx
<1>3. \/ signals' = signals
      \/ /\ ctx'.adversarial_streak >= MAX_ADVERSARIAL_STREAK
         /\ signals' = [signals EXCEPT !["adversarial"] = @ + 1]
  BY DEF CountStreak, Tell, IsPersistent
<1>4. IsSignals' /\ signals'["DISSATISFIED"] = signals["DISSATISFIED"]
  BY <1>3 DEF Shape, Kinds, IsSignals
<1>5. Shape'
  BY <1>1, <1>2, <1>4
  DEF Shape, CountStreak, IsKeypad, IsDb, IsLine, IsBudget, IsTool, IsLevels, callVars
<1>6. tap'.at \in {"turn", "idle"} /\ (tap'.at = "idle" \/ tap'.about = tap.about)
  BY <1>1 DEF tap, Moved, Dropped, Handling, Idle
<1>7. \A w \in Writers \ {"tap"} : task'[w] = task[w]
  BY <1>1 DEF Moved, Dropped, Others
<1>8. QED
  BY <1>2, <1>3, <1>4, <1>5, <1>6, <1>7
  DEF CountStreak, callVars, RowsQuiet, OrderQuiet, MoodQuiet, SampleQuiet, ToolQuiet,
      SumQuiet, Keeps, tap, Filed, Writers

\* w takes the next index for its row.
Taken(w) ==
    /\ task'[w].at = "store"
    /\ task'[w].row.turn_index = ctx.turn_index
    /\ task'[w].row.speaker = SpeakerOf(w)
    /\ task'[w].row.about = task[w].about
    /\ task'[w].about = task[w].about
    /\ Others(w)
    /\ ctx'.turn_index = ctx.turn_index + 1
    /\ db'.turns = db.turns

LEMMA TakeDoes ==
    ASSUME Shape, NEW w \in Writers, NEW u \in Utterances \union Replies,
           task[w].at \in {"turn", "reply"},
           task' = [task EXCEPT ![w] = Redacted(SpeakerOf(w), u, task[w].about)],
           TakeIndex,
           UNCHANGED <<keypad, sample, db, signals, open, line, budget>>, UNCHANGED callVars
    PROVE  /\ Shape'
           /\ Taken(w) /\ CauseQuiet /\ ToolQuiet /\ SumQuiet
           /\ UNCHANGED <<db, sample, signals, line>>
           /\ ctx'.pending = ctx.pending
<1>. DEFINE h == Redacted(SpeakerOf(w), u, task[w].about)
<1>1. IsTask /\ task' = [task EXCEPT ![w] = h]
  BY DEF Shape
<1>2. task'[w] = h /\ Others(w)
  BY <1>1, HandlerSet
<1>3. /\ h.at = "store" /\ h.about = task[w].about
      /\ h.row.turn_index = ctx.turn_index /\ h.row.speaker = SpeakerOf(w)
      /\ h.row.about = task[w].about
  BY DEF Redacted, NextIndex
<1>4. IsHandler(h)
  <2>1. ctx.turn_index \in Nat /\ task[w].about \in Nat
    BY <1>1 DEF IsTask, IsHandler, Shape, IsCtx
  <2>2. SpeakerOf(w) \in {"CUSTOMER", "AI"}
    BY DEF SpeakerOf
  <2>3. h = [at |-> h.at, heard |-> u, about |-> h.about, row |-> h.row,
             detections |-> h.detections]
    BY DEF Redacted
  <2>. DEFINE result == redact(u.text, ctx.language)
  <2>4. result.text \in Seq(Piece) /\ result.detections \in Seq(Categories)
    BY UtterancesAssumption, RedactionReports DEF ReportsItsMarkers, Utterance
  <2>5. h.detections = result.detections /\ h.row.redacted_text = result.text
        /\ h.row = [turn_index |-> h.row.turn_index, speaker |-> h.row.speaker,
                    redacted_text |-> h.row.redacted_text, about |-> h.row.about]
    BY DEF Redacted
  <2>6. u \in Utterance
    BY UtterancesAssumption
  <2>. HIDE DEF h, result
  <2>7. h.row \in Turn
    BY <1>3, <2>1, <2>2, <2>4, <2>5 DEF Turn
  <2>. QED  BY <1>3, <2>1, <2>3, <2>4, <2>5, <2>6, <2>7 DEF IsHandler, Places
<1>5. IsTask'
  BY <1>1, <1>4, HandlerSet
<1>6. /\ IsCtx' /\ ctx'.turn_index = ctx.turn_index + 1 /\ ctx'.pending = ctx.pending
      /\ ctx'.adversarial_streak = ctx.adversarial_streak
  BY DEF Shape, TakeIndex, IsCtx
<1>. HIDE DEF h
<1>7. Shape'
  BY <1>5, <1>6 DEF Shape, IsKeypad, IsDb, IsSignals, IsLine, IsBudget, IsTool, IsLevels, callVars
<1>8. tap'.at = "streak" => tap.at = "streak"
  BY <1>2, <1>3 DEF tap, Others, Writers
<1>9. QED
  BY <1>2, <1>3, <1>6, <1>7, <1>8 DEF Taken, CauseQuiet, ToolQuiet, SumQuiet, callVars

\* w's row is on file, and w at a place where that matters.
Stored(w) ==
    /\ task[w].at = "store"
    /\ db'.turns = db.turns \union {task[w].row}
    /\ ctx'.turn_index = ctx.turn_index
    /\ task'[w].at \in {"log", "mark", "push"}
    /\ task'[w].row = task[w].row /\ task'[w].about = task[w].about
    /\ Others(w)
    /\ line' = line

LEMMA StoreDoes ==
    ASSUME Shape, NEW w \in Writers, StoreTurn(w), UNCHANGED callVars
    PROVE  /\ Shape'
           /\ (RowsQuiet /\ OrderQuiet) \/ Stored(w)
           /\ CauseQuiet /\ MoodQuiet /\ SampleQuiet /\ ToolQuiet /\ SumQuiet
<1>1. CASE \E r \in db.turns : r.turn_index = task[w].row.turn_index
                              /\ r.speaker = task[w].row.speaker
  <2>1. task' = [task EXCEPT ![w] = Idle] /\ db' = db
    BY <1>1 DEF StoreTurn
  <2>2. IsTask' /\ Dropped(w)
    BY <2>1, IdleDrops DEF Shape
  <2>3. Shape'
    BY <2>1, <2>2
    DEF Shape, StoreTurn, IsCtx, IsKeypad, IsDb, IsSignals, IsLine, IsBudget, IsTool, IsLevels, callVars
  <2>4. RowsQuiet /\ OrderQuiet /\ CauseQuiet /\ MoodQuiet /\ SampleQuiet /\ ToolQuiet /\ SumQuiet
    BY <2>1, <2>2, IdleIsHandler
    DEF StoreTurn, RowsQuiet, OrderQuiet, CauseQuiet, MoodQuiet, SampleQuiet, ToolQuiet, SumQuiet,
        Keeps, tap, Filed, Dropped, Others, Writers, callVars
  <2>5. QED  BY <2>3, <2>4
<1>2. CASE ~(\E r \in db.turns : r.turn_index = task[w].row.turn_index
                                /\ r.speaker = task[w].row.speaker)
  <2>. DEFINE place == IF task[w].detections = <<>> THEN Persisted(w) ELSE "log"
  <2>1. Goto(w, place) /\ db' = [db EXCEPT !.turns = db.turns \union {task[w].row}]
        /\ task[w].at = "store"
    BY <1>2 DEF StoreTurn
  <2>2. place \in {"log", "mark", "push"} /\ (w # "tap" => place \in {"log", "push"})
    BY DEF Persisted
  <2>3. place \in Places
    BY <2>2 DEF Places
  <2>. HIDE DEF place
  <2>4. IsTask' /\ Moved(w, place)
    BY <2>1, <2>3, GotoMoves DEF Shape
  <2>5. /\ IsDb'
        /\ db'.turns = db.turns \union {task[w].row} /\ db'.moods = db.moods
        /\ db'.samples = db.samples /\ db'.tagged = db.tagged
    <3>1. task[w].row \in Turn /\ IsDb
      BY DEF Shape, IsTask, IsHandler
    <3>2. QED  BY <2>1, <3>1 DEF IsDb
  <2>6. Shape'
    BY <2>4, <2>5
    DEF Shape, StoreTurn, IsCtx, IsKeypad, IsSignals, IsLine, IsBudget, IsTool, IsLevels, callVars
  <2>7. Stored(w)
    BY <2>1, <2>2, <2>4, <2>5 DEF Stored, Moved, StoreTurn
  <2>8. CauseQuiet /\ MoodQuiet /\ SampleQuiet /\ ToolQuiet /\ SumQuiet
    BY <2>1, <2>2, <2>4, <2>5
    DEF StoreTurn, CauseQuiet, MoodQuiet, SampleQuiet, ToolQuiet, SumQuiet,
        Keeps, tap, Moved, Others, Writers, callVars
  <2>9. QED  BY <2>6, <2>7, <2>8
<1>3. QED  BY <1>1, <1>2

LEMMA LogDoes ==
    ASSUME Shape, NEW w \in Writers, LogRedaction(w), task[w].detections # <<>>,
           UNCHANGED callVars
    PROVE  Shape' /\ AllQuiet
<1>. DEFINE place == IF Len(task[w].detections) = 1 THEN Persisted(w) ELSE "log"
            h == [task[w] EXCEPT !.detections = Tail(task[w].detections), !.at = place]
<1>1. task' = [task EXCEPT ![w] = h] /\ IsTask /\ task[w].at = "log"
  BY DEF LogRedaction, Shape, IsTask
<1>2. task'[w] = h /\ Others(w)
  BY <1>1, HandlerSet
<1>3. place \in {"log", "mark", "push"}
  BY DEF Persisted
<1>. HIDE DEF place
<1>4. /\ h.at = place /\ h.row = task[w].row /\ h.about = task[w].about
      /\ h.heard = task[w].heard
      /\ h = [at |-> h.at, heard |-> h.heard, about |-> h.about, row |-> h.row,
              detections |-> h.detections]
  <2>. DEFINE d == Tail(task[w].detections)
              g == [task[w] EXCEPT !.detections = d]
  <2>1. IsHandler(task[w])
    BY <1>1 DEF IsTask
  <2>2. h = [g EXCEPT !.at = place]
    OBVIOUS
  <2>. HIDE DEF d, h
  <2>3. g = [at |-> task[w].at, heard |-> task[w].heard, about |-> task[w].about,
             row |-> task[w].row, detections |-> d]
    BY <2>1 DEF IsHandler
  <2>. HIDE DEF g
  <2>. QED  BY <2>2, <2>3
<1>. HIDE DEF h
<1>5. /\ IsHandler(h) /\ Head(task[w].detections) \in Categories
      /\ task[w].row.turn_index \in Nat
  <2>1. IsHandler(task[w])
    BY <1>1 DEF IsTask
  <2>2. task[w].detections \in Seq(Categories) /\ task[w].row.turn_index \in Nat
    BY <2>1 DEF IsHandler, Turn
  <2>3. /\ Head(task[w].detections) \in Categories
        /\ Tail(task[w].detections) \in Seq(Categories)
    BY <2>2, HeadTailProperties
  <2>4. h.detections = Tail(task[w].detections)
    BY <2>1 DEF h, IsHandler
  <2>5. h.at \in Places /\ h.heard \in Utterance /\ h.about \in Nat /\ h.row \in Turn
    BY <1>3, <1>4, <2>1 DEF IsHandler, Places
  <2>. QED  BY <1>4, <2>2, <2>3, <2>4, <2>5 DEF IsHandler
<1>6. IsTask'
  BY <1>1, <1>5, HandlerSet
<1>7. /\ IsDb'
      /\ db'.turns = db.turns /\ db'.moods = db.moods
      /\ db'.samples = db.samples /\ db'.tagged = db.tagged
  <2>. DEFINE e == db.events \union {[turn |-> task[w].row.turn_index,
                                      category |-> Head(task[w].detections)]}
  <2>1. db' = [db EXCEPT !.events = e] /\ IsDb
    BY DEF LogRedaction, Shape
  <2>2. e \subseteq [turn: Nat, category: Categories]
    BY <1>5, <2>1 DEF IsDb
  <2>. HIDE DEF e
  <2>. QED  BY <2>1, <2>2 DEF IsDb
<1>8. UNCHANGED <<ctx, keypad, sample, signals, open, line, budget>>
  BY DEF LogRedaction
<1>9. Shape'
  BY <1>6, <1>7, <1>8
  DEF Shape, IsCtx, IsKeypad, IsSignals, IsLine, IsBudget, IsTool, IsLevels, callVars
<1>10. AllQuiet
  BY <1>1, <1>2, <1>3, <1>4, <1>7, <1>8
  DEF AllQuiet, RowsQuiet, OrderQuiet, CauseQuiet, MoodQuiet, SampleQuiet, ToolQuiet, SumQuiet,
      Keeps, tap, Filed, Others, Writers, callVars
<1>11. QED  BY <1>9, <1>10

LEMMA MarkDoes ==
    ASSUME Shape, MarkSpeech, UNCHANGED callVars
    PROVE  /\ Shape'
           /\ RowsQuiet /\ OrderQuiet /\ CauseQuiet /\ MoodQuiet /\ ToolQuiet /\ SumQuiet
           /\ tap.at = "mark" /\ tap'.at = "feel"
           /\ ctx'.pending = {tap.row.turn_index}
           /\ UNCHANGED <<db, sample>>
<1>1. IsTask' /\ Moved("tap", "feel") /\ tap.at = "mark"
  BY GotoMoves DEF Shape, MarkSpeech, Writers, Places, tap
<1>2. tap.row.turn_index \in Nat
  BY DEF Shape, IsTask, IsHandler, Turn, tap, Writers
<1>3. /\ IsCtx' /\ ctx'.pending = {tap.row.turn_index}
      /\ ctx'.turn_index = ctx.turn_index /\ ctx'.adversarial_streak = ctx.adversarial_streak
  <2>. ctx' = [ctx EXCEPT !.pending = {tap.row.turn_index}] /\ IsCtx
    BY DEF MarkSpeech, Shape, tap
  <2>. QED  BY <1>2 DEF IsCtx
<1>4. UNCHANGED <<keypad, sample, db, signals, open, line, budget>>
  BY DEF MarkSpeech
<1>5. Shape'
  BY <1>1, <1>3, <1>4
  DEF Shape, IsDb, IsKeypad, IsSignals, IsLine, IsBudget, IsTool, IsLevels, callVars
<1>6. QED
  BY <1>1, <1>3, <1>4, <1>5
  DEF RowsQuiet, OrderQuiet, CauseQuiet, MoodQuiet, ToolQuiet, SumQuiet,
      Keeps, tap, Filed, Moved, Others, Writers, callVars

LEMMA FeelDoes ==
    ASSUME Shape, RecordSentiment, UNCHANGED callVars
    PROVE  /\ Shape'
           /\ RowsQuiet /\ OrderQuiet /\ CauseQuiet /\ SampleQuiet /\ ToolQuiet
           /\ tap.at = "feel" /\ tap'.at \in {"tell", "push"}
           /\ tap'.at = "tell" => Mood(tap).signal = "DELAY_DISSATISFACTION"
           /\ Mood(tap) \in MoodRow /\ Mood(tap).turn = tap.row.turn_index
           /\ db'.moods = Append(db.moods, Mood(tap))
           /\ db'.turns = db.turns
           /\ UNCHANGED <<signals, summary>>
<1>. DEFINE place == IF Mood(tap).signal = "DELAY_DISSATISFACTION" THEN "tell" ELSE "push"
<1>1. /\ Goto("tap", place) /\ tap.at = "feel"
      /\ db' = [db EXCEPT !.moods = Append(db.moods, Mood(tap))]
      /\ UNCHANGED <<ctx, keypad, sample, signals, open, line, budget>>
  BY DEF RecordSentiment, tap
<1>2. /\ place \in {"tell", "push"}
      /\ place = "tell" => Mood(tap).signal = "DELAY_DISSATISFACTION"
  OBVIOUS
<1>3. place \in Places
  BY <1>2 DEF Places
<1>. HIDE DEF place
<1>4. IsTask' /\ Moved("tap", place)
  BY <1>1, <1>3, GotoMoves DEF Shape, Writers
<1>5. Mood(tap) \in MoodRow /\ Mood(tap).turn = tap.row.turn_index
  <2>1. IsHandler(tap)
    BY DEF Shape, IsTask, tap, Writers
  <2>2. tap.row.turn_index \in Nat /\ tap.heard.said \in SUBSET Phrases
    BY <2>1 DEF IsHandler, Turn, Utterance
  <2>3. QED  BY <2>2, MoodTyped DEF Mood, MoodRow
<1>6. /\ IsDb'
      /\ db'.moods = Append(db.moods, Mood(tap))
      /\ db'.turns = db.turns /\ db'.samples = db.samples /\ db'.tagged = db.tagged
  <2>. DEFINE m == Append(db.moods, Mood(tap))
  <2>1. IsDb /\ db' = [db EXCEPT !.moods = m]
    BY <1>1 DEF Shape
  <2>2. m \in Seq(MoodRow)
    BY <1>5, <2>1, AppendProperties DEF IsDb
  <2>. HIDE DEF m
  <2>3. db'.moods = m /\ IsDb'
    BY <2>1, <2>2 DEF IsDb
  <2>4. db'.turns = db.turns /\ db'.samples = db.samples /\ db'.tagged = db.tagged
    BY <2>1 DEF IsDb
  <2>. QED  BY <2>3, <2>4 DEF m
<1>7. Shape'
  BY <1>1, <1>4, <1>6
  DEF Shape, IsCtx, IsKeypad, IsSignals, IsLine, IsBudget, IsTool, IsLevels, callVars
<1>8. QED
  BY <1>1, <1>2, <1>4, <1>5, <1>6, <1>7
  DEF RowsQuiet, OrderQuiet, CauseQuiet, SampleQuiet, ToolQuiet,
      Keeps, tap, Filed, Moved, Others, Writers, callVars

LEMMA TellDoes ==
    ASSUME Shape, SignalDissatisfied, UNCHANGED callVars
    PROVE  /\ Shape'
           /\ RowsQuiet /\ OrderQuiet /\ CauseQuiet /\ SampleQuiet /\ ToolQuiet /\ SumQuiet
           /\ tap.at = "tell" /\ tap'.at \in {"push", "idle"}
           /\ signals'["DISSATISFIED"] \in {signals["DISSATISFIED"], signals["DISSATISFIED"] + 1}
           /\ db' = db
<1>1. /\ IsTask' /\ (Moved("tap", "push") \/ Dropped("tap")) /\ tap.at = "tell"
  BY GotoMoves, IdleDrops DEF Shape, SignalDissatisfied, Tell, Writers, Places, tap
<1>2. /\ signals' = signals \/ signals' = [signals EXCEPT !["DISSATISFIED"] = @ + 1]
      /\ UNCHANGED <<ctx, keypad, sample, db, open, line, budget>>
  BY DEF SignalDissatisfied, Tell
<1>3. /\ IsSignals'
      /\ \A k \in {"CALLBACK", "HUMAN", "adversarial"} : signals'[k] = signals[k]
      /\ signals'["DISSATISFIED"] \in {signals["DISSATISFIED"], signals["DISSATISFIED"] + 1}
  BY <1>2 DEF Shape, Kinds, IsSignals
<1>4. Shape'
  BY <1>1, <1>2, <1>3 DEF Shape, IsCtx, IsKeypad, IsDb, IsLine, IsBudget, IsTool, IsLevels, callVars
<1>5. /\ tap'.at \in {"push", "idle"}
      /\ tap'.at = "push" => tap'.about = tap.about /\ tap'.row = tap.row
  BY <1>1 DEF tap, Moved, Dropped, Handling, Idle
<1>6. \A w \in Writers \ {"tap"} : task'[w] = task[w]
  BY <1>1 DEF Moved, Dropped, Others
<1>7. QED
  BY <1>1, <1>2, <1>3, <1>4, <1>5, <1>6
  DEF RowsQuiet, OrderQuiet, CauseQuiet, SampleQuiet, ToolQuiet, SumQuiet, Keeps, tap, Filed,
      Writers, callVars

\* What a handler that ends leaves alone.
LEMMA DropQuiet ==
    ASSUME NEW w \in Writers, Dropped(w), UNCHANGED <<ctx, keypad, sample, db, signals>>,
           UNCHANGED callVars
    PROVE  /\ RowsQuiet /\ MoodQuiet /\ SampleQuiet /\ ToolQuiet /\ SumQuiet
           /\ line'.heard = line.heard /\ line'.passed = line.passed => OrderQuiet
           /\ line'.prompts = line.prompts => CauseQuiet
<1>1. task'[w].at = "idle" /\ \A v \in Writers \ {w} : task'[v] = task[v]
  BY DEF Dropped, Handling, Idle, Others
<1>2. QED
  BY <1>1
  DEF RowsQuiet, OrderQuiet, CauseQuiet, MoodQuiet, SampleQuiet, ToolQuiet, SumQuiet, Keeps, tap,
      Filed, Writers, callVars

LEMMA PassDoes ==
    ASSUME Shape, PassOn, UNCHANGED callVars
    PROVE  /\ Shape'
           /\ RowsQuiet /\ CauseQuiet /\ MoodQuiet /\ SampleQuiet /\ ToolQuiet /\ SumQuiet
           /\ tap.at = "push" /\ Dropped("tap")
           /\ line'.heard = line.heard /\ line'.passed = tap.about
           /\ db'.turns = db.turns
<1>1. /\ IsTask' /\ Dropped("tap") /\ tap.at = "push"
      /\ UNCHANGED <<ctx, keypad, sample, db, signals, open, budget>>
  BY IdleDrops DEF Shape, PassOn, Writers, tap
<1>2. /\ IsLine' /\ line'.heard = line.heard /\ line'.passed = tap.about
      /\ line'.prompts = line.prompts
  <2>1. IsLine /\ tap.about \in Nat
    BY DEF Shape, IsTask, IsHandler, tap, Writers
  <2>2. line' = [line EXCEPT !.passed = tap.about, !.due = TRUE]
    BY DEF PassOn, tap
  <2>3. QED  BY <2>1, <2>2 DEF IsLine
<1>3. Shape'
  BY <1>1, <1>2 DEF Shape, IsCtx, IsKeypad, IsDb, IsSignals, IsBudget, IsTool, IsLevels, callVars
<1>4. QED
  BY <1>1, <1>2, <1>3, DropQuiet DEF Writers

LEMMA HearNothingDoes ==
    ASSUME Shape, HearNothing, UNCHANGED callVars
    PROVE  /\ Shape'
           /\ RowsQuiet /\ OrderQuiet /\ MoodQuiet /\ SampleQuiet /\ ToolQuiet /\ SumQuiet
           /\ \/ keypad'.fallback = keypad.fallback /\ line'.prompts = line.prompts
              \/ line'.prompts = line.prompts + 1
           /\ UNCHANGED <<ctx, task, db, signals>>
<1>1. UNCHANGED <<ctx, task, sample, db, signals, open>> /\ IsBudget'
  BY FrameSpent DEF Shape, HearNothing
<1>2. /\ IsKeypad' /\ IsLine' /\ line'.heard = line.heard /\ line'.passed = line.passed
      /\ \/ keypad'.fallback = keypad.fallback /\ line'.prompts = line.prompts
         \/ line'.prompts = line.prompts + 1
  <2>1. CASE keypad.low + 1 < MAX_CONSECUTIVE_LOW_STT_TURNS
    <3>. IsKeypad /\ IsLine /\ keypad' = [keypad EXCEPT !.low = @ + 1] /\ line' = line
      BY <2>1 DEF Shape, HearNothing
    <3>. QED  BY <2>1, PipelineAssumption DEF IsKeypad, IsLine
  <2>2. CASE ~(keypad.low + 1 < MAX_CONSECUTIVE_LOW_STT_TURNS)
    <3>1. /\ IsLine /\ keypad' = [low |-> 0, fallback |-> TRUE]
          /\ line' = [line EXCEPT !.prompts = @ + 1, !.voiced = TRUE]
      BY <2>2 DEF Shape, HearNothing
    <3>2. IsKeypad'
      BY <3>1, PipelineAssumption DEF IsKeypad
    <3>3. IsLine' /\ line'.heard = line.heard /\ line'.passed = line.passed
          /\ line'.prompts = line.prompts + 1
      <4>. DEFINE p == line.prompts + 1
      <4>1. IsLine /\ p \in Nat /\ line' = [line EXCEPT !.prompts = p, !.voiced = TRUE]
        BY <3>1 DEF IsLine
      <4>. HIDE DEF p
      <4>2. line'.prompts = p /\ IsLine' /\ line'.heard = line.heard /\ line'.passed = line.passed
        BY <4>1 DEF IsLine
      <4>. QED  BY <4>2 DEF p
    <3>. QED  BY <3>2, <3>3
  <2>3. QED  BY <2>1, <2>2
<1>3. Shape'
  BY <1>1, <1>2 DEF Shape, IsCtx, IsTask, IsDb, IsSignals, IsTool, IsLevels, callVars
<1>4. QED
  BY <1>1, <1>2, <1>3
  DEF RowsQuiet, OrderQuiet, MoodQuiet, SampleQuiet, ToolQuiet, SumQuiet, Keeps, tap,
      Filed, Writers, callVars

LEMMA PressDoes ==
    ASSUME Shape, NEW digit, Press(digit), UNCHANGED callVars
    PROVE  /\ Shape'
           /\ RowsQuiet /\ OrderQuiet /\ MoodQuiet /\ SampleQuiet /\ ToolQuiet /\ SumQuiet
           /\ keypad.fallback /\ ~keypad'.fallback
           /\ \/ signals' = signals
              \/ signals' = [signals EXCEPT !["CALLBACK"] = @ + 1]
              \/ signals' = [signals EXCEPT !["HUMAN"] = @ + 1]
           /\ UNCHANGED <<ctx, task, db, line>>
<1>1. UNCHANGED <<ctx, task, sample, db, open, line, budget>>
  BY DEF Press
<1>2. IsKeypad' /\ keypad.fallback /\ ~keypad'.fallback
  <2>. IsKeypad /\ keypad' = [keypad EXCEPT !.fallback = FALSE] /\ keypad.fallback
    BY DEF Press, Shape
  <2>. QED  BY DEF IsKeypad
<1>3. \/ signals' = signals
      \/ signals' = [signals EXCEPT !["CALLBACK"] = @ + 1]
      \/ signals' = [signals EXCEPT !["HUMAN"] = @ + 1]
  BY DEF Press, resolve_dtmf_action
<1>4. IsSignals' /\ signals'["DISSATISFIED"] = signals["DISSATISFIED"]
  BY <1>3 DEF Shape, IsSignals, Kinds
<1>5. Shape'
  BY <1>1, <1>2, <1>4 DEF Shape, IsCtx, IsTask, IsDb, IsLine, IsBudget, IsTool, IsLevels, callVars
<1>6. QED
  BY <1>1, <1>2, <1>3, <1>4, <1>5
  DEF RowsQuiet, OrderQuiet, MoodQuiet, SampleQuiet, ToolQuiet, SumQuiet, Keeps, tap,
      Filed, Writers, callVars

LEMMA StartReplyDoes ==
    ASSUME Shape, StartReply, UNCHANGED callVars
    PROVE  /\ Shape'
           /\ RowsQuiet /\ CauseQuiet /\ MoodQuiet /\ SampleQuiet /\ ToolQuiet /\ SumQuiet
           /\ assistant'.at = "reply" /\ assistant'.about = line.passed /\ Others("assistant")
           /\ line'.heard = line.heard /\ line'.passed = line.passed
           /\ db' = db
<1>. DEFINE h == Handling("reply", Silence, line.passed)
<1>1. /\ IsTask /\ task' = [task EXCEPT !["assistant"] = h] /\ "assistant" \in Writers
      /\ UNCHANGED <<ctx, keypad, sample, db, signals, open, budget>>
  BY DEF Shape, StartReply, Writers
<1>2. h.at = "reply" /\ h.about = line.passed
  BY DEF Handling
<1>3. IsHandler(h)
  <2>1. Silence \in Utterance
    BY DEF Silence, Utterance, Text, Languages
  <2>2. line.passed \in Nat /\ "reply" \in Places
    BY DEF Shape, IsLine, Places
  <2>3. QED  BY <2>1, <2>2, HandlingIsHandler
<1>. HIDE DEF h
<1>4. task'["assistant"] = h /\ Others("assistant") /\ IsTask'
  BY <1>1, <1>3, HandlerSet
<1>5. /\ IsLine' /\ line'.heard = line.heard /\ line'.passed = line.passed
      /\ line'.prompts = line.prompts
  <2>. IsLine /\ line' = [line EXCEPT !.due = FALSE, !.voiced = TRUE]
    BY DEF Shape, StartReply
  <2>. QED  BY DEF IsLine
<1>6. Shape'
  BY <1>1, <1>4, <1>5 DEF Shape, IsCtx, IsKeypad, IsDb, IsSignals, IsBudget, IsTool, IsLevels, callVars
<1>7. QED
  BY <1>1, <1>2, <1>4, <1>5, <1>6
  DEF RowsQuiet, CauseQuiet, MoodQuiet, SampleQuiet, ToolQuiet, SumQuiet, Keeps, tap, assistant,
      Filed, Others, Writers, callVars

LEMMA FinishDoes ==
    ASSUME Shape, FinishReply, UNCHANGED callVars
    PROVE  Shape' /\ AllQuiet
<1>1. /\ IsTask' /\ Dropped("assistant")
      /\ UNCHANGED <<ctx, keypad, sample, db, signals, open, line, budget>>
  BY IdleDrops DEF Shape, FinishReply, Writers
<1>2. Shape'
  BY <1>1 DEF Shape, IsCtx, IsKeypad, IsDb, IsSignals, IsLine, IsBudget, IsTool, IsLevels, callVars
<1>3. QED
  BY <1>1, <1>2, DropQuiet DEF AllQuiet, Writers

LEMMA CancelDoes ==
    ASSUME Shape, NEW w \in Writers, Cancel(w), UNCHANGED callVars
    PROVE  Shape' /\ AllQuiet
<1>1. /\ IsTask' /\ Dropped(w) /\ IsBudget'
      /\ UNCHANGED <<ctx, keypad, sample, db, signals, open>>
  BY IdleDrops, StepSpent DEF Shape, Cancel
<1>2. /\ IsLine' /\ line'.heard = line.heard /\ line'.passed = line.passed
      /\ line'.prompts = line.prompts
  <2>1. task[w].row.turn_index \in Nat /\ IsLine
    BY DEF Shape, IsTask, IsHandler, Turn
  <2>2. \/ line' = line
        \/ line' = [line EXCEPT !.cut = line.cut \union {task[w].row.turn_index}]
    BY DEF Cancel
  <2>3. QED  BY <2>1, <2>2 DEF IsLine
<1>3. Shape'
  BY <1>1, <1>2 DEF Shape, IsCtx, IsKeypad, IsDb, IsSignals, IsTool, IsLevels, callVars
<1>4. QED
  BY <1>1, <1>2, <1>3, DropQuiet DEF AllQuiet

LEMMA AudioDoes ==
    ASSUME Shape, Audio, UNCHANGED callVars
    PROVE  /\ Shape'
           /\ RowsQuiet /\ OrderQuiet /\ CauseQuiet /\ MoodQuiet /\ ToolQuiet /\ SumQuiet
           /\ sample = {} /\ sample' = ctx.pending /\ ctx'.pending = {}
           /\ UNCHANGED <<db, task>>
<1>1. UNCHANGED <<keypad, task, db, signals, open, line, budget>>
  BY DEF Audio
<1>2. /\ IsCtx' /\ ctx'.pending = {}
      /\ ctx'.turn_index = ctx.turn_index /\ ctx'.adversarial_streak = ctx.adversarial_streak
      /\ sample = {} /\ sample' = ctx.pending /\ sample' \in SUBSET Nat
  BY DEF Shape, Audio, IsCtx
<1>3. Shape'
  BY <1>1, <1>2
  DEF Shape, IsTask, IsDb, IsKeypad, IsSignals, IsLine, IsBudget, IsTool, IsLevels, callVars
<1>4. QED
  BY <1>1, <1>2, <1>3
  DEF RowsQuiet, OrderQuiet, CauseQuiet, MoodQuiet, ToolQuiet, SumQuiet, Keeps, tap,
      Filed, Writers, callVars

LEMMA SampleDoes ==
    ASSUME Shape, RecordSample, UNCHANGED callVars
    PROVE  /\ Shape'
           /\ RowsQuiet /\ OrderQuiet /\ CauseQuiet /\ MoodQuiet /\ ToolQuiet /\ SumQuiet
           /\ sample' = {} /\ ctx' = ctx
           /\ \E t \in sample : db'.samples = Append(db.samples, t)
           /\ db'.turns = db.turns
           /\ UNCHANGED task
<1>. DEFINE t == CHOOSE x \in sample : TRUE
            q == Append(db.samples, t)
<1>1. /\ sample # {} /\ sample' = {} /\ db' = [db EXCEPT !.samples = q] /\ IsDb
      /\ UNCHANGED <<ctx, keypad, task, signals, open, line, budget>>
  BY DEF RecordSample, Shape
<1>2. t \in sample /\ t \in Nat
  BY <1>1 DEF Shape
<1>. HIDE DEF t
<1>3. q \in Seq(Nat)
  BY <1>1, <1>2, AppendProperties DEF IsDb
<1>4. \E x \in sample : q = Append(db.samples, x)
  BY <1>2
<1>. HIDE DEF q
<1>5. /\ IsDb' /\ db'.samples = q /\ db'.turns = db.turns /\ db'.moods = db.moods
      /\ db'.tagged = db.tagged
  BY <1>1, <1>3 DEF IsDb
<1>6. Shape'
  BY <1>1, <1>5
  DEF Shape, IsCtx, IsTask, IsKeypad, IsSignals, IsLine, IsBudget, IsTool, IsLevels, callVars
<1>7. QED
  BY <1>1, <1>4, <1>5, <1>6
  DEF RowsQuiet, OrderQuiet, CauseQuiet, MoodQuiet, ToolQuiet, SumQuiet, Keeps, tap,
      Filed, Writers, callVars

LEMMA CancelSampleDoes ==
    ASSUME Shape, CancelSample, UNCHANGED callVars
    PROVE  /\ Shape'
           /\ RowsQuiet /\ OrderQuiet /\ CauseQuiet /\ MoodQuiet /\ ToolQuiet /\ SumQuiet
           /\ sample' = {}
           /\ UNCHANGED <<ctx, db, task>>
<1>1. sample' = {} /\ UNCHANGED <<ctx, keypad, task, db, signals, open, line, budget>>
  BY DEF CancelSample
<1>2. QED
  BY <1>1
  DEF Shape, IsCtx, IsTask, IsDb, IsKeypad, IsSignals, IsLine, IsBudget, IsTool, IsLevels, callVars,
      RowsQuiet, OrderQuiet, CauseQuiet, MoodQuiet, ToolQuiet, SumQuiet, Keeps, tap,
      Filed, Writers

---------------------------------------------------------------------------
(* What the tools and the workflow do.                                     *)

\* The pipeline's own parts stay as they are.
PipelineQuiet ==
    /\ RowsQuiet /\ OrderQuiet /\ CauseQuiet /\ MoodQuiet /\ SampleQuiet

LEMMA AsideQuiet ==
    ASSUME UNCHANGED <<ctx, keypad, task, sample, db>>,
           \A k \in {"CALLBACK", "HUMAN", "adversarial", "DISSATISFIED"} : signals'[k] = signals[k],
           line'.heard = line.heard, line'.passed = line.passed, line'.prompts = line.prompts
    PROVE  PipelineQuiet
BY DEF PipelineQuiet, RowsQuiet, OrderQuiet, CauseQuiet, MoodQuiet, SampleQuiet, Keeps, tap, Filed

LEMMA NoToolTyped ==
    /\ NoTool \in [at: {"idle", "query", "read", "signal"}, name: Tools \union {"none"},
                   claimed: Levels, run: 0 .. MaxRuns, level: Levels]
    /\ NoTool.at = "idle"
BY CallAssumption DEF NoTool, Levels

LEMMA ToolFields ==
    ASSUME NEW name \in Tools, NEW claimed \in Levels
    PROVE  /\ [NoTool EXCEPT !.at = "signal", !.name = name] \in ToolCall
           /\ [NoTool EXCEPT !.at = "query", !.name = name, !.claimed = claimed] \in ToolCall
<1>1. NoTool \in ToolCall
  BY NoToolTyped DEF ToolCall
<1>2. [NoTool EXCEPT !.at = "signal", !.name = name] \in ToolCall
  BY <1>1 DEF ToolCall
<1>3. [NoTool EXCEPT !.at = "query", !.name = name, !.claimed = claimed] \in ToolCall
  BY <1>1 DEF ToolCall
<1>4. QED  BY <1>2, <1>3

LEMMA AnsweredLine ==
    ASSUME IsLine, Answered
    PROVE  /\ IsLine' /\ line'.heard = line.heard /\ line'.passed = line.passed
           /\ line'.prompts = line.prompts
           /\ IsTool' /\ tool'.at = "idle"
<1>1. line' = [line EXCEPT !.due = TRUE] /\ tool' = NoTool
  BY DEF Answered
<1>2. IsTool' /\ tool'.at = "idle"
  BY <1>1, NoToolTyped DEF IsTool, ToolCall
<1>3. QED  BY <1>1, <1>2 DEF IsLine

LEMMA CallToolDoes ==
    ASSUME Shape, NEW name \in Tools, NEW claimed \in Claims, CallTool(name, claimed)
    PROVE  /\ Shape' /\ PipelineQuiet /\ SumQuiet
           /\ tool'.at # "read" /\ UNCHANGED <<levels, told>>
<1>1. /\ UNCHANGED <<ctx, keypad, task, sample, db, signals, open, levels, told, summary>>
      /\ IsBudget'
  BY FrameSpent DEF Shape, CallTool
<1>2. /\ IsLine' /\ line'.heard = line.heard /\ line'.passed = line.passed
      /\ line'.prompts = line.prompts
  <2>. DEFINE due == line.due \/ name = "get_insurer_identity"
  <2>1. IsLine /\ line' = [line EXCEPT !.due = due] /\ due \in BOOLEAN
    BY DEF Shape, CallTool
  <2>. HIDE DEF due
  <2>. QED  BY <2>1 DEF IsLine
<1>3. IsTool' /\ tool'.at # "read"
  <2>1. NoTool \in ToolCall /\ "L0" \in Levels /\ 0 \in 0 .. MaxRuns /\ claimed \in Levels
    BY NoToolTyped, CallAssumption DEF ToolCall, Levels
  <2>2. CASE name \in ReadTools
    <3>1. tool' = [NoTool EXCEPT !.at = "query", !.name = name, !.claimed = claimed]
      <4>1. name \notin WriteTools \union HumanRequestTools
        BY <2>2 DEF ReadTools, WriteTools, HumanRequestTools
      <4>2. QED  BY <2>2, <4>1 DEF CallTool
    <3>2. tool' \in ToolCall
      BY <2>1, <3>1, ToolFields
    <3>3. tool'.at = "query" /\ tool'.name = name
      BY <3>1 DEF NoTool
    <3>4. QED  BY <2>2, <3>2, <3>3 DEF IsTool
  <2>3. CASE name \notin ReadTools /\ name \in WriteTools \union HumanRequestTools
    <3>1. tool' = [NoTool EXCEPT !.at = "signal", !.name = name]
      BY <2>3 DEF CallTool
    <3>2. tool' \in ToolCall
      BY <2>1, <3>1, ToolFields
    <3>3. tool'.at = "signal"
      BY <3>1 DEF NoTool
    <3>4. QED  BY <3>2, <3>3 DEF IsTool
  <2>4. CASE name \notin ReadTools /\ name \notin WriteTools \union HumanRequestTools
    <3>1. tool' = NoTool
      BY <2>4 DEF CallTool
    <3>2. QED  BY <2>1, <3>1, NoToolTyped DEF IsTool
  <2>5. QED  BY <2>2, <2>3, <2>4
<1>4. Shape'
  BY <1>1, <1>2, <1>3
  DEF Shape, IsCtx, IsTask, IsDb, IsKeypad, IsSignals, IsLevels
<1>5. QED
  BY <1>1, <1>2, <1>3, <1>4, AsideQuiet DEF SumQuiet

LEMMA QueryDoes ==
    ASSUME Shape, QueryLevel
    PROVE  /\ Shape' /\ PipelineQuiet /\ SumQuiet
           /\ \/ tool'.at # "read"
              \/ /\ tool'.run = Len(levels) /\ tool'.level = levels[Len(levels)]
                 /\ tool'.level # "L0"
           /\ UNCHANGED <<levels, told>>
<1>1. UNCHANGED <<ctx, keypad, task, sample, db, signals, open, budget, levels, told, summary>>
  BY DEF QueryLevel
<1>. DEFINE run == Len(levels)
            level == levels[run]
<1>2. run \in 1 .. MaxRuns /\ level \in Levels
  BY ElementOfSeq DEF Shape, IsLevels
<1>3. /\ IsTool' /\ IsLine' /\ line'.heard = line.heard /\ line'.passed = line.passed
      /\ line'.prompts = line.prompts
      /\ \/ tool'.at # "read"
         \/ tool'.run = run /\ tool'.level = level /\ level # "L0"
  <2>1. CASE level = "L0"
    <3>1. Answered
      BY <2>1 DEF QueryLevel, GoesBy
    <3>2. QED  BY <3>1, AnsweredLine DEF Shape
  <2>2. CASE level # "L0"
    <3>1. /\ tool' = [tool EXCEPT !.at = "read", !.run = run, !.level = level] /\ line' = line
          /\ tool.at = "query" /\ IsTool /\ IsLine
      BY <2>2 DEF QueryLevel, GoesBy, Shape
    <3>. HIDE DEF run, level
    <3>2. tool' \in ToolCall
      <4>1. tool = [at |-> tool.at, name |-> tool.name, claimed |-> tool.claimed,
                    run |-> tool.run, level |-> tool.level]
            /\ tool.name \in Tools \union {"none"} /\ tool.claimed \in Levels
        BY <3>1 DEF IsTool, ToolCall
      <4>2. run \in 0 .. MaxRuns
        BY <1>2
      <4>3. QED  BY <1>2, <3>1, <4>1, <4>2 DEF ToolCall
    <3>3. tool'.at = "read" /\ tool'.run = run /\ tool'.level = level /\ tool'.name = tool.name
      BY <3>1 DEF IsTool, ToolCall
    <3>4. QED  BY <1>2, <2>2, <3>1, <3>2, <3>3 DEF IsTool, IsLine
  <2>3. QED  BY <2>1, <2>2
<1>4. Shape'
  BY <1>1, <1>3
  DEF Shape, IsCtx, IsTask, IsDb, IsKeypad, IsBudget, IsSignals, IsLevels
<1>5. QED
  BY <1>1, <1>3, <1>4, AsideQuiet DEF SumQuiet

\* a is the answer of the tool in progress.
Answers(a) ==
    a.run = tool.run /\ a.level = tool.level /\ (a.status = "FINANCIAL_AMOUNT" => tool.level = "L2")

LEMMA ReadDoes ==
    ASSUME Shape, ReadClaim
    PROVE  /\ Shape' /\ PipelineQuiet /\ SumQuiet
           /\ tool.at = "read" /\ tool'.at = "idle" /\ levels' = levels
           /\ \A a \in told' : a \in told \/ Answers(a)
<1>1. UNCHANGED <<ctx, keypad, task, sample, db, signals, open, budget, levels, summary>>
  BY DEF ReadClaim
<1>2. /\ IsTool' /\ IsLine' /\ line'.heard = line.heard /\ line'.passed = line.passed
      /\ line'.prompts = line.prompts /\ tool.at = "read" /\ tool'.at = "idle"
  BY AnsweredLine DEF Shape, ReadClaim
<1>3. \/ told' = told
      \/ \E claim \in ClaimsOnFile :
            told' = told \union {[tool |-> tool.name, run |-> tool.run,
                                 level |-> tool.level, status |-> Finds(claim)]}
  BY DEF ReadClaim
<1>4. told' \subseteq Answer /\ \A a \in told' : a \in told \/ Answers(a)
  <2>1. CASE told' = told
    BY <2>1 DEF Shape
  <2>2. CASE told' # told
    <3>1. PICK claim \in ClaimsOnFile :
            told' = told \union {[tool |-> tool.name, run |-> tool.run,
                                 level |-> tool.level, status |-> Finds(claim)]}
      BY <1>3, <2>2
    <3>2. /\ Finds(claim) \in Disclosures
          /\ Finds(claim) = "FINANCIAL_AMOUNT" => tool.level = "L2"
      BY DEF Finds, get_disclosable_status, Withheld, Disclosures
    <3>3. /\ tool.name \in ReadTools /\ tool.run \in 1 .. MaxRuns /\ tool.level \in Levels
      BY <1>2 DEF Shape, IsTool, ToolCall
    <3>. DEFINE status == Finds(claim)
    <3>. HIDE DEF status
    <3>4. [tool |-> tool.name, run |-> tool.run, level |-> tool.level, status |-> status]
            \in Answer
      BY <3>2, <3>3 DEF Answer, status
    <3>5. QED  BY <3>1, <3>2, <3>4 DEF Shape, Answers, status
  <2>3. QED  BY <2>1, <2>2
<1>5. Shape'
  BY <1>1, <1>2, <1>4
  DEF Shape, IsCtx, IsTask, IsDb, IsKeypad, IsBudget, IsSignals, IsLevels
<1>6. QED
  BY <1>1, <1>2, <1>4, <1>5, AsideQuiet DEF SumQuiet

LEMMA IntentDoes ==
    ASSUME Shape, SignalIntent
    PROVE  /\ Shape' /\ PipelineQuiet /\ SumQuiet
           /\ tool'.at = "idle" /\ UNCHANGED <<levels, told>>
<1>1. UNCHANGED <<ctx, keypad, task, sample, db, open, budget, levels, told, summary>>
  BY DEF SignalIntent
<1>2. /\ IsTool' /\ IsLine' /\ line'.heard = line.heard /\ line'.passed = line.passed
      /\ line'.prompts = line.prompts /\ tool'.at = "idle"
  <2>1. CASE open
    BY <2>1, AnsweredLine DEF Shape, SignalIntent
  <2>2. CASE ~open
    <3>1. tool' = NoTool /\ line' = line
      BY <2>2 DEF SignalIntent
    <3>2. QED  BY <3>1, NoToolTyped DEF Shape, IsTool, IsLine, ToolCall
  <2>3. QED  BY <2>1, <2>2
<1>3. /\ IsSignals'
      /\ \A k \in {"CALLBACK", "HUMAN", "adversarial", "DISSATISFIED"} : signals'[k] = signals[k]
  <2>1. \/ signals' = signals
        \/ signals' = [signals EXCEPT !["transfer"] = @ + 1]
        \/ signals' = [signals EXCEPT !["intent"] = @ + 1]
    BY DEF SignalIntent, ToolSignal
  <2>2. QED  BY <2>1 DEF Shape, IsSignals, Kinds
<1>4. Shape'
  BY <1>1, <1>2, <1>3 DEF Shape, IsCtx, IsTask, IsDb, IsKeypad, IsBudget, IsLevels
<1>5. QED
  BY <1>1, <1>2, <1>3, <1>4, AsideQuiet DEF SumQuiet

LEMMA CancelToolDoes ==
    ASSUME Shape, CancelTool
    PROVE  /\ Shape' /\ PipelineQuiet /\ SumQuiet
           /\ tool'.at = "idle" /\ UNCHANGED <<levels, told>>
<1>1. /\ UNCHANGED <<ctx, keypad, task, sample, db, signals, open, line, levels, told, summary>>
      /\ IsBudget' /\ tool' = NoTool
  BY StepSpent DEF Shape, CancelTool
<1>2. IsTool' /\ tool'.at = "idle"
  BY <1>1, NoToolTyped DEF IsTool, ToolCall
<1>3. Shape'
  BY <1>1, <1>2 DEF Shape, IsCtx, IsTask, IsDb, IsKeypad, IsLine, IsSignals, IsLevels
<1>4. QED
  BY <1>1, <1>2, <1>3, AsideQuiet DEF SumQuiet

LEMMA VerifyDoes ==
    ASSUME Shape, Verify
    PROVE  /\ Shape' /\ PipelineQuiet /\ SumQuiet /\ UNCHANGED <<tool, told>>
           /\ DOMAIN levels' = DOMAIN levels
           /\ \A r \in DOMAIN levels : LevelRank[levels[r]] <= LevelRank[levels'[r]]
<1>1. /\ UNCHANGED <<ctx, keypad, task, sample, db, signals, open, line, tool, told, summary>>
      /\ IsBudget'
  BY StepSpent DEF Shape, Verify
<1>2. PICK level \in {"L1", "L2"} : levels' = [levels EXCEPT ![Len(levels)] = level]
  BY DEF Verify
<1>3. levels \in Seq(Levels) /\ Len(levels) \in 1 .. MaxRuns
  BY DEF Shape, IsLevels
<1>4. level \in Levels /\ Len(levels) \in 1 .. Len(levels)
  BY <1>3 DEF Levels
<1>5. /\ levels' \in Seq(Levels) /\ Len(levels') = Len(levels)
      /\ \A r \in 1 .. Len(levels) : levels'[r] = IF r = Len(levels) THEN level ELSE levels[r]
  BY <1>2, <1>3, <1>4, ExceptSeq
<1>6. DOMAIN levels = 1 .. Len(levels) /\ DOMAIN levels' = 1 .. Len(levels)
  BY <1>3, <1>5, LenProperties
<1>7. \A l \in Levels : LevelRank[l] \in Nat
  BY DEF Levels, LevelRank
<1>8. \A r \in 1 .. Len(levels) : levels[r] \in Levels
  BY <1>3, ElementOfSeq
<1>9. ASSUME NEW r \in DOMAIN levels
      PROVE  LevelRank[levels[r]] <= LevelRank[levels'[r]]
  <2>1. r \in 1 .. Len(levels) /\ LevelRank[levels[r]] \in Nat
    BY <1>6, <1>7, <1>8, <1>9
  <2>2. CASE r = Len(levels)
    <3>1. levels'[r] = level /\ levels[r] = "L0"
      BY <1>2, <1>5, <2>1, <2>2 DEF Verify
    <3>2. QED  BY <1>2, <3>1 DEF LevelRank
  <2>3. CASE r # Len(levels)
    <3>1. levels'[r] = levels[r]
      BY <1>5, <2>1, <2>3
    <3>2. QED  BY <2>1, <3>1
  <2>4. QED  BY <2>2, <2>3
<1>10. Shape'
  BY <1>1, <1>3, <1>5
  DEF Shape, IsCtx, IsTask, IsDb, IsKeypad, IsLine, IsSignals, IsTool, IsLevels
<1>11. QED
  BY <1>1, <1>6, <1>9, <1>10, AsideQuiet DEF SumQuiet

LEMMA CloseDoes ==
    ASSUME Shape, Close
    PROVE  Shape' /\ PipelineQuiet /\ ToolQuiet /\ SumQuiet
<1>1. /\ UNCHANGED <<ctx, keypad, task, sample, db, signals, line, callVars>>
      /\ IsBudget' /\ open' = FALSE
  BY StepSpent DEF Shape, Close
<1>2. Shape'
  BY <1>1
  DEF Shape, IsCtx, IsTask, IsDb, IsKeypad, IsLine, IsSignals, IsTool, IsLevels, callVars
<1>3. QED
  BY <1>1, <1>2, AsideQuiet DEF SumQuiet, ToolQuiet, callVars

LEMMA RedialDoes ==
    ASSUME Shape, Redial
    PROVE  /\ Shape' /\ PipelineQuiet /\ SumQuiet /\ UNCHANGED <<tool, told>>
           /\ DOMAIN levels \subseteq DOMAIN levels'
           /\ \A r \in DOMAIN levels : levels'[r] = levels[r]
<1>1. /\ UNCHANGED <<ctx, keypad, task, sample, db, signals, line, tool, told, summary>>
      /\ IsBudget' /\ open' = TRUE /\ levels' = Append(levels, "L0") /\ Len(levels) < MaxRuns
  BY StepSpent DEF Shape, Redial
<1>2. levels \in Seq(Levels) /\ Len(levels) \in 1 .. MaxRuns /\ "L0" \in Levels
  BY DEF Shape, IsLevels, Levels
<1>3. /\ levels' \in Seq(Levels) /\ Len(levels') = Len(levels) + 1
      /\ \A r \in 1 .. Len(levels) : levels'[r] = levels[r]
  BY <1>1, <1>2, AppendProperties
<1>4. DOMAIN levels = 1 .. Len(levels) /\ DOMAIN levels' = 1 .. Len(levels')
  BY <1>2, <1>3, LenProperties
<1>5. Len(levels') \in 1 .. MaxRuns
  BY <1>1, <1>2, <1>3, CallAssumption
<1>6. DOMAIN levels \subseteq DOMAIN levels' /\ \A r \in DOMAIN levels : levels'[r] = levels[r]
  BY <1>2, <1>3, <1>4
<1>7. Shape'
  BY <1>1, <1>3, <1>5
  DEF Shape, IsCtx, IsTask, IsDb, IsKeypad, IsLine, IsSignals, IsTool, IsLevels
<1>8. QED
  BY <1>1, <1>6, <1>7, AsideQuiet DEF SumQuiet

LEMMA WriteSummaryDoes ==
    ASSUME Shape, WriteSummary
    PROVE  /\ Shape' /\ PipelineQuiet /\ ToolQuiet
           /\ summary.at = "none" /\ summary'.at = "read"
           /\ summary'.sentiment = summary.sentiment
           /\ summary'.since = Len(db.moods) /\ db' = db
<1>1. /\ UNCHANGED <<ctx, keypad, task, sample, db, signals, open, line, tool, levels, told>>
      /\ IsBudget' /\ summary.at = "none" /\ summary \in Summary
      /\ summary' = [summary EXCEPT !.at = "read", !.since = Len(db.moods)]
  BY StepSpent DEF Shape, WriteSummary
<1>2. Len(db.moods) \in Nat
  BY LenProperties DEF Shape, IsDb
<1>3. /\ summary' \in Summary /\ summary'.at = "read" /\ summary'.since = Len(db.moods)
      /\ summary'.sentiment = summary.sentiment
  <2>. DEFINE n == Len(db.moods)
  <2>1. summary' = [summary EXCEPT !.at = "read", !.since = n] /\ n \in Nat
    BY <1>1, <1>2
  <2>. HIDE DEF n
  <2>2. /\ summary' \in Summary /\ summary'.at = "read" /\ summary'.since = n
        /\ summary'.sentiment = summary.sentiment
    BY <1>1, <2>1 DEF Summary
  <2>. QED  BY <2>2 DEF n
<1>4. Shape'
  BY <1>1, <1>3
  DEF Shape, IsCtx, IsTask, IsDb, IsKeypad, IsLine, IsSignals, IsTool, IsLevels
<1>5. QED
  BY <1>1, <1>3, <1>4, AsideQuiet DEF ToolQuiet

\* The row with the highest turn index is the last one appended.
LEMMA LastMood ==
    ASSUME NEW moods \in Seq(MoodRow), moods # <<>>,
           \A i, j \in DOMAIN moods : i < j => moods[i].turn < moods[j].turn
    PROVE  /\ Len(moods) \in DOMAIN moods
           /\ get_last_turn_sentiment(moods) = moods[Len(moods)].sentiment
           /\ moods[Len(moods)].sentiment \in Sentiments
<1>1. /\ Len(moods) \in Nat \ {0} /\ DOMAIN moods = 1 .. Len(moods)
      /\ \A i \in DOMAIN moods : moods[i] \in MoodRow
  BY LenProperties, ElementOfSeq, EmptySeq
<1>2. \A i \in DOMAIN moods : moods[i].turn \in Nat /\ moods[i].sentiment \in Sentiments
  BY <1>1 DEF MoodRow
<1>3. Len(moods) \in DOMAIN moods
  BY <1>1
<1>4. \A j \in DOMAIN moods : moods[j].turn <= moods[Len(moods)].turn
  <2>1. SUFFICES ASSUME NEW j \in DOMAIN moods
                 PROVE  moods[j].turn <= moods[Len(moods)].turn
    OBVIOUS
  <2>2. j = Len(moods) \/ j < Len(moods)
    BY <1>1
  <2>3. QED  BY <1>2, <1>3, <2>2
<1>. DEFINE Latest(i) == \A j \in DOMAIN moods : moods[j].turn <= moods[i].turn
            last == CHOOSE i \in DOMAIN moods : Latest(i)
<1>5. last \in DOMAIN moods /\ Latest(last)
  BY <1>3, <1>4
<1>6. last = Len(moods)
  <2>1. moods[Len(moods)].turn <= moods[last].turn
    BY <1>3, <1>5
  <2>2. last < Len(moods) => moods[last].turn < moods[Len(moods)].turn
    BY <1>3, <1>5
  <2>3. moods[last].turn \in Nat /\ moods[Len(moods)].turn \in Nat
    BY <1>2, <1>3, <1>5
  <2>4. last = Len(moods) \/ last < Len(moods)
    BY <1>1, <1>5
  <2>. HIDE DEF last
  <2>5. QED  BY <2>1, <2>2, <2>3, <2>4
<1>7. get_last_turn_sentiment(moods) = moods[last].sentiment
  BY DEF get_last_turn_sentiment
<1>. HIDE DEF last
<1>8. QED
  BY <1>2, <1>3, <1>6, <1>7

LEMMA ReadFinalDoes ==
    ASSUME Shape, Felt, ReadFinalSentiment
    PROVE  /\ Shape' /\ PipelineQuiet /\ ToolQuiet /\ db' = db
           /\ summary.at = "read" /\ summary'.since = summary.since
           /\ summary'.at \in {"record", "done"}
           /\ summary'.sentiment # "NONE" =>
                 /\ Len(db.moods) \in DOMAIN db.moods
                 /\ summary'.sentiment = db.moods[Len(db.moods)].sentiment
<1>. DEFINE s == get_last_turn_sentiment(db.moods)
            at == IF db.moods = <<>> THEN "done" ELSE "record"
<1>1. /\ UNCHANGED <<pipelineVars, tool, levels, told>>
      /\ summary.at = "read" /\ summary \in Summary
      /\ summary' = [summary EXCEPT !.sentiment = s, !.at = at]
  BY DEF Shape, ReadFinalSentiment
<1>2. UNCHANGED <<ctx, keypad, task, sample, db, signals, open, line, budget>>
  BY <1>1 DEF pipelineVars
<1>3. at \in {"record", "done"}
  OBVIOUS
<1>4. \/ s = "NONE"
      \/ /\ s \in Sentiments /\ Len(db.moods) \in DOMAIN db.moods
         /\ s = db.moods[Len(db.moods)].sentiment
  <2>1. CASE db.moods = <<>>
    BY <2>1 DEF get_last_turn_sentiment
  <2>2. CASE db.moods # <<>>
    BY <2>2, LastMood DEF Shape, IsDb, Felt
  <2>3. QED  BY <2>1, <2>2
<1>. HIDE DEF s, at
<1>5. /\ summary' \in Summary /\ summary'.at = at /\ summary'.sentiment = s
      /\ summary'.since = summary.since
  <2>1. s \in {"NONE", "POSITIVE", "NEUTRAL", "NEGATIVE"}
    BY <1>4 DEF Sentiments
  <2>2. QED  BY <1>1, <1>3, <2>1 DEF Summary
<1>6. Shape'
  BY <1>1, <1>2, <1>5
  DEF Shape, IsCtx, IsTask, IsDb, IsKeypad, IsLine, IsBudget, IsSignals, IsTool, IsLevels
<1>7. QED
  BY <1>1, <1>2, <1>3, <1>4, <1>5, <1>6, AsideQuiet DEF ToolQuiet

LEMMA RecordFinalDoes ==
    ASSUME Shape, RecordFinalSentiment
    PROVE  /\ Shape' /\ PipelineQuiet /\ ToolQuiet /\ db' = db
           /\ summary.at = "record" /\ summary'.at = "done"
           /\ summary'.sentiment = summary.sentiment /\ summary'.since = summary.since
<1>1. /\ UNCHANGED <<ctx, keypad, task, sample, db, signals, open, line, budget, tool, levels, told>>
      /\ summary.at = "record" /\ summary \in Summary
      /\ summary' = [summary EXCEPT !.at = "done"]
  BY DEF Shape, RecordFinalSentiment, pipelineVars
<1>2. /\ summary' \in Summary /\ summary'.at = "done"
      /\ summary'.sentiment = summary.sentiment /\ summary'.since = summary.since
  BY <1>1 DEF Summary
<1>3. Shape'
  BY <1>1, <1>2
  DEF Shape, IsCtx, IsTask, IsDb, IsKeypad, IsLine, IsBudget, IsSignals, IsTool, IsLevels
<1>4. QED
  BY <1>1, <1>2, <1>3, AsideQuiet DEF ToolQuiet

---------------------------------------------------------------------------
(* The turn counter.                                                       *)

LEMMA Handlers ==
    /\ Writers = {"tap", "assistant"} /\ "tap" # "assistant"
    /\ SpeakerOf("tap") = "CUSTOMER" /\ SpeakerOf("assistant") = "AI"
BY DEF Writers, SpeakerOf

LEMMA RowTypes ==
    ASSUME Shape
    PROVE  /\ ctx.turn_index \in Nat
           /\ \A r \in db.turns : r.turn_index \in Nat /\ r.about \in Nat
                                /\ r.speaker \in {"CUSTOMER", "AI"}
           /\ \A w \in Writers : task[w].row.turn_index \in Nat /\ task[w].row.about \in Nat
                                /\ task[w].about \in Nat
           /\ line.heard \in Nat /\ line.passed \in Nat
<1>1. ctx.turn_index \in Nat /\ line.heard \in Nat /\ line.passed \in Nat
  BY DEF Shape, IsCtx, IsLine
<1>2. \A r \in db.turns : r \in Turn
  BY DEF Shape, IsDb
<1>3. \A w \in Writers : task[w].row \in Turn /\ task[w].about \in Nat
  BY DEF Shape, IsTask, IsHandler
<1>4. QED  BY <1>1, <1>2, <1>3 DEF Turn

LEMMA IndexedQuiet == ASSUME Indexed, RowsQuiet PROVE Indexed'
BY Handlers DEF Indexed, RowsQuiet, Keeps, tap, assistant

LEMMA IndexedTaken ==
    ASSUME Shape, Indexed, NEW w \in Writers, Taken(w)
    PROVE  Indexed'
<1>1. \A r \in db.turns : r.turn_index \in Nat /\ r.turn_index < ctx.turn_index
  BY RowTypes DEF Indexed
<1>2. /\ db'.turns = db.turns /\ ctx'.turn_index = ctx.turn_index + 1 /\ ctx.turn_index \in Nat
      /\ task'[w].row.turn_index = ctx.turn_index /\ task'[w].row.speaker = SpeakerOf(w)
      /\ task'[w].at = "store" /\ \A v \in Writers \ {w} : task'[v] = task[v]
  BY RowTypes DEF Taken, Others
<1>3. \A v \in Writers \ {w} : task[v].at = "store" =>
        task[v].row.turn_index \in Nat /\ task[v].row.turn_index < ctx.turn_index
  BY RowTypes DEF Indexed
<1>4. \A r \in db.turns : r.turn_index < ctx.turn_index + 1 /\ r.turn_index # ctx.turn_index
  BY <1>1, <1>2
<1>5. \A v \in Writers : task'[v].at = "store" =>
        /\ task'[v].row.turn_index < ctx'.turn_index
        /\ task'[v].row.speaker = SpeakerOf(v)
        /\ \A r \in db'.turns : r.turn_index # task'[v].row.turn_index
  <2>1. SUFFICES ASSUME NEW v \in Writers, task'[v].at = "store"
                 PROVE  /\ task'[v].row.turn_index < ctx'.turn_index
                        /\ task'[v].row.speaker = SpeakerOf(v)
                        /\ \A r \in db'.turns : r.turn_index # task'[v].row.turn_index
    OBVIOUS
  <2>2. CASE v = w
    BY <1>2, <1>4, <2>2
  <2>3. CASE v # w
    BY <1>2, <1>3, <2>1, <2>3 DEF Indexed
  <2>4. QED  BY <2>2, <2>3
<1>6. task'["tap"].at = "store" /\ task'["assistant"].at = "store" =>
        task'["tap"].row.turn_index # task'["assistant"].row.turn_index
  BY <1>2, <1>3, Handlers
<1>7. task'["tap"].at \in Filed =>
        task'["tap"].row \in db'.turns /\ task'["tap"].row.speaker = "CUSTOMER"
  BY <1>2, Handlers DEF Indexed, Filed, tap
<1>8. QED
  BY <1>2, <1>4, <1>5, <1>6, <1>7 DEF Indexed, tap, assistant

LEMMA IndexedStored ==
    ASSUME Shape, Indexed, NEW w \in Writers, Stored(w)
    PROVE  Indexed'
<1>. DEFINE row == task[w].row
<1>1. /\ task[w].at = "store" /\ db'.turns = db.turns \union {row}
      /\ ctx'.turn_index = ctx.turn_index /\ task'[w].row = row
      /\ task'[w].at # "store" /\ \A v \in Writers \ {w} : task'[v] = task[v]
  BY DEF Stored, Others
<1>2. /\ row.turn_index < ctx.turn_index /\ row.speaker = SpeakerOf(w)
      /\ \A r \in db.turns : r.turn_index # row.turn_index
  BY <1>1 DEF Indexed
<1>3. \A v \in Writers \ {w} : task[v].at = "store" => task[v].row.turn_index # row.turn_index
  BY <1>1, Handlers DEF Indexed, tap, assistant
<1>4. \A v \in Writers : task'[v].at = "store" =>
        /\ v # w
        /\ task'[v].row.turn_index < ctx'.turn_index
        /\ task'[v].row.speaker = SpeakerOf(v)
        /\ \A r \in db'.turns : r.turn_index # task'[v].row.turn_index
  BY <1>1, <1>3 DEF Indexed
<1>5. task'["tap"].at \in Filed =>
        task'["tap"].row \in db'.turns /\ task'["tap"].row.speaker = "CUSTOMER"
  BY <1>1, <1>2, Handlers DEF Indexed, tap
<1>6. QED
  BY <1>1, <1>2, <1>4, <1>5, Handlers DEF Indexed, tap, assistant

---------------------------------------------------------------------------
(* The order of questions and answers.                                     *)

LEMMA OrderedQuiet == ASSUME Ordered, RowsQuiet, OrderQuiet PROVE Ordered'
<1>1. Asked' \subseteq Asked /\ Given' \subseteq Given
  BY Handlers DEF Asked, Given, RowsQuiet, Keeps, tap, assistant
<1>2. /\ line'.heard = line.heard /\ line'.passed = line.passed
      /\ tap'.at # "idle" => tap.at # "idle" /\ tap'.about = tap.about
      /\ assistant'.at # "idle" => assistant.at # "idle" /\ assistant'.about = assistant.about
      /\ tap'.at = "store" => tap.at = "store" /\ tap'.row = tap.row
  BY Handlers DEF OrderQuiet, RowsQuiet, Keeps, tap, assistant
<1>3. QED  BY <1>1, <1>2 DEF Ordered

LEMMA OrderedHear ==
    ASSUME Shape, Ordered, tap.at = "idle", tap'.at \in {"audit", "turn"},
           tap'.about = line.heard + 1, Others("tap"),
           line'.heard = line.heard + 1, line'.passed = line.passed, db'.turns = db.turns
    PROVE  Ordered'
<1>1. assistant' = assistant
  BY Handlers DEF Others, assistant
<1>2. Asked' \subseteq Asked /\ Given' = Given
  BY <1>1 DEF Asked, Given
<1>3. line.passed \in Nat /\ line.heard \in Nat /\ line.passed <= line.heard
  BY RowTypes DEF Ordered
<1>4. line'.passed < line'.heard
  BY <1>3
<1>5. line'.passed <= line'.heard
  BY <1>3
<1>6. QED  BY <1>1, <1>2, <1>4, <1>5 DEF Ordered

LEMMA OrderedTaken ==
    ASSUME Shape, Indexed, Ordered, NEW w \in Writers, Taken(w), task[w].at # "idle",
           line' = line
    PROVE  Ordered'
<1>1. /\ db'.turns = db.turns /\ task'[w].row.turn_index = ctx.turn_index
      /\ task'[w].row.about = task[w].about /\ task'[w].about = task[w].about
      /\ task'[w].at = "store" /\ \A v \in Writers \ {w} : task'[v] = task[v]
      /\ line' = line
  BY DEF Taken, Others
<1>2. CASE w = "tap"
  <2>1. assistant' = assistant
    BY <1>1, <1>2, Handlers DEF assistant
  <2>2. Given' = Given /\ \A c \in Asked' : c \in Asked \/ c = tap'.row
    BY <1>1, <2>1 DEF Given, Asked
  <2>3. tap'.row.about = line.heard /\ tap'.about = line.heard /\ line.passed < line.heard
        /\ tap'.at = "store"
    BY <1>1, <1>2 DEF Ordered, tap
  <2>4. \A a \in Given : a.about \in Nat /\ a.about <= line.passed
    BY RowTypes, Handlers DEF Given, Ordered, assistant
  <2>5. \A a \in Given : ~(line.heard <= a.about)
    BY <2>3, <2>4, RowTypes
  <2>6. \A c \in Asked', a \in Given' : c.about <= a.about => c.turn_index < a.turn_index
    BY <2>2, <2>3, <2>5 DEF Ordered
  <2>7. QED
    BY <1>1, <2>1, <2>2, <2>3, <2>6 DEF Ordered
<1>3. CASE w = "assistant"
  <2>1. tap' = tap
    BY <1>1, <1>3, Handlers DEF tap
  <2>2. Asked' = Asked /\ \A a \in Given' : a \in Given \/ a = assistant'.row
    BY <1>1, <2>1 DEF Given, Asked
  <2>3. /\ assistant'.row.about <= line.passed /\ assistant'.about <= line.passed
        /\ assistant'.row.turn_index = ctx.turn_index
    BY <1>1, <1>3 DEF Ordered, assistant
  <2>4. \A c \in Asked : c.turn_index < ctx.turn_index
    BY Handlers DEF Asked, Indexed, tap
  <2>5. QED
    BY <1>1, <2>1, <2>2, <2>3, <2>4 DEF Ordered
<1>4. QED  BY <1>2, <1>3, Handlers

LEMMA OrderedStored ==
    ASSUME Indexed, Ordered, NEW w \in Writers, Stored(w)
    PROVE  Ordered'
<1>1. /\ task[w].at = "store" /\ db'.turns = db.turns \union {task[w].row}
      /\ task'[w].at \notin {"store", "idle"} /\ task'[w].about = task[w].about
      /\ task[w].row.speaker = SpeakerOf(w)
      /\ \A v \in Writers \ {w} : task'[v] = task[v]
      /\ line' = line
  BY DEF Stored, Others, Indexed
<1>2. CASE w = "tap"
  <2>1. assistant' = assistant /\ tap.row.speaker = "CUSTOMER" /\ tap.at = "store"
        /\ db'.turns = db.turns \union {tap.row} /\ tap'.at \notin {"store", "idle"}
        /\ tap'.about = tap.about
    BY <1>1, <1>2, Handlers DEF assistant, tap
  <2>2. Given' \subseteq Given /\ Asked' \subseteq Asked
    BY <2>1 DEF Given, Asked
  <2>3. QED
    BY <1>1, <2>1, <2>2 DEF Ordered
<1>3. CASE w = "assistant"
  <2>1. tap' = tap /\ assistant.row.speaker = "AI" /\ assistant.at = "store"
        /\ db'.turns = db.turns \union {assistant.row} /\ assistant'.at \notin {"store", "idle"}
        /\ assistant'.about = assistant.about
    BY <1>1, <1>3, Handlers DEF assistant, tap
  <2>2. Given' \subseteq Given /\ Asked' \subseteq Asked
    BY <2>1 DEF Given, Asked
  <2>3. QED
    BY <1>1, <2>1, <2>2 DEF Ordered
<1>4. QED  BY <1>2, <1>3, Handlers

LEMMA OrderedPassed ==
    ASSUME Shape, Ordered, tap.at = "push", Dropped("tap"), line'.heard = line.heard,
           line'.passed = tap.about, db'.turns = db.turns
    PROVE  Ordered'
<1>1. assistant' = assistant /\ tap'.at = "idle"
  BY Handlers DEF Dropped, Others, assistant, tap, Handling, Idle
<1>2. Asked' \subseteq Asked /\ Given' = Given
  BY <1>1 DEF Asked, Given
<1>3. line'.passed = line.heard /\ line'.heard = line.heard
  BY DEF Ordered
<1>4. \A n \in Nat : n <= line.passed => n <= line.heard
  BY RowTypes DEF Ordered
<1>5. assistant.about \in Nat /\ \A a \in Given : a.about \in Nat
  BY RowTypes, Handlers DEF Given, assistant
<1>6. line.heard <= line.heard
  BY RowTypes
<1>7. QED  BY <1>1, <1>2, <1>3, <1>4, <1>5, <1>6 DEF Ordered

LEMMA OrderedStart ==
    ASSUME Shape, Ordered, assistant'.at = "reply", assistant'.about = line.passed,
           Others("assistant"), line'.heard = line.heard, line'.passed = line.passed, db' = db
    PROVE  Ordered'
<1>1. tap' = tap
  BY Handlers DEF Others, tap
<1>2. Asked' = Asked /\ Given' \subseteq Given
  BY <1>1 DEF Asked, Given
<1>3. line.passed <= line.passed
  BY RowTypes
<1>4. QED  BY <1>1, <1>2, <1>3 DEF Ordered

---------------------------------------------------------------------------
(* The keypad and the guard.                                               *)

LEMMA CauseTypes ==
    ASSUME Shape
    PROVE  /\ signals["CALLBACK"] \in Nat /\ signals["HUMAN"] \in Nat
           /\ signals["adversarial"] \in Nat /\ signals["DISSATISFIED"] \in Nat
           /\ line.prompts \in Nat /\ ctx.adversarial_streak \in Nat /\ db.tagged \in Nat
           /\ keypad.fallback \in BOOLEAN
BY DEF Shape, IsSignals, Kinds, IsLine, IsCtx, IsDb, IsKeypad

LEMMA EarnedQuiet ==
    ASSUME Shape, Earned, CauseQuiet
    PROVE  Earned'
<1>1. /\ signals'["CALLBACK"] = signals["CALLBACK"] /\ signals'["HUMAN"] = signals["HUMAN"]
      /\ signals'["adversarial"] = signals["adversarial"]
      /\ keypad'.fallback = keypad.fallback /\ line'.prompts = line.prompts
      /\ ctx'.adversarial_streak = ctx.adversarial_streak /\ db'.tagged = db.tagged
      /\ tap'.at = "streak" => tap.at = "streak"
  BY DEF CauseQuiet
<1>2. ctx.adversarial_streak \in Nat /\ db.tagged \in Nat
  BY CauseTypes
<1>3. ctx'.adversarial_streak + (IF tap'.at = "streak" THEN 1 ELSE 0) <= db'.tagged
  BY <1>1, <1>2 DEF Earned
<1>4. QED  BY <1>1, <1>3 DEF Earned

LEMMA EarnedTag ==
    ASSUME Shape, Earned, tap.at = "audit", tap'.at = "streak", db'.tagged = db.tagged + 1,
           UNCHANGED <<ctx, keypad, signals, line>>
    PROVE  Earned'
<1>1. ctx.adversarial_streak \in Nat /\ db.tagged \in Nat
  BY CauseTypes
<1>2. ctx'.adversarial_streak + (IF tap'.at = "streak" THEN 1 ELSE 0) <= db'.tagged
  BY <1>1 DEF Earned
<1>3. QED  BY <1>2 DEF Earned

LEMMA EarnedCount ==
    ASSUME Shape, Earned, tap.at = "streak", tap'.at # "streak",
           ctx'.adversarial_streak = ctx.adversarial_streak + 1,
           \/ signals' = signals
           \/ /\ ctx'.adversarial_streak >= MAX_ADVERSARIAL_STREAK
              /\ signals' = [signals EXCEPT !["adversarial"] = @ + 1],
           UNCHANGED <<keypad, db, line>>
    PROVE  Earned'
<1>1. /\ ctx.adversarial_streak \in Nat /\ db.tagged \in Nat /\ signals["adversarial"] \in Nat
      /\ MAX_ADVERSARIAL_STREAK \in Nat \ {0}
  BY CauseTypes, PipelineAssumption
<1>2. ctx'.adversarial_streak + (IF tap'.at = "streak" THEN 1 ELSE 0) <= db'.tagged
  BY <1>1 DEF Earned
<1>3. /\ signals'["CALLBACK"] = signals["CALLBACK"] /\ signals'["HUMAN"] = signals["HUMAN"]
      /\ \/ signals'["adversarial"] = signals["adversarial"]
         \/ /\ ctx'.adversarial_streak >= MAX_ADVERSARIAL_STREAK
            /\ signals'["adversarial"] = signals["adversarial"] + 1
  BY DEF Shape, IsSignals, Kinds
<1>4. signals'["adversarial"] > 0 =>
        signals'["adversarial"] + MAX_ADVERSARIAL_STREAK - 1 <= ctx'.adversarial_streak
  BY <1>1, <1>3 DEF Earned
<1>5. QED  BY <1>2, <1>3, <1>4 DEF Earned

LEMMA EarnedPrompt ==
    ASSUME Shape, Shape', Earned,
           \/ keypad'.fallback = keypad.fallback /\ line'.prompts = line.prompts
           \/ line'.prompts = line.prompts + 1,
           UNCHANGED <<ctx, task, db, signals>>
    PROVE  Earned'
<1>1. /\ signals["CALLBACK"] \in Nat /\ signals["HUMAN"] \in Nat /\ line.prompts \in Nat
      /\ keypad.fallback \in BOOLEAN /\ keypad'.fallback \in BOOLEAN
  BY CauseTypes DEF Shape, IsKeypad
<1>2. signals["CALLBACK"] + signals["HUMAN"] + (IF keypad'.fallback THEN 1 ELSE 0)
        <= line'.prompts
  <2>1. CASE keypad'.fallback = keypad.fallback /\ line'.prompts = line.prompts
    BY <2>1 DEF Earned
  <2>2. CASE line'.prompts = line.prompts + 1
    <3>1. signals["CALLBACK"] + signals["HUMAN"] <= line.prompts
      BY <1>1 DEF Earned
    <3>2. QED  BY <1>1, <2>2, <3>1
  <2>3. QED  BY <2>1, <2>2
<1>3. QED  BY <1>2 DEF Earned, tap

LEMMA EarnedPress ==
    ASSUME Shape, Earned, keypad.fallback, ~keypad'.fallback,
           \/ signals' = signals
           \/ signals' = [signals EXCEPT !["CALLBACK"] = @ + 1]
           \/ signals' = [signals EXCEPT !["HUMAN"] = @ + 1],
           UNCHANGED <<ctx, task, db, line>>
    PROVE  Earned'
<1>1. /\ signals["CALLBACK"] \in Nat /\ signals["HUMAN"] \in Nat /\ line.prompts \in Nat
  BY CauseTypes
<1>2. /\ signals'["adversarial"] = signals["adversarial"]
      /\ \/ signals'["CALLBACK"] = signals["CALLBACK"] /\ signals'["HUMAN"] = signals["HUMAN"]
         \/ signals'["CALLBACK"] = signals["CALLBACK"] + 1 /\ signals'["HUMAN"] = signals["HUMAN"]
         \/ signals'["CALLBACK"] = signals["CALLBACK"] /\ signals'["HUMAN"] = signals["HUMAN"] + 1
  BY DEF Shape, IsSignals, Kinds
<1>3. signals["CALLBACK"] + signals["HUMAN"] + 1 <= line.prompts
  BY DEF Earned
<1>4. signals'["CALLBACK"] + signals'["HUMAN"] + (IF keypad'.fallback THEN 1 ELSE 0)
        <= line'.prompts
  <2>1. line'.prompts = line.prompts
    OBVIOUS
  <2>2. signals'["CALLBACK"] + signals'["HUMAN"] <= signals["CALLBACK"] + signals["HUMAN"] + 1
    BY <1>1, <1>2
  <2>3. signals'["CALLBACK"] \in Nat /\ signals'["HUMAN"] \in Nat
    BY <1>1, <1>2
  <2>4. QED  BY <1>1, <1>3, <2>1, <2>2, <2>3
<1>5. QED  BY <1>2, <1>4 DEF Earned, tap

---------------------------------------------------------------------------
(* The moods.                                                              *)

LEMMA MoodTypes ==
    ASSUME Shape
    PROVE  /\ db.moods \in Seq(MoodRow) /\ Len(db.moods) \in Nat
           /\ DOMAIN db.moods = 1 .. Len(db.moods)
           /\ \A i \in DOMAIN db.moods : db.moods[i] \in MoodRow /\ db.moods[i].turn \in Nat
           /\ IsFiniteSet(Upset) /\ Cardinality(Upset) \in Nat
<1>1. db.moods \in Seq(MoodRow)
  BY DEF Shape, IsDb
<1>2. Len(db.moods) \in Nat /\ DOMAIN db.moods = 1 .. Len(db.moods)
      /\ \A i \in DOMAIN db.moods : db.moods[i] \in MoodRow
  BY <1>1, LenProperties, ElementOfSeq
<1>3. IsFiniteSet(1 .. Len(db.moods))
  BY <1>2, FS_Interval
<1>4. Upset \subseteq 1 .. Len(db.moods)
  BY <1>2 DEF Upset
<1>5. IsFiniteSet(Upset)
  BY <1>3, <1>4, FS_Subset
<1>6. Cardinality(Upset) \in Nat
  BY <1>5, FS_CardinalityType
<1>7. QED  BY <1>1, <1>2, <1>5, <1>6 DEF MoodRow

LEMMA FeltQuiet ==
    ASSUME Shape, Felt, MoodQuiet
    PROVE  Felt'
<1>1. /\ signals'["DISSATISFIED"] = signals["DISSATISFIED"] /\ db'.moods = db.moods
      /\ tap'.at = "tell" => tap.at = "tell"
      /\ tap'.at \in {"store", "log", "mark", "feel"} =>
            tap.at \in {"store", "log", "mark", "feel"} /\ tap'.row = tap.row
  BY DEF MoodQuiet, Keeps, tap
<1>2. Upset' = Upset
  BY <1>1 DEF Upset
<1>3. CustomerTurns \subseteq CustomerTurns'
  BY DEF MoodQuiet, CustomerTurns
<1>4. signals["DISSATISFIED"] \in Nat /\ Cardinality(Upset) \in Nat
  BY CauseTypes, MoodTypes
<1>5. signals'["DISSATISFIED"] + (IF tap'.at = "tell" THEN 1 ELSE 0) <= Cardinality(Upset')
  BY <1>1, <1>2, <1>4 DEF Felt
<1>6. \A i \in DOMAIN db'.moods : db'.moods[i].turn \in CustomerTurns'
  BY <1>1, <1>3 DEF Felt
<1>7. QED  BY <1>1, <1>5, <1>6 DEF Felt

LEMMA FeltTaken ==
    ASSUME Shape, Indexed, Felt, NEW w \in Writers, Taken(w), task[w].at \in {"turn", "reply"},
           UNCHANGED <<db, signals>>
    PROVE  Felt'
<1>1. /\ task'[w].at = "store" /\ task'[w].row.turn_index = ctx.turn_index
      /\ \A v \in Writers \ {w} : task'[v] = task[v]
  BY DEF Taken, Others
<1>2. db.moods = db'.moods /\ Upset' = Upset /\ CustomerTurns \subseteq CustomerTurns'
  BY DEF Upset, CustomerTurns
<1>3. \A i \in DOMAIN db.moods : db.moods[i].turn < ctx.turn_index
  BY DEF Felt, CustomerTurns, Indexed
<1>4. /\ tap'.at = "tell" => tap.at = "tell"
      /\ tap'.at \in {"store", "log", "mark", "feel"} =>
            \A i \in DOMAIN db.moods : db.moods[i].turn < tap'.row.turn_index
  <2>1. CASE w = "tap"
    BY <1>1, <1>3, <2>1 DEF tap
  <2>2. CASE w # "tap"
    BY <1>1, <2>2, Handlers DEF tap, Felt
  <2>3. QED  BY <2>1, <2>2
<1>5. signals["DISSATISFIED"] \in Nat /\ Cardinality(Upset) \in Nat
  BY CauseTypes, MoodTypes
<1>6. signals'["DISSATISFIED"] + (IF tap'.at = "tell" THEN 1 ELSE 0) <= Cardinality(Upset')
  BY <1>2, <1>4, <1>5 DEF Felt
<1>7. \A i \in DOMAIN db'.moods : db'.moods[i].turn \in CustomerTurns'
  BY <1>2 DEF Felt
<1>8. QED  BY <1>2, <1>4, <1>6, <1>7 DEF Felt

LEMMA FeltRecorded ==
    ASSUME Shape, Indexed, Felt, NEW mood \in MoodRow, mood.turn = tap.row.turn_index,
           tap.at = "feel", tap'.at \in {"tell", "push"},
           tap'.at = "tell" => mood.signal = "DELAY_DISSATISFACTION",
           db'.moods = Append(db.moods, mood), db'.turns = db.turns, UNCHANGED signals
    PROVE  Felt'
<1>. DEFINE n == Len(db.moods)
<1>1. /\ n \in Nat /\ DOMAIN db.moods = 1 .. n /\ DOMAIN db'.moods = 1 .. n + 1
      /\ \A i \in 1 .. n : db'.moods[i] = db.moods[i]
      /\ db'.moods[n + 1] = mood
  BY MoodTypes, AppendProperties, LenProperties
<1>2. mood.turn \in CustomerTurns /\ CustomerTurns \subseteq CustomerTurns'
  BY DEF Indexed, Filed, CustomerTurns
<1>3. \A i \in 1 .. n : db.moods[i].turn < mood.turn
  BY <1>1 DEF Felt
<1>4. \A i \in DOMAIN db'.moods : db'.moods[i].turn \in CustomerTurns'
  <2>1. SUFFICES ASSUME NEW i \in 1 .. n + 1
                 PROVE  db'.moods[i].turn \in CustomerTurns'
    BY <1>1
  <2>2. i \in 1 .. n \/ i = n + 1
    BY <1>1
  <2>3. db'.moods[i].turn \in CustomerTurns
    BY <1>1, <1>2, <2>2 DEF Felt
  <2>4. QED  BY <1>2, <2>3
<1>5. \A i, j \in DOMAIN db'.moods : i < j => db'.moods[i].turn < db'.moods[j].turn
  <2>1. SUFFICES ASSUME NEW i \in 1 .. n + 1, NEW j \in 1 .. n + 1, i < j
                 PROVE  db'.moods[i].turn < db'.moods[j].turn
    BY <1>1
  <2>2. i \in 1 .. n /\ (j \in 1 .. n \/ j = n + 1)
    BY <1>1, <2>1
  <2>3. QED  BY <1>1, <1>3, <2>1, <2>2 DEF Felt
<1>6. /\ Cardinality(Upset') \in Nat /\ Cardinality(Upset) <= Cardinality(Upset')
      /\ mood.signal = "DELAY_DISSATISFACTION" => Cardinality(Upset') = Cardinality(Upset) + 1
  <2>1. Upset' = IF mood.signal = "DELAY_DISSATISFACTION" THEN Upset \union {n + 1} ELSE Upset
    <3>1. \A i \in 1 .. n + 1 : i \in 1 .. n \/ i = n + 1
      BY <1>1
    <3>2. 1 .. n \subseteq 1 .. n + 1 /\ n + 1 \in 1 .. n + 1
      BY <1>1
    <3>3. Upset = {i \in 1 .. n : db.moods[i].signal = "DELAY_DISSATISFACTION"}
      BY <1>1 DEF Upset
    <3>4. Upset' = {i \in 1 .. n + 1 : db'.moods[i].signal = "DELAY_DISSATISFACTION"}
      BY <1>1 DEF Upset
    <3>. HIDE DEF n
    <3>5. QED  BY <1>1, <3>1, <3>2, <3>3, <3>4
  <2>2. n + 1 \notin Upset
    BY <1>1 DEF Upset
  <2>3. IsFiniteSet(Upset) /\ Cardinality(Upset) \in Nat
    BY MoodTypes
  <2>4. Cardinality(Upset \union {n + 1}) = Cardinality(Upset) + 1
    BY <2>2, <2>3, FS_AddElement
  <2>5. QED  BY <2>1, <2>3, <2>4
<1>7. signals["DISSATISFIED"] \in Nat /\ signals["DISSATISFIED"] <= Cardinality(Upset)
      /\ Cardinality(Upset) \in Nat
  BY CauseTypes, MoodTypes DEF Felt
<1>8. signals'["DISSATISFIED"] + (IF tap'.at = "tell" THEN 1 ELSE 0) <= Cardinality(Upset')
  BY <1>6, <1>7
<1>9. QED  BY <1>4, <1>5, <1>8 DEF Felt

LEMMA FeltTold ==
    ASSUME Shape, Felt, tap.at = "tell", tap'.at \in {"push", "idle"},
           signals'["DISSATISFIED"] \in {signals["DISSATISFIED"], signals["DISSATISFIED"] + 1},
           db' = db
    PROVE  Felt'
<1>1. Upset' = Upset /\ CustomerTurns \subseteq CustomerTurns'
  BY DEF Upset, CustomerTurns
<1>2. signals["DISSATISFIED"] \in Nat /\ Cardinality(Upset) \in Nat
  BY CauseTypes, MoodTypes
<1>3. signals'["DISSATISFIED"] + (IF tap'.at = "tell" THEN 1 ELSE 0) <= Cardinality(Upset')
  BY <1>1, <1>2 DEF Felt
<1>4. \A i \in DOMAIN db'.moods : db'.moods[i].turn \in CustomerTurns'
  BY <1>1 DEF Felt
<1>5. QED  BY <1>3, <1>4 DEF Felt

---------------------------------------------------------------------------
(* The latency samples.                                                    *)

LEMMA SampleTypes ==
    ASSUME Shape
    PROVE  /\ db.samples \in Seq(Nat) /\ Len(db.samples) \in Nat
           /\ DOMAIN db.samples = 1 .. Len(db.samples)
           /\ \A i \in DOMAIN db.samples : db.samples[i] \in Nat
           /\ \A t \in ctx.pending \union sample : t \in Nat
<1>1. db.samples \in Seq(Nat) /\ ctx.pending \subseteq Nat /\ sample \subseteq Nat
  BY DEF Shape, IsDb, IsCtx
<1>2. QED  BY <1>1, LenProperties, ElementOfSeq

LEMMA MeasuredQuiet ==
    ASSUME Measured, SampleQuiet
    PROVE  Measured'
<1>1. /\ ctx'.pending = ctx.pending /\ sample' = sample /\ db'.samples = db.samples
      /\ tap'.at \in {"store", "log", "mark"} =>
            tap.at \in {"store", "log", "mark"} /\ tap'.row = tap.row
  BY DEF SampleQuiet, Keeps, tap
<1>2. CustomerTurns \subseteq CustomerTurns'
  BY DEF SampleQuiet, CustomerTurns
<1>3. QED  BY <1>1, <1>2 DEF Measured

LEMMA MeasuredTaken ==
    ASSUME Shape, Indexed, Measured, NEW w \in Writers, Taken(w),
           task[w].at \in {"turn", "reply"}, UNCHANGED <<db, sample>>, ctx'.pending = ctx.pending
    PROVE  Measured'
<1>1. /\ task'[w].at = "store" /\ task'[w].row.turn_index = ctx.turn_index
      /\ \A v \in Writers \ {w} : task'[v] = task[v]
  BY DEF Taken, Others
<1>2. CustomerTurns' = CustomerTurns /\ \A n \in CustomerTurns : n < ctx.turn_index
  BY DEF CustomerTurns, Indexed
<1>3. tap'.at \in {"store", "log", "mark"} =>
        /\ \A i \in DOMAIN db.samples : db.samples[i] < tap'.row.turn_index
        /\ \A t \in ctx.pending \union sample : t < tap'.row.turn_index
  <2>1. CASE w = "tap"
    BY <1>1, <1>2, <2>1 DEF tap, Measured
  <2>2. CASE w # "tap"
    BY <1>1, <2>2, Handlers DEF tap, Measured
  <2>3. QED  BY <2>1, <2>2
<1>4. QED  BY <1>2, <1>3 DEF Measured

LEMMA MeasuredMark ==
    ASSUME Indexed, Measured, tap.at = "mark", tap'.at = "feel",
           ctx'.pending = {tap.row.turn_index}, UNCHANGED <<db, sample>>
    PROVE  Measured'
<1>1. tap.row.turn_index \in CustomerTurns /\ CustomerTurns' = CustomerTurns
  BY DEF Indexed, Filed, CustomerTurns
<1>2. QED  BY <1>1 DEF Measured

LEMMA MeasuredAudio ==
    ASSUME Measured, sample = {}, sample' = ctx.pending, ctx'.pending = {}, UNCHANGED <<db, task>>
    PROVE  Measured'
<1>1. CustomerTurns' = CustomerTurns /\ tap' = tap
  BY DEF CustomerTurns, tap
<1>2. ctx'.pending \union sample' = ctx.pending \union sample
  OBVIOUS
<1>3. QED  BY <1>1, <1>2 DEF Measured

LEMMA MeasuredSample ==
    ASSUME Shape, Measured, NEW t \in sample, sample' = {}, ctx' = ctx,
           db'.samples = Append(db.samples, t), db'.turns = db.turns, task' = task
    PROVE  Measured'
<1>. DEFINE n == Len(db.samples)
<1>1. /\ n \in Nat /\ DOMAIN db.samples = 1 .. n /\ DOMAIN db'.samples = 1 .. n + 1 /\ t \in Nat
      /\ \A i \in 1 .. n : db'.samples[i] = db.samples[i]
      /\ db'.samples[n + 1] = t
  BY SampleTypes, AppendProperties, LenProperties
<1>. HIDE DEF n
<1>2. \A i \in 1 .. n + 1 : i \in 1 .. n \/ i = n + 1
  BY <1>1
<1>3. CustomerTurns' = CustomerTurns /\ tap' = tap /\ ctx'.pending \union sample' \subseteq ctx.pending \union sample
  BY DEF CustomerTurns, tap
<1>4. /\ t \in CustomerTurns /\ \A i \in 1 .. n : db.samples[i] < t
      /\ \A p \in ctx.pending : t < p
      /\ tap.at \in {"store", "log", "mark"} => t < tap.row.turn_index
  BY <1>1 DEF Measured
<1>5. \A i \in DOMAIN db'.samples : db'.samples[i] \in CustomerTurns
  BY <1>1, <1>2, <1>4 DEF Measured
<1>6. ASSUME NEW i \in 1 .. n + 1, NEW j \in 1 .. n + 1, i < j
      PROVE  db'.samples[i] < db'.samples[j]
  <2>1. i \in 1 .. n /\ (j \in 1 .. n \/ j = n + 1)
    BY <1>1, <1>6
  <2>2. QED  BY <1>1, <1>4, <1>6, <2>1 DEF Measured
<1>7. \A i \in DOMAIN db'.samples, p \in ctx'.pending \union sample' : db'.samples[i] < p
  BY <1>1, <1>2, <1>4 DEF Measured
<1>8. tap.at \in {"store", "log", "mark"} =>
        \A i \in DOMAIN db'.samples : db'.samples[i] < tap.row.turn_index
  BY <1>1, <1>2, <1>4 DEF Measured
<1>9. \A i, j \in DOMAIN db'.samples : i < j => db'.samples[i] < db'.samples[j]
  BY <1>1, <1>6
<1>10. QED
  BY <1>3, <1>5, <1>7, <1>8, <1>9 DEF Measured

LEMMA MeasuredCancelled ==
    ASSUME Measured, sample' = {}, UNCHANGED <<ctx, db, task>>
    PROVE  Measured'
<1>1. CustomerTurns' = CustomerTurns /\ tap' = tap
  BY DEF CustomerTurns, tap
<1>2. QED  BY <1>1 DEF Measured

---------------------------------------------------------------------------
(* The tools, and the summary.                                             *)

LEMMA Ranks ==
    /\ \A l \in Levels : LevelRank[l] \in 0 .. 2
    /\ \A l \in Levels : LevelRank[l] <= LevelRank[l]
    /\ \A l \in Levels : l # "L0" => l \in {"L1", "L2"}
    /\ \A l \in Levels : LevelRank["L2"] <= LevelRank[l] => l = "L2"
BY DEF Levels, LevelRank

\* A level a run was verified for stays backed when levels rise and runs are added.
LEMMA BackedStays ==
    ASSUME Shape, Shape', NEW run, NEW level, Backed(run, level),
           DOMAIN levels \subseteq DOMAIN levels',
           \A r \in DOMAIN levels : LevelRank[levels[r]] <= LevelRank[levels'[r]]
    PROVE  Backed(run, level)'
<1>1. /\ run \in DOMAIN levels /\ run \in DOMAIN levels' /\ level \in {"L1", "L2"}
      /\ LevelRank[level] <= LevelRank[levels[run]]
      /\ LevelRank[levels[run]] <= LevelRank[levels'[run]]
  BY DEF Backed
<1>2. levels[run] \in Levels /\ levels'[run] \in Levels /\ level \in Levels
  BY <1>1, ElementOfSeq, LenProperties DEF Shape, IsLevels, Levels
<1>3. LevelRank[level] \in 0 .. 2 /\ LevelRank[levels[run]] \in 0 .. 2
      /\ LevelRank[levels'[run]] \in 0 .. 2
  BY <1>2, Ranks
<1>4. LevelRank[level] <= LevelRank[levels'[run]]
  BY <1>1, <1>3
<1>5. QED  BY <1>1, <1>4 DEF Backed

LEMMA TrustedRises ==
    ASSUME Shape, Shape', Trusted, UNCHANGED <<tool, told>>,
           DOMAIN levels \subseteq DOMAIN levels',
           \A r \in DOMAIN levels : LevelRank[levels[r]] <= LevelRank[levels'[r]]
    PROVE  Trusted'
<1>1. tool.at = "read" => Backed(tool.run, tool.level)'
  <2>1. SUFFICES ASSUME tool.at = "read" PROVE Backed(tool.run, tool.level)'
    OBVIOUS
  <2>2. PICK run, level : run = tool.run /\ level = tool.level
    OBVIOUS
  <2>3. Backed(run, level)'
    BY <2>1, <2>2, BackedStays DEF Trusted
  <2>4. QED  BY <2>2, <2>3 DEF Backed
<1>2. ASSUME NEW a \in told
      PROVE  Backed(a.run, a.level)' /\ (a.status = "FINANCIAL_AMOUNT" => a.level = "L2")
  BY BackedStays DEF Trusted
<1>3. QED  BY <1>1, <1>2 DEF Trusted

LEMMA LevelsStay ==
    ASSUME Shape, levels' = levels
    PROVE  /\ DOMAIN levels \subseteq DOMAIN levels'
           /\ \A r \in DOMAIN levels : LevelRank[levels[r]] <= LevelRank[levels'[r]]
<1>1. \A r \in DOMAIN levels : levels[r] \in Levels
  BY ElementOfSeq, LenProperties DEF Shape, IsLevels
<1>2. QED  BY <1>1, Ranks

LEMMA TrustedQuiet ==
    ASSUME Trusted, levels' = levels, told' = told, tool'.at # "read"
    PROVE  Trusted'
BY DEF Trusted, Backed

LEMMA TrustedQuery ==
    ASSUME Shape, Trusted, levels' = levels, told' = told,
           tool'.run = Len(levels), tool'.level = levels[Len(levels)], tool'.level # "L0"
    PROVE  Trusted'
<1>1. Len(levels) \in DOMAIN levels /\ levels[Len(levels)] \in Levels
  BY ElementOfSeq, LenProperties DEF Shape, IsLevels
<1>2. /\ Len(levels) \in DOMAIN levels' /\ levels[Len(levels)] \in {"L1", "L2"}
      /\ LevelRank[levels[Len(levels)]] <= LevelRank[levels'[Len(levels)]]
  BY <1>1, Ranks
<1>3. QED  BY <1>2 DEF Trusted, Backed

LEMMA TrustedRead ==
    ASSUME Trusted, tool.at = "read", tool'.at = "idle", levels' = levels,
           \A a \in told' : a \in told \/ Answers(a)
    PROVE  Trusted'
<1>1. Backed(tool.run, tool.level) /\ \A a \in told : Backed(a.run, a.level)
                                             /\ (a.status = "FINANCIAL_AMOUNT" => a.level = "L2")
  BY DEF Trusted
<1>2. ASSUME NEW a \in told'
      PROVE  Backed(a.run, a.level) /\ (a.status = "FINANCIAL_AMOUNT" => a.level = "L2")
  <2>1. CASE a \in told
    BY <1>1, <2>1
  <2>2. CASE a \notin told
    <3>1. a.run = tool.run /\ a.level = tool.level /\ (a.status = "FINANCIAL_AMOUNT" => tool.level = "L2")
      BY <1>2, <2>2 DEF Answers
    <3>2. Backed(a.run, a.level)
      BY <1>1, <3>1 DEF Backed
    <3>3. QED  BY <3>1, <3>2
  <2>3. QED  BY <2>1, <2>2
<1>3. \A a \in told' : Backed(a.run, a.level)' /\ (a.status = "FINANCIAL_AMOUNT" => a.level = "L2")
  BY <1>2 DEF Backed
<1>4. QED  BY <1>3 DEF Trusted

LEMMA SummedQuiet == ASSUME Summed, SumQuiet PROVE Summed'
BY DEF Summed, SumQuiet

LEMMA SummedMood ==
    ASSUME Shape, Summed, NEW mood, mood \in MoodRow, db'.moods = Append(db.moods, mood),
           summary' = summary
    PROVE  Summed'
<1>. DEFINE n == Len(db.moods)
<1>1. /\ n \in Nat /\ DOMAIN db.moods = 1 .. n /\ Len(db'.moods) = n + 1
      /\ DOMAIN db'.moods = 1 .. n + 1
      /\ \A i \in 1 .. n : db'.moods[i] = db.moods[i]
  BY MoodTypes, AppendProperties, LenProperties
<1>2. summary.since \in Nat
  BY DEF Shape, Summary
<1>3. summary.since <= Len(db'.moods)
  BY <1>1, <1>2 DEF Summed
<1>4. DOMAIN db.moods \subseteq DOMAIN db'.moods
  BY <1>1
<1>. HIDE DEF n
<1>5. summary.sentiment # "NONE" =>
        \E i \in DOMAIN db'.moods :
            i >= summary.since /\ db'.moods[i].sentiment = summary.sentiment
  BY <1>1, <1>4 DEF Summed
<1>6. QED  BY <1>3, <1>5 DEF Summed

---------------------------------------------------------------------------
(* The redaction log.                                                      *)

\* Turns, events and cut turns stay, and with them whoever logs or is about to.
FilesSame ==
    db'.turns = db.turns /\ db'.events = db.events /\ line'.cut = line.cut
LoggersSame ==
    \A w \in Writers :
        task[w].at = "log" \/ task'[w].at \in {"store", "log"} => task'[w] = task[w]
SpeechQuiet == tap'.at \in Said => tap.at \in Said /\ tap'.heard = tap.heard

LEMMA LoggedQuiet ==
    ASSUME Logged, FilesSame, LoggersSame
    PROVE  Logged'
<1>1. ASSUME NEW r, NEW c, Logging(r, c)
      PROVE  Logging(r, c)'
  BY <1>1 DEF Logging, LoggersSame
<1>2. EventsMatchMarkers'
  BY <1>1 DEF Logged, FilesSame, EventsMatchMarkers, Marked
<1>3. ASSUME NEW w \in Writers, task'[w].at = "store"
      PROVE  Range(task'[w].detections) = Marked(task'[w].row)
  BY <1>3 DEF Logged, LoggersSame
<1>4. ASSUME NEW w \in Writers, task'[w].at = "log"
      PROVE  /\ task'[w].row \in db'.turns
             /\ task'[w].detections # <<>>
             /\ Range(task'[w].detections) \subseteq Marked(task'[w].row)
  BY <1>4 DEF Logged, LoggersSame, FilesSame
<1>5. QED
  BY <1>2, <1>3, <1>4 DEF Logged, Marked

LEMMA SpokenQuiet == ASSUME Spoken, SpeechQuiet PROVE Spoken'
BY DEF Spoken, SpeechQuiet

LEMMA Where ==
    /\ {"streak", "turn", "feel", "tell", "push"} \subseteq Places \ {"store", "log"}
    /\ "streak" \in Said /\ "turn" \in Said /\ "audit" \in Said
    /\ "feel" \notin Said /\ "tell" \notin Said /\ "push" \notin Said
BY DEF Places, Said

\* What a handler does away from its row leaves the loggers alone.
LEMMA Elsewhere ==
    ASSUME NEW w \in Writers, Others(w), task[w].at # "log",
           task'[w].at \notin {"store", "log"}
    PROVE  LoggersSame
BY DEF Others, LoggersSame

LEMMA TapElsewhere ==
    ASSUME Shape, Spoken, TapNext, ~TakeTurn, UNCHANGED callVars
    PROVE  FilesSame /\ LoggersSame /\ Spoken'
<1>. IsTask /\ IsDb /\ IsLine /\ "tap" \in Writers
  BY DEF Shape, Writers
<1>1. FilesSame
  <2>1. ASSUME NEW u \in Utterances, Hear(u)
        PROVE  FilesSame
    BY <2>1, HearDoes DEF FilesSame
  <2>2. CASE TagAdversarial
    BY <2>2 DEF TagAdversarial, FilesSame, IsDb
  <2>3. CASE RecordSentiment
    BY <2>3 DEF RecordSentiment, FilesSame, IsDb
  <2>4. CASE PassOn
    BY <2>4 DEF PassOn, FilesSame, IsLine
  <2>5. CASE HearNothing
    BY <2>5 DEF HearNothing, FilesSame, IsLine
  <2>6. CASE CountStreak \/ MarkSpeech \/ SignalDissatisfied
    BY <2>6 DEF CountStreak, MarkSpeech, SignalDissatisfied, FilesSame
  <2>7. ASSUME NEW digit \in {"1", "2"}, Press(digit)
        PROVE  FilesSame
    BY <2>7 DEF Press, FilesSame
  <2>8. QED
    BY <2>1, <2>2, <2>3, <2>4, <2>5, <2>6, <2>7 DEF TapNext
<1>2. ASSUME NEW place \in Places, place \notin {"store", "log"}, Goto("tap", place),
             tap.at # "log", place \in Said => tap.at \in Said
      PROVE  LoggersSame /\ Spoken'
  <2>1. Moved("tap", place)
    BY <1>2, GotoMoves
  <2>2. LoggersSame
    BY <1>2, <2>1, Elsewhere DEF Moved, tap
  <2>3. SpeechQuiet
    BY <1>2, <2>1 DEF SpeechQuiet, Moved, tap
  <2>4. QED  BY <2>2, <2>3, SpokenQuiet
<1>3. ASSUME task' = [task EXCEPT !["tap"] = Idle], tap.at # "log"
      PROVE  LoggersSame /\ Spoken'
  <2>1. Dropped("tap") /\ tap'.at = "idle"
    BY <1>3, IdleDrops, IdleIsHandler DEF Dropped, tap
  <2>2. LoggersSame
    BY <1>3, <2>1, Elsewhere DEF Dropped, tap
  <2>3. QED  BY <2>1, <2>2 DEF Spoken, Said
<1>4. ASSUME NEW u \in Utterances, Hear(u)
      PROVE  LoggersSame /\ Spoken'
  <2>1. /\ tap.at = "idle" /\ tap'.at \in {"audit", "turn"} /\ tap'.heard = u /\ Others("tap")
    BY <1>4, HearDoes
  <2>2. LoggersSame
    BY <2>1, Elsewhere DEF tap
  <2>3. QED  BY <2>1, <2>2 DEF Spoken
<1>5. CASE TagAdversarial
  <2>1. tap.at = "audit" /\ Goto("tap", "streak")
    BY <1>5 DEF TagAdversarial, tap
  <2>2. QED  BY <1>1, <1>2, <2>1, Where
<1>6. CASE CountStreak
  <2>1. tap.at = "streak"
    BY <1>6 DEF CountStreak, tap
  <2>2. Goto("tap", "turn") \/ task' = [task EXCEPT !["tap"] = Idle]
    BY <1>6 DEF CountStreak, Tell
  <2>3. QED  BY <1>1, <1>2, <1>3, <2>1, <2>2, Where
<1>7. CASE MarkSpeech
  <2>1. tap.at = "mark" /\ Goto("tap", "feel")
    BY <1>7 DEF MarkSpeech, tap
  <2>2. QED  BY <1>1, <1>2, <2>1, Where
<1>8. CASE RecordSentiment
  <2>1. tap.at = "feel" /\ (Goto("tap", "tell") \/ Goto("tap", "push"))
    BY <1>8 DEF RecordSentiment, tap
  <2>2. QED  BY <1>1, <1>2, <2>1, Where
<1>9. CASE SignalDissatisfied
  <2>1. tap.at = "tell"
    BY <1>9 DEF SignalDissatisfied, tap
  <2>2. Goto("tap", "push") \/ task' = [task EXCEPT !["tap"] = Idle]
    BY <1>9 DEF SignalDissatisfied, Tell
  <2>3. QED  BY <1>1, <1>2, <1>3, <2>1, <2>2, Where
<1>10. CASE PassOn
  <2>1. tap.at = "push"
    BY <1>10 DEF PassOn, tap
  <2>2. task' = [task EXCEPT !["tap"] = Idle]
    BY <1>10 DEF PassOn
  <2>3. QED  BY <1>1, <1>3, <2>1, <2>2
<1>11. CASE HearNothing
  <2>1. task' = task
    BY <1>11 DEF HearNothing
  <2>2. QED  BY <1>1, <2>1 DEF LoggersSame, Spoken, tap
<1>12. ASSUME NEW digit \in {"1", "2"}, Press(digit)
       PROVE  LoggersSame /\ Spoken'
  BY <1>12 DEF Press, LoggersSame, Spoken, tap
<1>13. QED
  BY <1>1, <1>4, <1>5, <1>6, <1>7, <1>8, <1>9, <1>10, <1>11, <1>12 DEF TapNext

LEMMA AssistantElsewhere ==
    ASSUME Shape, Spoken, StartReply \/ FinishReply
    PROVE  FilesSame /\ LoggersSame /\ Spoken'
<1>. IsTask /\ IsLine /\ "assistant" \in Writers /\ "tap" \in Writers \ {"assistant"}
  BY DEF Shape, Writers
<1>1. PICK h \in {Handling("reply", Silence, line.passed), Idle} :
        task' = [task EXCEPT !["assistant"] = h]
  BY DEF StartReply, FinishReply
<1>2. h.at \in {"reply", "idle"}
  BY IdleIsHandler DEF Handling
<1>3. task'["assistant"] = h /\ Others("assistant")
  BY <1>1, HandlerSet
<1>4. assistant.at # "log"
  BY DEF StartReply, FinishReply, assistant
<1>5. LoggersSame
  BY <1>2, <1>3, <1>4, Elsewhere DEF assistant
<1>6. tap' = tap
  BY <1>3 DEF Others, tap
<1>7. Spoken'
  BY <1>6 DEF Spoken
<1>8. FilesSame
  BY DEF StartReply, FinishReply, FilesSame, IsLine
<1>9. QED  BY <1>5, <1>7, <1>8

\* No handler moves.
LEMMA Beside ==
    ASSUME Shape, Spoken, UNCHANGED task,
           db' = db \/ RecordSample,
           line' = line \/ \E due \in BOOLEAN : line' = [line EXCEPT !.due = due]
    PROVE  FilesSame /\ LoggersSame /\ Spoken'
<1>1. db'.turns = db.turns /\ db'.events = db.events
  BY DEF RecordSample, Shape, IsDb
<1>2. line'.cut = line.cut
  BY DEF Shape, IsLine
<1>3. QED
  BY <1>1, <1>2 DEF FilesSame, LoggersSame, Spoken, tap

\* The detections of a row are its markers (redact()).
LEMMA LoggedTaken ==
    ASSUME Shape, Logged, NEW w \in Writers, NEW u \in Utterances \union Replies,
           task[w].at \in {"turn", "reply"},
           task' = [task EXCEPT ![w] = Redacted(SpeakerOf(w), u, task[w].about)],
           UNCHANGED <<db, line>>
    PROVE  Logged'
<1>. DEFINE h == Redacted(SpeakerOf(w), u, task[w].about)
<1>1. task'[w] = h /\ Others(w)
  BY HandlerSet DEF Shape
<1>2. h.at = "store" /\ Range(h.detections) = Marked(h.row)
  <2>. DEFINE result == redact(u.text, ctx.language)
  <2>1. Range(result.detections) =
            {result.text[k].mark : k \in DOMAIN result.text} \ {"NONE"}
    BY UtterancesAssumption, RedactionReports DEF ReportsItsMarkers, Utterance
  <2>2. h.at = "store" /\ h.detections = result.detections
        /\ h.row.redacted_text = result.text
    BY DEF Redacted
  <2>. HIDE DEF h, result
  <2>3. QED  BY <2>1, <2>2 DEF Marked
<1>. HIDE DEF h
<1>3. ASSUME NEW r, NEW c, Logging(r, c)
      PROVE  Logging(r, c)'
  BY <1>1, <1>3 DEF Logging, Others
<1>4. EventsMatchMarkers'
  BY <1>3 DEF Logged, EventsMatchMarkers, Marked
<1>5. ASSUME NEW v \in Writers, task'[v].at = "store"
      PROVE  Range(task'[v].detections) = Marked(task'[v].row)
  BY <1>1, <1>2, <1>5 DEF Logged, Others
<1>6. ASSUME NEW v \in Writers, task'[v].at = "log"
      PROVE  /\ task'[v].row \in db'.turns
             /\ task'[v].detections # <<>>
             /\ Range(task'[v].detections) \subseteq Marked(task'[v].row)
  BY <1>1, <1>2, <1>6 DEF Logged, Others
<1>7. QED
  BY <1>4, <1>5, <1>6 DEF Logged, Marked

\* A row comes on file with its markers still to be logged.
LEMMA LoggedStored ==
    ASSUME Shape, Logged, NEW w \in Writers, StoreTurn(w)
    PROVE  Logged'
<1>. IsTask /\ IsDb /\ task[w].at = "store" /\ line' = line
  BY DEF Shape, StoreTurn
<1>1. CASE task' = [task EXCEPT ![w] = Idle] /\ db' = db
  <2>1. Dropped(w)
    BY <1>1, IdleDrops
  <2>2. LoggersSame
    BY <2>1, Elsewhere, IdleIsHandler DEF Dropped
  <2>3. FilesSame
    BY <1>1 DEF FilesSame
  <2>4. QED  BY <2>2, <2>3, LoggedQuiet
<1>2. CASE ~(task' = [task EXCEPT ![w] = Idle] /\ db' = db)
  <2>. DEFINE place == IF task[w].detections = <<>> THEN Persisted(w) ELSE "log"
  <2>. PICK row : row = task[w].row
    OBVIOUS
  <2>1. Goto(w, place) /\ db' = [db EXCEPT !.turns = db.turns \union {row}]
    BY <1>2 DEF StoreTurn
  <2>2. db'.turns = db.turns \union {row} /\ db'.events = db.events
    BY <2>1 DEF IsDb
  <2>3. /\ place \in Places /\ place # "store"
        /\ place = "log" <=> task[w].detections # <<>>
    BY DEF Persisted, Places
  <2>. HIDE DEF place
  <2>4. /\ task'[w].at = place /\ task'[w].row = row /\ Others(w)
        /\ task'[w].detections = task[w].detections
    <3>1. Moved(w, place)
      BY <2>1, <2>3, GotoMoves
    <3>2. task'[w] = [task[w] EXCEPT !.at = place] /\ IsHandler(task[w])
      BY <2>1 DEF Goto, IsTask
    <3>3. task'[w].detections = task[w].detections
      BY <3>2 DEF IsHandler
    <3>4. QED  BY <3>1, <3>3 DEF Moved
  <2>5. Range(task[w].detections) = Marked(row)
    BY DEF Logged
  <2>6. ASSUME NEW r, NEW c, Logging(r, c)
        PROVE  Logging(r, c)'
    BY <2>4, <2>6 DEF Logging, Others
  <2>7. ASSUME NEW c \in Marked(row)
        PROVE  Logging(row, c)'
    <3>1. c \in Range(task[w].detections)
      BY <2>5
    <3>2. task[w].detections # <<>>
      BY <3>1 DEF Range
    <3>3. QED  BY <2>3, <2>4, <3>1, <3>2 DEF Logging
  <2>8. EventsMatchMarkers'
    BY <2>2, <2>6, <2>7 DEF Logged, EventsMatchMarkers, Marked
  <2>9. ASSUME NEW v \in Writers, task'[v].at = "store"
        PROVE  Range(task'[v].detections) = Marked(task'[v].row)
    BY <2>3, <2>4, <2>9 DEF Logged, Others
  <2>10. ASSUME NEW v \in Writers, task'[v].at = "log"
         PROVE  /\ task'[v].row \in db'.turns
                /\ task'[v].detections # <<>>
                /\ Range(task'[v].detections) \subseteq Marked(task'[v].row)
    BY <2>2, <2>3, <2>4, <2>5, <2>10 DEF Logged, Others
  <2>11. QED
    BY <2>8, <2>9, <2>10 DEF Logged, Marked
<1>3. QED  BY <1>1, <1>2

LEMMA RangeOfTail ==
    ASSUME NEW S, NEW s \in Seq(S), s # <<>>
    PROVE  /\ Head(s) \in Range(s)
           /\ Range(Tail(s)) \subseteq Range(s)
           /\ Range(s) \subseteq {Head(s)} \union Range(Tail(s))
           /\ Len(s) = 1 <=> Tail(s) = <<>>
<1>1. /\ Len(s) \in Nat \ {0} /\ DOMAIN s = 1 .. Len(s) /\ Head(s) = s[1]
      /\ Tail(s) \in Seq(S) /\ Len(Tail(s)) = Len(s) - 1
      /\ \A i \in 1 .. Len(Tail(s)) : Tail(s)[i] = s[i + 1]
  BY HeadTailProperties, LenProperties, EmptySeq
<1>2. DOMAIN Tail(s) = 1 .. Len(s) - 1
  BY <1>1, LenProperties
<1>3. Head(s) \in Range(s)
  BY <1>1 DEF Range
<1>4. ASSUME NEW i \in DOMAIN Tail(s)
      PROVE  Tail(s)[i] \in Range(s)
  <2>1. i + 1 \in DOMAIN s /\ Tail(s)[i] = s[i + 1]
    BY <1>1, <1>2
  <2>2. QED  BY <2>1 DEF Range
<1>5. ASSUME NEW i \in DOMAIN s
      PROVE  s[i] = Head(s) \/ s[i] \in Range(Tail(s))
  <2>1. CASE i = 1
    BY <1>1, <2>1
  <2>2. CASE i # 1
    <3>1. i - 1 \in DOMAIN Tail(s) /\ Tail(s)[i - 1] = s[i]
      BY <1>1, <1>2, <2>2
    <3>2. QED  BY <3>1 DEF Range
  <2>3. QED  BY <2>1, <2>2
<1>6. Len(s) = 1 <=> Tail(s) = <<>>
  <2>1. Tail(s) = <<>> <=> Len(Tail(s)) = 0
    BY <1>1, EmptySeq
  <2>2. QED  BY <1>1, <2>1
<1>7. QED  BY <1>3, <1>4, <1>5, <1>6 DEF Range

\* Each event reports a marker of a row on file; what is left is still being logged.
LEMMA LoggedOnce ==
    ASSUME Shape, Logged, NEW w \in Writers, LogRedaction(w)
    PROVE  Logged'
<1>. DEFINE d == task[w].detections
            row == task[w].row
            event == [turn |-> row.turn_index, category |-> Head(d)]
            place == IF Len(d) = 1 THEN Persisted(w) ELSE "log"
<1>1. /\ IsTask /\ IsDb /\ task[w].at = "log" /\ line' = line
      /\ db' = [db EXCEPT !.events = db.events \union {event}]
      /\ task' = [task EXCEPT ![w] = [task[w] EXCEPT !.detections = Tail(d), !.at = place]]
  BY DEF Shape, LogRedaction, IsTask
<1>2. row \in db.turns /\ d # <<>> /\ Range(d) \subseteq Marked(row)
  BY <1>1 DEF Logged
<1>3. d \in Seq(Categories)
  BY <1>1 DEF IsTask, IsHandler
<1>4. /\ Head(d) \in Range(d) /\ Range(Tail(d)) \subseteq Range(d)
      /\ Range(d) \subseteq {Head(d)} \union Range(Tail(d))
      /\ Len(d) = 1 <=> Tail(d) = <<>>
  BY <1>2, <1>3, RangeOfTail
<1>5. place # "store" /\ (place = "log" <=> Tail(d) # <<>>)
  BY <1>4 DEF Persisted
<1>. HIDE DEF place
<1>6. /\ task'[w].at = place /\ task'[w].row = row /\ task'[w].detections = Tail(d)
      /\ Others(w)
  <2>. DEFINE t == Tail(d)
              g == [task[w] EXCEPT !.detections = t]
              h == [g EXCEPT !.at = place]
  <2>1. g = [at |-> task[w].at, heard |-> task[w].heard, about |-> task[w].about,
             row |-> row, detections |-> t]
    <3>. HIDE DEF t
    <3>. QED  BY <1>1 DEF IsTask, IsHandler
  <2>2. task' = [task EXCEPT ![w] = h]
    BY <1>1
  <2>. HIDE DEF g
  <2>3. h.at = place /\ h.row = row /\ h.detections = t
    BY <2>1
  <2>. HIDE DEF h
  <2>4. QED  BY <1>1, <2>2, <2>3, HandlerSet
<1>7. db'.turns = db.turns /\ db'.events = db.events \union {event}
  <2>. HIDE DEF event
  <2>. QED  BY <1>1 DEF IsDb
<1>8. event.turn = row.turn_index /\ event.category = Head(d)
  OBVIOUS
<1>9. ASSUME NEW r \in db.turns, NEW c, Logging(r, c)
      PROVE  Logging(r, c)' \/ [turn |-> r.turn_index, category |-> c] \in db'.events
  <2>1. PICK v \in Writers : task[v].at = "log" /\ task[v].row = r /\ c \in Range(task[v].detections)
    BY <1>9 DEF Logging
  <2>2. CASE v # w
    BY <1>6, <2>1, <2>2 DEF Logging, Others
  <2>3. CASE v = w /\ c = Head(d)
    BY <1>7, <2>1, <2>3
  <2>4. CASE v = w /\ c # Head(d)
    <3>1. c \in Range(Tail(d))
      BY <1>4, <2>1, <2>4
    <3>2. Tail(d) # <<>>
      BY <3>1 DEF Range
    <3>3. QED  BY <1>5, <1>6, <2>1, <2>4, <3>1, <3>2 DEF Logging
  <2>5. QED  BY <2>2, <2>3, <2>4
<1>10. ASSUME NEW e \in db'.events
       PROVE  \E r \in db'.turns : r.turn_index = e.turn /\ e.category \in Marked(r)
  <2>1. CASE e \in db.events
    BY <1>7, <2>1 DEF Logged, EventsMatchMarkers
  <2>2. CASE e = event
    BY <1>2, <1>4, <1>7, <1>8, <2>2
  <2>3. QED  BY <1>7, <2>1, <2>2
<1>11. ASSUME NEW r \in db'.turns, NEW c \in Marked(r)
       PROVE  \/ [turn |-> r.turn_index, category |-> c] \in db'.events
              \/ Logging(r, c)'
              \/ r.turn_index \in line'.cut
  BY <1>1, <1>7, <1>9 DEF Logged, EventsMatchMarkers
<1>. HIDE DEF d, row, event
<1>12. EventsMatchMarkers'
  BY <1>10, <1>11 DEF EventsMatchMarkers, Marked
<1>13. ASSUME NEW v \in Writers, task'[v].at = "store"
       PROVE  Range(task'[v].detections) = Marked(task'[v].row)
  BY <1>5, <1>6, <1>13 DEF Logged, Others
<1>14. ASSUME NEW v \in Writers, task'[v].at = "log"
       PROVE  /\ task'[v].row \in db'.turns
              /\ task'[v].detections # <<>>
              /\ Range(task'[v].detections) \subseteq Marked(task'[v].row)
  BY <1>2, <1>4, <1>5, <1>6, <1>7, <1>14 DEF Logged, Others
<1>15. QED
  BY <1>12, <1>13, <1>14 DEF Logged, Marked

\* An interruption leaves a mark on the turn it leaves unlogged.
LEMMA LoggedCut ==
    ASSUME Shape, Logged, NEW w \in Writers, Cancel(w)
    PROVE  Logged'
<1>1. Dropped(w) /\ IsLine /\ db' = db
  BY IdleDrops DEF Shape, Cancel
<1>2. task'[w].at = "idle" /\ \A v \in Writers \ {w} : task'[v] = task[v]
  BY <1>1, IdleIsHandler DEF Dropped, Others
<1>3. /\ line.cut \subseteq line'.cut
      /\ task[w].at = "log" => task[w].row.turn_index \in line'.cut
  <2>1. CASE task[w].at = "log"
    BY <1>1, <2>1 DEF Cancel, IsLine
  <2>2. CASE task[w].at # "log"
    BY <2>2 DEF Cancel
  <2>3. QED  BY <2>1, <2>2
<1>4. ASSUME NEW r, NEW c, Logging(r, c)
      PROVE  Logging(r, c)' \/ r.turn_index \in line'.cut
  BY <1>2, <1>3, <1>4 DEF Logging
<1>5. EventsMatchMarkers'
  BY <1>1, <1>3, <1>4 DEF Logged, EventsMatchMarkers, Marked
<1>6. ASSUME NEW v \in Writers, task'[v].at = "store"
      PROVE  Range(task'[v].detections) = Marked(task'[v].row)
  BY <1>2, <1>6 DEF Logged
<1>7. ASSUME NEW v \in Writers, task'[v].at = "log"
      PROVE  /\ task'[v].row \in db'.turns
             /\ task'[v].detections # <<>>
             /\ Range(task'[v].detections) \subseteq Marked(task'[v].row)
  BY <1>1, <1>2, <1>7 DEF Logged
<1>8. QED
  BY <1>5, <1>6, <1>7 DEF Logged, Marked

LEMMA LogStep ==
    ASSUME Shape, Spoken, Logged, [Next]_vars
    PROVE  Spoken' /\ Logged'
<1>1. ASSUME FilesSame, LoggersSame
      PROVE  Logged'
  BY <1>1, LoggedQuiet
<1>2. CASE UNCHANGED vars
  BY <1>1, <1>2, Beside DEF vars, pipelineVars
<1>3. CASE TapNext /\ ~TakeTurn /\ UNCHANGED callVars
  BY <1>1, <1>3, TapElsewhere
<1>4. CASE TakeTurn
  <2>1. /\ "tap" \in Writers /\ task["tap"].at = "turn"
        /\ task' = [task EXCEPT !["tap"] =
                       Redacted(SpeakerOf("tap"), tap.heard, task["tap"].about)]
        /\ UNCHANGED <<db, line>>
    BY <1>4, Handlers DEF TakeTurn, tap
  <2>2. tap.heard \in Utterances \union Replies
    BY <2>1 DEF tap, Spoken, Said
  <2>3. Logged'
    BY <2>1, <2>2, LoggedTaken
  <2>4. tap'.at = "store"
    <3>. DEFINE h == Redacted(SpeakerOf("tap"), tap.heard, task["tap"].about)
    <3>1. h.at = "store"
      BY DEF Redacted
    <3>. HIDE DEF h
    <3>2. QED  BY <2>1, <3>1, HandlerSet DEF Shape, tap, h
  <2>5. QED  BY <2>3, <2>4 DEF Spoken, Said
<1>5. CASE StartReply \/ FinishReply
  BY <1>1, <1>5, AssistantElsewhere
<1>6. ASSUME NEW u \in Replies, EndReply(u)
      PROVE  Spoken' /\ Logged'
  <2>1. /\ "assistant" \in Writers /\ task["assistant"].at = "reply"
        /\ task' = [task EXCEPT !["assistant"] =
                       Redacted(SpeakerOf("assistant"), u, task["assistant"].about)]
        /\ UNCHANGED <<db, line>>
    BY <1>6, Handlers DEF EndReply
  <2>2. Logged'
    BY <2>1, LoggedTaken
  <2>3. tap' = tap
    BY <2>1, HandlerSet DEF Shape, tap, Others, Writers
  <2>4. QED  BY <2>2, <2>3 DEF Spoken
<1>7. ASSUME NEW w \in Writers, StoreTurn(w) \/ LogRedaction(w) \/ Cancel(w)
      PROVE  Spoken' /\ Logged'
  <2>1. Logged'
    BY <1>7, LoggedStored, LoggedOnce, LoggedCut
  <2>2. tap'.at \notin Said \/ tap' = tap
    <3>. IsTask
      BY DEF Shape
    <3>1. CASE w # "tap"
      <4>1. \E h : task' = [task EXCEPT ![w] = h]
        BY <1>7 DEF StoreTurn, LogRedaction, Cancel, Goto, IsTask
      <4>2. QED  BY <3>1, <4>1 DEF tap, IsTask, Writers
    <3>2. CASE w = "tap" /\ task' = [task EXCEPT ![w] = Idle]
      BY <3>2, IdleDrops, IdleIsHandler DEF Dropped, tap, Said
    <3>3. CASE w = "tap" /\ Goto(w, IF task[w].detections = <<>> THEN Persisted(w) ELSE "log")
      <4>. DEFINE place == IF task[w].detections = <<>> THEN Persisted(w) ELSE "log"
      <4>1. place \in {"log", "mark", "push"} /\ place \in Places
        BY DEF Persisted, Places
      <4>. HIDE DEF place
      <4>2. Moved(w, place)
        BY <3>3, <4>1, GotoMoves DEF place
      <4>3. QED  BY <3>3, <4>1, <4>2 DEF Moved, tap, Said
    <3>4. CASE w = "tap" /\ LogRedaction(w)
      <4>. DEFINE place == IF Len(task[w].detections) = 1 THEN Persisted(w) ELSE "log"
                  rest == Tail(task[w].detections)
                  g == [task[w] EXCEPT !.detections = rest]
                  h == [g EXCEPT !.at = place]
      <4>1. task' = [task EXCEPT ![w] = h]
        BY <3>4 DEF LogRedaction, IsTask
      <4>2. g = [at |-> task[w].at, heard |-> task[w].heard, about |-> task[w].about,
                 row |-> task[w].row, detections |-> rest]
        <5>. HIDE DEF rest
        <5>. QED  BY DEF IsTask, IsHandler
      <4>. HIDE DEF g
      <4>3. h.at = place /\ place \in {"log", "mark", "push"}
        BY <4>2 DEF Persisted
      <4>. HIDE DEF h, place
      <4>4. QED  BY <3>4, <4>1, <4>3, HandlerSet DEF tap, Said
    <3>5. QED  BY <1>7, <3>1, <3>2, <3>3, <3>4 DEF StoreTurn, Cancel
  <2>3. QED  BY <2>1, <2>2 DEF Spoken
<1>8. CASE Audio \/ RecordSample \/ CancelSample
  BY <1>1, <1>8, Beside DEF Audio, RecordSample, CancelSample
<1>9. CASE ToolNext
  <2>. UNCHANGED task /\ db' = db
    <3>1. ASSUME NEW name \in Tools, NEW claimed \in Claims, CallTool(name, claimed)
          PROVE  UNCHANGED task /\ db' = db
      BY <3>1 DEF CallTool
    <3>2. CASE QueryLevel \/ ReadClaim \/ SignalIntent \/ CancelTool
      BY <3>2 DEF QueryLevel, ReadClaim, SignalIntent, CancelTool
    <3>3. QED  BY <1>9, <3>1, <3>2 DEF ToolNext
  <2>1. line' = line \/ \E due \in BOOLEAN : line' = [line EXCEPT !.due = due]
    <3>1. ASSUME NEW name \in Tools, NEW claimed \in Claims, CallTool(name, claimed)
          PROVE  \E due \in BOOLEAN : line' = [line EXCEPT !.due = due]
      <4>1. line' = [line EXCEPT !.due = (line.due \/ name = "get_insurer_identity")]
        BY <3>1 DEF CallTool
      <4>2. QED  BY <4>1
    <3>2. CASE QueryLevel \/ ReadClaim \/ SignalIntent \/ CancelTool
      BY <3>2 DEF QueryLevel, ReadClaim, SignalIntent, CancelTool, Answered
    <3>3. QED  BY <1>9, <3>1, <3>2 DEF ToolNext
  <2>2. QED  BY <1>1, <2>1, Beside
<1>10. CASE WorkflowNext
  <2>. UNCHANGED <<task, db, line>>
    BY <1>10
    DEF WorkflowNext, Verify, Close, Redial, WriteSummary, ReadFinalSentiment,
        RecordFinalSentiment, pipelineVars
  <2>. QED  BY <1>1, Beside
<1>11. QED
  BY <1>2, <1>3, <1>4, <1>5, <1>6, <1>7, <1>8, <1>9, <1>10 DEF Next, PipelineNext, AssistantNext

---------------------------------------------------------------------------
(* The invariant, from the first state and over every step.                *)

CallParts ==
    Shape /\ Indexed /\ Ordered /\ Earned /\ Felt /\ Measured /\ Trusted /\ Summed
CallIInv == CallParts /\ Spoken /\ Logged

LEMMA PartsInit ==
    ASSUME Init
    PROVE  CallParts
<1>1. Shape
  <2>1. IsTask
    BY IdleIsHandler DEF Init, PipelineInit, IsTask
  <2>2. IsDb
    BY EmptySeq DEF Init, PipelineInit, IsDb
  <2>3. IsTool
    BY NoToolTyped DEF Init, IsTool, ToolCall
  <2>4. IsLevels
    <3>1. levels = <<"L0">> /\ "L0" \in Levels
      BY DEF Init, Levels
    <3>2. levels \in Seq(Levels) /\ Len(levels) = 1
      BY <3>1
    <3>3. QED  BY <3>2, CallAssumption DEF IsLevels
  <2>5. IsCtx /\ IsLine /\ IsSignals /\ IsBudget
    BY PipelineAssumption DEF Init, PipelineInit, IsCtx, IsLine, IsSignals, IsBudget
  <2>6. IsKeypad
    BY PipelineAssumption DEF Init, PipelineInit, IsKeypad
  <2>7. sample \in SUBSET Nat /\ open \in BOOLEAN /\ told \subseteq Answer /\ summary \in Summary
    BY DEF Init, PipelineInit, Summary
  <2>8. QED  BY <2>1, <2>2, <2>3, <2>4, <2>5, <2>6, <2>7 DEF Shape
<1>2. /\ tap.at = "idle" /\ assistant.at = "idle" /\ \A w \in Writers : task[w].at = "idle"
      /\ db.turns = {} /\ db.moods = <<>> /\ db.samples = <<>> /\ db.tagged = 0
      /\ ctx.turn_index = 0 /\ ctx.adversarial_streak = 0 /\ ctx.pending = {} /\ sample = {}
      /\ line.heard = 0 /\ line.passed = 0 /\ line.prompts = 0 /\ ~keypad.fallback
      /\ \A k \in Kinds : signals[k] = 0
  BY IdleIsHandler, Handlers DEF Init, PipelineInit, tap, assistant
<1>3. Indexed
  BY <1>2, Handlers DEF Indexed, Filed
<1>4. Ordered
  BY <1>2, Handlers DEF Ordered, Asked, Given
<1>5. Earned
  <2>1. signals["CALLBACK"] = 0 /\ signals["HUMAN"] = 0 /\ signals["adversarial"] = 0
    BY <1>2 DEF Kinds
  <2>2. QED  BY <1>2, <2>1 DEF Earned
<1>6. Felt
  <2>1. DOMAIN db.moods = {} /\ signals["DISSATISFIED"] = 0
    BY <1>2 DEF Kinds
  <2>2. Cardinality(Upset) = 0
    <3>1. Upset = {}
      BY <2>1 DEF Upset
    <3>2. QED  BY <3>1, FS_EmptySet
  <2>3. QED  BY <1>2, <2>1, <2>2 DEF Felt
<1>7. Measured
  <2>1. DOMAIN db.samples = {}
    BY <1>2
  <2>2. QED  BY <1>2, <2>1 DEF Measured
<1>8. Trusted
  BY NoToolTyped DEF Init, Trusted
<1>9. Summed
  <2>1. Len(db.moods) = 0
    BY <1>2
  <2>2. QED  BY <2>1 DEF Init, Summed
<1>10. QED
  BY <1>1, <1>3, <1>4, <1>5, <1>6, <1>7, <1>8, <1>9 DEF CallParts

\* A step that leaves every part alone.
LEMMA AllQuietKeeps ==
    ASSUME CallParts, Shape', AllQuiet
    PROVE  CallParts'
<1>1. Indexed' /\ Ordered' /\ Earned' /\ Felt' /\ Measured'
  BY IndexedQuiet, OrderedQuiet, EarnedQuiet, FeltQuiet, MeasuredQuiet DEF CallParts, AllQuiet
<1>2. Summed'
  BY SummedQuiet DEF CallParts, AllQuiet
<1>3. Trusted'
  BY TrustedRises, LevelsStay DEF CallParts, AllQuiet, ToolQuiet
<1>4. QED  BY <1>1, <1>2, <1>3 DEF CallParts

LEMMA ToolQuietKeeps ==
    ASSUME CallParts, Shape', ToolQuiet
    PROVE  Trusted'
BY TrustedRises, LevelsStay DEF CallParts, ToolQuiet

LEMMA TapStep ==
    ASSUME CallParts, Spoken, TapNext, UNCHANGED callVars
    PROVE  CallParts'
<1>. Shape /\ Indexed /\ Ordered /\ Earned /\ Felt /\ Measured /\ Trusted /\ Summed
  BY DEF CallParts
<1>1. ASSUME NEW u \in Utterances, Hear(u)
      PROVE  CallParts'
  <2>1. Shape' /\ Indexed' /\ Earned' /\ Felt' /\ Measured' /\ Summed'
    BY <1>1, HearDoes, IndexedQuiet, EarnedQuiet, FeltQuiet, MeasuredQuiet, SummedQuiet
  <2>2. Trusted'
    BY <1>1, <2>1, HearDoes, ToolQuietKeeps
  <2>3. Ordered'
    BY <1>1, HearDoes, OrderedHear
  <2>4. QED  BY <2>1, <2>2, <2>3 DEF CallParts
<1>2. CASE TagAdversarial
  <2>1. Shape' /\ Indexed' /\ Ordered' /\ Felt' /\ Measured' /\ Summed'
    BY <1>2, TagDoes, IndexedQuiet, OrderedQuiet, FeltQuiet, MeasuredQuiet, SummedQuiet
  <2>2. Trusted'
    BY <1>2, <2>1, TagDoes, ToolQuietKeeps
  <2>3. Earned'
    BY <1>2, TagDoes, EarnedTag
  <2>4. QED  BY <2>1, <2>2, <2>3 DEF CallParts
<1>3. CASE CountStreak
  <2>1. Shape' /\ Indexed' /\ Ordered' /\ Felt' /\ Measured' /\ Summed'
    BY <1>3, CountDoes, IndexedQuiet, OrderedQuiet, FeltQuiet, MeasuredQuiet, SummedQuiet
  <2>2. Trusted'
    BY <1>3, <2>1, CountDoes, ToolQuietKeeps
  <2>3. Earned'
    BY <1>3, CountDoes, EarnedCount
  <2>4. QED  BY <2>1, <2>2, <2>3 DEF CallParts
<1>4. CASE TakeTurn
  <2>1. /\ "tap" \in Writers /\ tap.heard \in Utterances \union Replies
        /\ task["tap"].at = "turn"
        /\ task' = [task EXCEPT !["tap"] = Redacted(SpeakerOf("tap"), tap.heard, task["tap"].about)]
        /\ TakeIndex /\ UNCHANGED <<keypad, sample, db, signals, open, line, budget>>
    BY <1>4, Handlers DEF TakeTurn, tap, Spoken, Said
  <2>2. /\ Shape' /\ Taken("tap") /\ CauseQuiet /\ ToolQuiet /\ SumQuiet
        /\ UNCHANGED <<db, sample, signals, line>> /\ ctx'.pending = ctx.pending
    BY <2>1, TakeDoes
  <2>3. Indexed' /\ Ordered' /\ Earned' /\ Felt' /\ Measured' /\ Summed'
    BY <2>1, <2>2, IndexedTaken, OrderedTaken, EarnedQuiet, FeltTaken, MeasuredTaken, SummedQuiet
  <2>4. Trusted'
    BY <2>2, ToolQuietKeeps
  <2>5. QED  BY <2>2, <2>3, <2>4 DEF CallParts
<1>5. CASE MarkSpeech
  <2>1. Shape' /\ Indexed' /\ Ordered' /\ Earned' /\ Felt' /\ Summed'
    BY <1>5, MarkDoes, IndexedQuiet, OrderedQuiet, EarnedQuiet, FeltQuiet, SummedQuiet
  <2>2. Trusted'
    BY <1>5, <2>1, MarkDoes, ToolQuietKeeps
  <2>3. Measured'
    BY <1>5, MarkDoes, MeasuredMark
  <2>4. QED  BY <2>1, <2>2, <2>3 DEF CallParts
<1>6. CASE RecordSentiment
  <2>1. Shape' /\ Indexed' /\ Ordered' /\ Earned' /\ Measured'
    BY <1>6, FeelDoes, IndexedQuiet, OrderedQuiet, EarnedQuiet, MeasuredQuiet
  <2>2. Trusted'
    BY <1>6, <2>1, FeelDoes, ToolQuietKeeps
  <2>3. Felt'
    BY <1>6, FeelDoes, FeltRecorded
  <2>4. Summed'
    BY <1>6, FeelDoes, SummedMood
  <2>5. QED  BY <2>1, <2>2, <2>3, <2>4 DEF CallParts
<1>7. CASE SignalDissatisfied
  <2>1. Shape' /\ Indexed' /\ Ordered' /\ Earned' /\ Measured' /\ Summed'
    BY <1>7, TellDoes, IndexedQuiet, OrderedQuiet, EarnedQuiet, MeasuredQuiet, SummedQuiet
  <2>2. Trusted'
    BY <1>7, <2>1, TellDoes, ToolQuietKeeps
  <2>3. Felt'
    BY <1>7, TellDoes, FeltTold
  <2>4. QED  BY <2>1, <2>2, <2>3 DEF CallParts
<1>8. CASE PassOn
  <2>1. Shape' /\ Indexed' /\ Earned' /\ Felt' /\ Measured' /\ Summed'
    BY <1>8, PassDoes, IndexedQuiet, EarnedQuiet, FeltQuiet, MeasuredQuiet, SummedQuiet
  <2>2. Trusted'
    BY <1>8, <2>1, PassDoes, ToolQuietKeeps
  <2>3. Ordered'
    BY <1>8, PassDoes, OrderedPassed
  <2>4. QED  BY <2>1, <2>2, <2>3 DEF CallParts
<1>9. CASE HearNothing
  <2>1. Shape' /\ Indexed' /\ Ordered' /\ Felt' /\ Measured' /\ Summed'
    BY <1>9, HearNothingDoes, IndexedQuiet, OrderedQuiet, FeltQuiet, MeasuredQuiet, SummedQuiet
  <2>2. Trusted'
    BY <1>9, <2>1, HearNothingDoes, ToolQuietKeeps
  <2>3. Earned'
    BY <1>9, HearNothingDoes, EarnedPrompt
  <2>4. QED  BY <2>1, <2>2, <2>3 DEF CallParts
<1>10. ASSUME NEW digit \in {"1", "2"}, Press(digit)
       PROVE  CallParts'
  <2>1. Shape' /\ Indexed' /\ Ordered' /\ Felt' /\ Measured' /\ Summed'
    BY <1>10, PressDoes, IndexedQuiet, OrderedQuiet, FeltQuiet, MeasuredQuiet, SummedQuiet
  <2>2. Trusted'
    BY <1>10, <2>1, PressDoes, ToolQuietKeeps
  <2>3. Earned'
    BY <1>10, PressDoes, EarnedPress
  <2>4. QED  BY <2>1, <2>2, <2>3 DEF CallParts
<1>11. QED
  BY <1>1, <1>2, <1>3, <1>4, <1>5, <1>6, <1>7, <1>8, <1>9, <1>10 DEF TapNext

LEMMA AssistantStep ==
    ASSUME CallParts, AssistantNext, UNCHANGED callVars
    PROVE  CallParts'
<1>. Shape /\ Indexed /\ Ordered /\ Earned /\ Felt /\ Measured /\ Trusted /\ Summed
  BY DEF CallParts
<1>1. CASE StartReply
  <2>1. Shape' /\ Indexed' /\ Earned' /\ Felt' /\ Measured' /\ Summed'
    BY <1>1, StartReplyDoes, IndexedQuiet, EarnedQuiet, FeltQuiet, MeasuredQuiet, SummedQuiet
  <2>2. Trusted'
    BY <1>1, <2>1, StartReplyDoes, ToolQuietKeeps
  <2>3. Ordered'
    BY <1>1, StartReplyDoes, OrderedStart
  <2>4. QED  BY <2>1, <2>2, <2>3 DEF CallParts
<1>2. CASE FinishReply
  BY <1>2, FinishDoes, AllQuietKeeps
<1>3. ASSUME NEW u \in Replies, EndReply(u)
      PROVE  CallParts'
  <2>1. /\ "assistant" \in Writers /\ u \in Utterances \union Replies
        /\ task["assistant"].at = "reply"
        /\ task' = [task EXCEPT !["assistant"] =
                       Redacted(SpeakerOf("assistant"), u, task["assistant"].about)]
        /\ TakeIndex /\ UNCHANGED <<keypad, sample, db, signals, open, line, budget>>
    BY <1>3, Handlers DEF EndReply
  <2>2. /\ Shape' /\ Taken("assistant") /\ CauseQuiet /\ ToolQuiet /\ SumQuiet
        /\ UNCHANGED <<db, sample, signals, line>> /\ ctx'.pending = ctx.pending
    BY <2>1, TakeDoes
  <2>3. Indexed' /\ Ordered' /\ Earned' /\ Felt' /\ Measured' /\ Summed'
    BY <2>1, <2>2, IndexedTaken, OrderedTaken, EarnedQuiet, FeltTaken, MeasuredTaken, SummedQuiet
  <2>4. Trusted'
    BY <2>2, ToolQuietKeeps
  <2>5. QED  BY <2>2, <2>3, <2>4 DEF CallParts
<1>4. QED
  BY <1>1, <1>2, <1>3 DEF AssistantNext

LEMMA WriterStep ==
    ASSUME CallParts, Logged, NEW w \in Writers,
           StoreTurn(w) \/ LogRedaction(w) \/ Cancel(w), UNCHANGED callVars
    PROVE  CallParts'
<1>. Shape /\ Indexed /\ Ordered /\ Earned /\ Felt /\ Measured /\ Trusted /\ Summed
  BY DEF CallParts
<1>1. CASE StoreTurn(w)
  <2>1. Shape' /\ Earned' /\ Felt' /\ Measured' /\ Summed'
    BY <1>1, StoreDoes, EarnedQuiet, FeltQuiet, MeasuredQuiet, SummedQuiet
  <2>2. Trusted'
    BY <1>1, <2>1, StoreDoes, ToolQuietKeeps
  <2>3. Indexed' /\ Ordered'
    BY <1>1, StoreDoes, IndexedQuiet, IndexedStored, OrderedQuiet, OrderedStored
  <2>4. QED  BY <2>1, <2>2, <2>3 DEF CallParts
<1>2. CASE LogRedaction(w)
  <2>1. task[w].detections # <<>>
    BY <1>2 DEF LogRedaction, Logged
  <2>2. QED  BY <1>2, <2>1, LogDoes, AllQuietKeeps
<1>3. CASE Cancel(w)
  BY <1>3, CancelDoes, AllQuietKeeps
<1>4. QED  BY <1>1, <1>2, <1>3

LEMMA LatencyStep ==
    ASSUME CallParts, Audio \/ RecordSample \/ CancelSample, UNCHANGED callVars
    PROVE  CallParts'
<1>. Shape /\ Indexed /\ Ordered /\ Earned /\ Felt /\ Measured /\ Trusted /\ Summed
  BY DEF CallParts
<1>1. /\ Shape' /\ RowsQuiet /\ OrderQuiet /\ CauseQuiet /\ MoodQuiet /\ ToolQuiet /\ SumQuiet
  BY AudioDoes, SampleDoes, CancelSampleDoes
<1>2. Indexed' /\ Ordered' /\ Earned' /\ Felt' /\ Trusted' /\ Summed'
  BY <1>1, IndexedQuiet, OrderedQuiet, EarnedQuiet, FeltQuiet, SummedQuiet, ToolQuietKeeps
<1>3. CASE Audio
  BY <1>1, <1>2, <1>3, AudioDoes, MeasuredAudio DEF CallParts
<1>4. CASE RecordSample
  <2>1. PICK t \in sample : db'.samples = Append(db.samples, t)
    BY <1>4, SampleDoes
  <2>2. Measured'
    BY <1>4, <2>1, SampleDoes, MeasuredSample
  <2>3. QED  BY <1>1, <1>2, <2>2 DEF CallParts
<1>5. CASE CancelSample
  BY <1>1, <1>2, <1>5, CancelSampleDoes, MeasuredCancelled DEF CallParts
<1>6. QED  BY <1>3, <1>4, <1>5

LEMMA AsideKeeps ==
    ASSUME CallParts, PipelineQuiet
    PROVE  /\ Indexed' /\ Ordered' /\ Earned' /\ Felt' /\ Measured'
           /\ SumQuiet => Summed'
BY IndexedQuiet, OrderedQuiet, EarnedQuiet, FeltQuiet, MeasuredQuiet, SummedQuiet
DEF CallParts, PipelineQuiet

LEMMA ToolStep ==
    ASSUME CallParts, ToolNext
    PROVE  CallParts'
<1>. Shape /\ Trusted
  BY DEF CallParts
<1>1. Shape' /\ PipelineQuiet /\ SumQuiet
  BY CallToolDoes, QueryDoes, ReadDoes, IntentDoes, CancelToolDoes DEF ToolNext
<1>2. Indexed' /\ Ordered' /\ Earned' /\ Felt' /\ Measured' /\ Summed'
  BY <1>1, AsideKeeps
<1>3. Trusted'
  <2>1. ASSUME NEW name \in Tools, NEW claimed \in Claims, CallTool(name, claimed)
        PROVE  Trusted'
    BY <2>1, CallToolDoes, TrustedQuiet
  <2>2. CASE QueryLevel
    BY <2>2, QueryDoes, TrustedQuiet, TrustedQuery
  <2>3. CASE ReadClaim
    BY <2>3, ReadDoes, TrustedRead
  <2>4. CASE SignalIntent \/ CancelTool
    BY <2>4, IntentDoes, CancelToolDoes, TrustedQuiet
  <2>5. QED  BY <2>1, <2>2, <2>3, <2>4 DEF ToolNext
<1>4. QED  BY <1>1, <1>2, <1>3 DEF CallParts

LEMMA WorkflowStep ==
    ASSUME CallParts, WorkflowNext
    PROVE  CallParts'
<1>. Shape /\ Felt /\ Trusted /\ Summed
  BY DEF CallParts
<1>1. Shape' /\ PipelineQuiet
  BY VerifyDoes, CloseDoes, RedialDoes, WriteSummaryDoes, ReadFinalDoes, RecordFinalDoes
  DEF WorkflowNext
<1>2. Indexed' /\ Ordered' /\ Earned' /\ Felt' /\ Measured'
  BY <1>1, AsideKeeps
<1>3. CASE Verify
  <2>1. Trusted'
    BY <1>3, VerifyDoes, TrustedRises
  <2>2. QED  BY <1>1, <1>2, <1>3, <2>1, VerifyDoes, SummedQuiet DEF CallParts
<1>4. CASE Close
  BY <1>1, <1>2, <1>4, CloseDoes, SummedQuiet, ToolQuietKeeps DEF CallParts
<1>5. CASE Redial
  <2>1. \A r \in DOMAIN levels : LevelRank[levels[r]] <= LevelRank[levels'[r]]
    <3>1. \A r \in DOMAIN levels : levels'[r] = levels[r] /\ levels[r] \in Levels
      BY <1>5, RedialDoes, ElementOfSeq, LenProperties DEF Shape, IsLevels
    <3>2. QED  BY <3>1, Ranks
  <2>2. Trusted'
    BY <1>5, <2>1, RedialDoes, TrustedRises
  <2>3. QED  BY <1>1, <1>2, <1>5, <2>2, RedialDoes, SummedQuiet DEF CallParts
<1>6. CASE WriteSummary
  <2>1. Summed'
    <3>1. summary.sentiment = "NONE" /\ summary'.sentiment = "NONE" /\ db' = db
          /\ summary'.since = Len(db.moods)
      BY <1>6, WriteSummaryDoes DEF Summed
    <3>2. summary'.since <= Len(db'.moods)
      BY <3>1, MoodTypes
    <3>3. QED  BY <3>1, <3>2 DEF Summed
  <2>2. QED  BY <1>1, <1>2, <1>6, <2>1, WriteSummaryDoes, ToolQuietKeeps DEF CallParts
<1>7. CASE ReadFinalSentiment
  <2>1. Summed'
    <3>1. /\ db' = db /\ summary'.since = summary.since /\ summary'.at \in {"record", "done"}
          /\ summary'.sentiment # "NONE" =>
                /\ Len(db.moods) \in DOMAIN db.moods
                /\ summary'.sentiment = db.moods[Len(db.moods)].sentiment
      BY <1>7, ReadFinalDoes
    <3>2. Len(db.moods) >= summary.since
      <4>1. Len(db.moods) \in Nat /\ summary.since \in Nat /\ summary.since <= Len(db.moods)
        BY MoodTypes DEF Shape, Summary, Summed
      <4>2. QED  BY <4>1
    <3>3. QED  BY <3>1, <3>2 DEF Summed
  <2>2. QED  BY <1>1, <1>2, <1>7, <2>1, ReadFinalDoes, ToolQuietKeeps DEF CallParts
<1>8. CASE RecordFinalSentiment
  <2>1. Summed'
    BY <1>8, RecordFinalDoes DEF Summed
  <2>2. QED  BY <1>1, <1>2, <1>8, <2>1, RecordFinalDoes, ToolQuietKeeps DEF CallParts
<1>9. QED
  BY <1>3, <1>4, <1>5, <1>6, <1>7, <1>8 DEF WorkflowNext

LEMMA PartsStep ==
    ASSUME CallIInv, [Next]_vars
    PROVE  CallParts'
<1>. CallParts /\ Spoken /\ Logged
  BY DEF CallIInv
<1>1. CASE UNCHANGED vars
  <2>1. UNCHANGED <<ctx, keypad, task, sample, db, signals, open, line, budget>>
        /\ UNCHANGED <<tool, levels, told, summary>>
    BY <1>1 DEF vars, pipelineVars, callVars
  <2>2. Shape'
    BY <2>1
    DEF CallParts, Shape, IsCtx, IsTask, IsDb, IsKeypad, IsLine, IsSignals, IsBudget, IsTool, IsLevels
  <2>3. AllQuiet
    BY <2>1, AsideQuiet DEF AllQuiet, PipelineQuiet, ToolQuiet, SumQuiet
  <2>4. QED  BY <2>2, <2>3, AllQuietKeeps
<1>2. CASE PipelineNext /\ UNCHANGED callVars
  BY <1>2, TapStep, AssistantStep, WriterStep, LatencyStep DEF PipelineNext
<1>3. CASE ToolNext
  BY <1>3, ToolStep
<1>4. CASE WorkflowNext
  BY <1>4, WorkflowStep
<1>5. QED  BY <1>1, <1>2, <1>3, <1>4 DEF Next

LEMMA CallInit ==
    ASSUME Init
    PROVE  CallIInv
<1>1. \A w \in Writers : task[w].at = "idle"
  BY IdleIsHandler DEF Init, PipelineInit
<1>2. Spoken
  BY <1>1 DEF Spoken, Said, tap, Writers
<1>3. db.turns = {} /\ db.events = {}
  BY DEF Init, PipelineInit
<1>4. Logged
  BY <1>1, <1>3 DEF Logged, EventsMatchMarkers
<1>5. QED  BY <1>2, <1>4, PartsInit DEF CallIInv

LEMMA CallStep ==
    ASSUME CallIInv, [Next]_vars
    PROVE  CallIInv'
BY PartsStep, LogStep DEF CallIInv, CallParts

---------------------------------------------------------------------------
(* What the invariant gives.                                               *)

LEMMA CallTyped ==
    ASSUME Shape
    PROVE  TypeOK
<1>1. IsCtx /\ IsKeypad /\ IsTask /\ IsDb /\ IsSignals /\ IsLine /\ IsBudget /\ IsTool /\ IsLevels
  BY DEF Shape
<1>2. Cardinality(ctx.pending) <= 1
  <2>1. CASE ctx.pending = {}
    BY <2>1, FS_EmptySet
  <2>2. CASE ctx.pending # {}
    <3>1. PICK t \in ctx.pending : TRUE
      BY <2>2
    <3>2. ctx.pending = {t}
      BY <1>1, <3>1 DEF IsCtx
    <3>3. QED  BY <3>2, FS_Singleton
  <2>3. QED  BY <2>1, <2>2
<1>3. task \in [Writers -> Handler]
  <2>1. \A w \in Writers : task[w] \in Handler
    BY <1>1 DEF IsTask, IsHandler, Handler
  <2>2. QED  BY <1>1, <2>1 DEF IsTask
<1>4. db \in [turns: SUBSET Turn, events: SUBSET [turn: Nat, category: Categories],
              moods: Seq([turn: Nat, sentiment: {"POSITIVE", "NEUTRAL", "NEGATIVE"},
                          signal: Range(SignalLexicon) \union {"NONE"}]),
              samples: Seq(Nat), tagged: Nat]
  BY <1>1 DEF IsDb, MoodRow, Sentiments
<1>5. PipelineTypeOK
  <2>1. ctx \in [language: Languages, turn_index: Nat, adversarial_streak: Nat,
                 pending: SUBSET Nat]
    BY <1>1 DEF IsCtx
  <2>2. sample \in SUBSET Nat /\ open \in BOOLEAN
    BY DEF Shape
  <2>3. QED
    BY <1>1, <1>2, <1>3, <1>4, <2>1, <2>2
    DEF PipelineTypeOK, IsKeypad, IsSignals, IsLine, IsBudget
<1>6. QED
  BY <1>1, <1>5 DEF TypeOK, Shape, IsTool, IsLevels

LEMMA PipelineGives ==
    ASSUME CallParts
    PROVE  /\ OneTurnPerIndex /\ AnswersFollowQuestions /\ SignalsAreEarned
           /\ DissatisfactionOnFile /\ SamplesMeasureTurns
<1>. Shape /\ Indexed /\ Ordered /\ Earned /\ Felt /\ Measured
  BY DEF CallParts
<1>1. OneTurnPerIndex
  BY DEF OneTurnPerIndex, Indexed
<1>2. AnswersFollowQuestions
  BY DEF AnswersFollowQuestions, Ordered, Asked, Given
<1>3. KeypadAnswersThePrompt
  <2>1. signals["CALLBACK"] \in Nat /\ signals["HUMAN"] \in Nat /\ line.prompts \in Nat
    BY CauseTypes
  <2>2. QED  BY <2>1 DEF KeypadAnswersThePrompt, Earned
<1>4. EscalationIsEarned
  <2>1. /\ signals["adversarial"] \in Nat /\ ctx.adversarial_streak \in Nat /\ db.tagged \in Nat
        /\ MAX_ADVERSARIAL_STREAK \in Nat /\ ctx.adversarial_streak <= db.tagged
    BY CauseTypes, PipelineAssumption DEF Earned
  <2>2. QED  BY <2>1 DEF EscalationIsEarned, Earned
<1>5. DissatisfactionOnFile
  <2>1. signals["DISSATISFIED"] <= Cardinality(Upset)
    BY CauseTypes, MoodTypes DEF Felt
  <2>2. \A i \in DOMAIN db.moods :
          \E r \in db.turns : r.speaker = "CUSTOMER" /\ r.turn_index = db.moods[i].turn
    BY DEF Felt, CustomerTurns
  <2>3. QED  BY <2>1, <2>2 DEF DissatisfactionOnFile, Upset
<1>6. SamplesMeasureTurns
  <2>1. \A i \in DOMAIN db.samples :
          \E r \in db.turns : r.speaker = "CUSTOMER" /\ r.turn_index = db.samples[i]
    BY DEF Measured, CustomerTurns
  <2>2. ASSUME NEW i \in 1 .. Len(db.samples) - 1
        PROVE  db.samples[i] < db.samples[i + 1]
    <3>1. i \in DOMAIN db.samples /\ i + 1 \in DOMAIN db.samples /\ i < i + 1
      BY SampleTypes
    <3>2. QED  BY <3>1 DEF Measured
  <2>3. QED  BY <2>1, <2>2 DEF SamplesMeasureTurns
<1>7. QED
  BY <1>1, <1>2, <1>3, <1>4, <1>5, <1>6 DEF SignalsAreEarned

LEMMA CallGives ==
    ASSUME CallParts
    PROVE  ReadsAreEarned /\ FinalIsRecent
<1>1. ReadsAreEarned
  <2>1. SUFFICES ASSUME NEW a \in told
                 PROVE  /\ a.level # "L0"
                        /\ LevelRank[a.level] <= LevelRank[levels[a.run]]
                        /\ a.status = "FINANCIAL_AMOUNT" => levels[a.run] = "L2"
    BY DEF ReadsAreEarned
  <2>2. Backed(a.run, a.level) /\ (a.status = "FINANCIAL_AMOUNT" => a.level = "L2")
    BY DEF CallParts, Trusted
  <2>3. levels[a.run] \in Levels
    BY <2>2, ElementOfSeq, LenProperties DEF Backed, CallParts, Shape, IsLevels
  <2>4. QED  BY <2>2, <2>3, Ranks DEF Backed
<1>2. FinalIsRecent
  BY DEF FinalIsRecent, CallParts, Summed
<1>3. QED  BY <1>1, <1>2

\* The row with the lowest turn index is the first one appended.
LEMMA FirstMood ==
    ASSUME NEW moods \in Seq(MoodRow), moods # <<>>,
           \A i, j \in DOMAIN moods : i < j => moods[i].turn < moods[j].turn
    PROVE  InitialSentiment(moods) = moods[1].sentiment
<1>1. /\ Len(moods) \in Nat \ {0} /\ DOMAIN moods = 1 .. Len(moods)
      /\ \A i \in DOMAIN moods : moods[i] \in MoodRow
  BY LenProperties, ElementOfSeq, EmptySeq
<1>2. \A i \in DOMAIN moods : moods[i].turn \in Nat
  BY <1>1 DEF MoodRow
<1>3. 1 \in DOMAIN moods
  BY <1>1
<1>4. \A j \in DOMAIN moods : moods[1].turn <= moods[j].turn
  <2>1. SUFFICES ASSUME NEW j \in DOMAIN moods
                 PROVE  moods[1].turn <= moods[j].turn
    OBVIOUS
  <2>2. j = 1 \/ 1 < j
    BY <1>1
  <2>3. QED  BY <1>2, <1>3, <2>2
<1>. DEFINE First(i) == \A j \in DOMAIN moods : moods[i].turn <= moods[j].turn
            first == CHOOSE i \in DOMAIN moods : First(i)
<1>5. first \in DOMAIN moods /\ First(first)
  BY <1>3, <1>4
<1>6. first = 1
  <2>1. moods[first].turn <= moods[1].turn
    BY <1>3, <1>5
  <2>2. 1 < first => moods[1].turn < moods[first].turn
    BY <1>3, <1>5
  <2>3. moods[first].turn \in Nat /\ moods[1].turn \in Nat
    BY <1>2, <1>3, <1>5
  <2>4. first = 1 \/ 1 < first
    BY <1>1, <1>5
  <2>. HIDE DEF first
  <2>5. QED  BY <2>1, <2>2, <2>3, <2>4
<1>7. InitialSentiment(moods) = moods[first].sentiment
  BY DEF InitialSentiment
<1>. HIDE DEF first
<1>8. QED
  BY <1>6, <1>7

\* Sentiment rows are only ever appended.
LEMMA MoodsGrow ==
    ASSUME CallParts, Logged, [Next]_vars
    PROVE  db'.moods = db.moods \/ \E mood \in MoodRow : db'.moods = Append(db.moods, mood)
<1>. Shape /\ Felt
  BY DEF CallParts
<1>1. CASE UNCHANGED vars
  BY <1>1 DEF vars, pipelineVars
<1>2. CASE TapNext /\ UNCHANGED callVars
  <2>1. CASE TakeTurn
    BY <2>1 DEF TakeTurn
  <2>2. CASE RecordSentiment
    BY <1>2, <2>2, FeelDoes
  <2>3. CASE TapNext /\ ~TakeTurn /\ ~RecordSentiment
    BY <1>2, <2>3, HearDoes, TagDoes, CountDoes, MarkDoes, TellDoes, PassDoes, HearNothingDoes,
       PressDoes
    DEF TapNext, MoodQuiet
  <2>4. QED  BY <1>2, <2>1, <2>2, <2>3
<1>3. CASE AssistantNext /\ UNCHANGED callVars
  <2>1. ASSUME NEW u \in Replies, EndReply(u)
        PROVE  db'.moods = db.moods
    BY <2>1 DEF EndReply
  <2>2. CASE StartReply \/ FinishReply
    BY <1>3, <2>2, StartReplyDoes, FinishDoes DEF AllQuiet, MoodQuiet
  <2>3. QED  BY <1>3, <2>1, <2>2 DEF AssistantNext
<1>4. ASSUME NEW w \in Writers, StoreTurn(w) \/ LogRedaction(w) \/ Cancel(w), UNCHANGED callVars
      PROVE  db'.moods = db.moods
  <2>1. LogRedaction(w) => task[w].detections # <<>>
    BY DEF LogRedaction, Logged
  <2>2. QED
    BY <1>4, <2>1, StoreDoes, LogDoes, CancelDoes DEF AllQuiet, MoodQuiet
<1>5. CASE (Audio \/ RecordSample \/ CancelSample) /\ UNCHANGED callVars
  BY <1>5, AudioDoes, SampleDoes, CancelSampleDoes DEF MoodQuiet
<1>6. CASE ToolNext
  BY <1>6, CallToolDoes, QueryDoes, ReadDoes, IntentDoes, CancelToolDoes
  DEF ToolNext, PipelineQuiet, MoodQuiet
<1>7. CASE WorkflowNext
  BY <1>7, VerifyDoes, CloseDoes, RedialDoes, WriteSummaryDoes, ReadFinalDoes, RecordFinalDoes
  DEF WorkflowNext, PipelineQuiet, MoodQuiet
<1>8. QED
  BY <1>1, <1>2, <1>3, <1>4, <1>5, <1>6, <1>7 DEF Next, PipelineNext

LEMMA InitialStays ==
    ASSUME CallParts, CallParts', Logged, [Next]_vars, db.moods # <<>>
    PROVE  InitialSentiment(db.moods') = InitialSentiment(db.moods)
<1>1. /\ db.moods \in Seq(MoodRow)
      /\ \A i, j \in DOMAIN db.moods : i < j => db.moods[i].turn < db.moods[j].turn
  BY DEF CallParts, Shape, IsDb, Felt
<1>2. InitialSentiment(db.moods) = db.moods[1].sentiment
  BY <1>1, FirstMood
<1>3. CASE db'.moods = db.moods
  <2>1. db.moods' = db.moods
    BY <1>3
  <2>2. QED  BY <2>1
<1>4. ASSUME NEW mood \in MoodRow, db'.moods = Append(db.moods, mood)
      PROVE  InitialSentiment(db.moods') = InitialSentiment(db.moods)
  <2>. DEFINE grown == Append(db.moods, mood)
  <2>1. /\ db'.moods \in Seq(MoodRow)
        /\ \A i, j \in DOMAIN db'.moods : i < j => db'.moods[i].turn < db'.moods[j].turn
    BY DEF CallParts, Shape, IsDb, Felt
  <2>2. grown \in Seq(MoodRow) /\ grown = db'.moods
    BY <1>1, <1>4, AppendProperties
  <2>3. 1 \in 1 .. Len(db.moods)
    BY <1>1, EmptySeq, LenProperties
  <2>4. grown # <<>> /\ grown[1] = db.moods[1]
    BY <1>1, <2>3, AppendProperties
  <2>. HIDE DEF grown
  <2>5. InitialSentiment(grown) = grown[1].sentiment
    BY <2>1, <2>2, <2>4, FirstMood
  <2>6. db.moods' = grown
    BY <2>2
  <2>7. QED  BY <1>2, <2>4, <2>5, <2>6
<1>5. QED  BY <1>3, <1>4, MoodsGrow

---------------------------------------------------------------------------
(* The theorems.                                                           *)

\* Rows, counters and handlers are of the types the code declares; at most one turn
\* waits for its latency sample (pending_latency_turn_index), and the count of unheard
\* turns stays below the limit (register_low_confidence_turn).
THEOREM CallIsTyped == Spec => []TypeOK
<1>1. CallIInv => TypeOK
  BY CallTyped DEF CallIInv, CallParts
<1>2. QED  BY <1>1, CallInit, CallStep, PTL DEF Spec

\* persist_transcript_turn commits the row and then each redaction event by itself, and
\* may be interrupted between two: every event reports a marker of a row on file, and
\* every marker has an event, is about to have one, or was cut off.
THEOREM MarkersAreLogged == Spec => []EventsMatchMarkers
<1>1. CallIInv => EventsMatchMarkers
  BY DEF CallIInv, Logged
<1>2. QED  BY <1>1, CallInit, CallStep, PTL DEF Spec

\* CallPipelineContext.turn_index, taken by two taps that interleave and are interrupted
\* anywhere, never gives two rows of a call the same index.
THEOREM TurnsAreNumbered == Spec => []OneTurnPerIndex
BY CallInit, CallStep, PipelineGives, PTL DEF Spec, CallIInv

\* _ConversationTapProcessor pushes a frame after its row is written, so a transcript
\* read by turn_index shows every question before the answers to it.
THEOREM AnswersComeAfter == Spec => []AnswersFollowQuestions
BY CallInit, CallStep, PipelineGives, PTL DEF Spec, CallIInv

\* register_low_confidence_turn, the keypad and AdversarialGuard: what they signal the
\* workflow, the call has given cause for.
THEOREM EveryEscalationIsEarned == Spec => []SignalsAreEarned
BY CallInit, CallStep, PipelineGives, PTL DEF Spec, CallIInv

\* record_turn_sentiment commits before DISSATISFIED is signalled, and after the turn it
\* read: behind a signal is a row, and behind a row a turn.
THEOREM DissatisfactionIsFiled == Spec => []DissatisfactionOnFile
BY CallInit, CallStep, PipelineGives, PTL DEF Spec, CallIInv

\* _LatencyTapProcessor, cancelled at any await, measures a customer's turn once at most
\* and turns in their order.
THEOREM SamplesAreSound == Spec => []SamplesMeasureTurns
BY CallInit, CallStep, PipelineGives, PTL DEF Spec, CallIInv

\* _require_verified asks for the level before the claim is read, and a new run may start
\* between the two: no tool ever answers for a run that was not verified for it.
THEOREM ClaimsAreGuarded == Spec => []ReadsAreEarned
BY CallInit, CallStep, CallGives, PTL DEF Spec, CallIInv

\* generate_call_summary reads the last sentiment while turns are still written: what it
\* files is not older than the summary.
THEOREM FinalSentimentIsRecent == Spec => []FinalIsRecent
BY CallInit, CallStep, CallGives, PTL DEF Spec, CallIInv

\* MIN(turn_index) over rows that arrive during the call: a first sentiment once reported
\* never changes.
THEOREM FirstSentimentStays == Spec => InitialSentimentIsStable
<1>1. CallIInv /\ CallIInv' /\ [Next]_vars =>
        [db.moods # <<>> => InitialSentiment(db.moods') = InitialSentiment(db.moods)]_vars
  BY InitialStays DEF CallIInv
<1>2. QED
  BY <1>1, CallInit, CallStep, PTL DEF Spec, InitialSentimentIsStable
=============================================================================
