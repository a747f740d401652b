# Formal model of the outbound call agent

TLA+ modules, TLC runs and TLAPS proofs about the backend of this repository: a service that
calls motor-insurance customers about their claims, identifies and verifies them, tells them
the status of a claim, does what they ask for, and files how the call ended. Paths below are
relative to `src/backend/src/` unless they start with `src/`.

    tlc -workers 2 -config call_gate.cfg MCCallSession     # any run: PROJECT.json "runs"
    tlapm CallSession_proofs.tla                           # any *_proofs.tla

## 1. The system

FastAPI serves REST requests, Temporal runs durable workflows and their activities, a
PostgreSQL database holds every row. Workflow code is deterministic and single-threaded:
between two awaits nothing else of that workflow runs. Activities are ordinary async
functions in a worker; one that raises, times out or loses its reply runs **again**, without
limit unless it has a retry policy. Only `deliver_status`, `generate_call_summary` and the
scheduler's exhausted-attempts action have one.

| component | code | state it keeps | operations | talks to |
|---|---|---|---|---|
| idempotent writes | `idempotency.py`, `actions/service.py`, `complaints/service.py` | `idempotency_record`, `claim_action`, `escalation`, `callback`, `complaint` | claim, execute, finalize, replay, poll | called by activities and request handlers |
| call session workflow | `calls/workflows.py`, `calls/activities.py`, `calls/service.py`, `calls/models.py` | workflow fields; `call_attempt`, `call_session`, `verification_attempt`, `otp_challenge`, `audit_event` | 5 signals, 18 awaited activities in five stages | started by the scheduler or `POST /calls`; signalled by the voice pipeline; starts the SLA monitor |
| disposition rules | `calls/disposition.py` | none | `resolve_disposition` | called by `_finalize` |
| retry scheduler, voice lock | `campaigns/`, `calls/router.py`, `kill_switch.py` | a job's attempt number; the workflow id `call-session-{customer_id}`; the outbound switch | check, dial, wait, exhaust; ad-hoc start | runs call sessions as children |
| verification | `verification/service.py` | `verification_attempt`, `otp_challenge` | `verify_level1`, `send_otp`, `verify_otp` | called by activities |
| complaint SLA monitor | `complaints/` | four timers; `complaint`, `complaint_sla_event` | wait, check, raise, act | child of a call, or started by `POST /complaints`, which a client may repeat |
| voice pipeline | `voice/`, the per-turn activities of `calls/activities.py` | turn index, language, adversarial streak, latency mark, low-confidence counter, pending keypad prompt; `call_transcript`, `sentiment_event`, `call_latency_sample` | three taps handle transcriptions, replies and audio; keypad; tool dispatch | signals and queries the call session, found by the customer's id |
| claim disclosure | `claims/service.py` | `motor_claim` (read) | `get_disclosable_status` | called by `deliver_status` and tools |
| QA defect log | `qa/` | `qa_defect_log_entry`, `qa_journey_run_result` | record, count, update, summarize | REST; a CI gate |
| redaction | `privacy/` | `pii_redaction_event` | detect, resolve overlaps, mask, log | called per turn and per summary |
| reporting | `reporting/` | none | six reports of up to 25 statements | reads what calls are writing |
| audit, telephony, customers, shell, migrations, frontend | see `PROJECT.json` | rows read by others | mostly reads | |

### What makes it hard

* **An activity's commit and its reply are two events.** The rows change, the worker dies, the
  workflow is told nothing and the activity runs again on the rows it left: guess counters,
  the OTP challenge, unique keys and idempotency claims all meet this.
* **A claim without an owner.** `idempotent()` commits a PENDING row before it runs the operation
  and settles it afterwards; between the two commits a process may die, or be overtaken by its
  own retry.
* **Signals come at any time**, for a stage that is over or has not begun, twice, after a hang-up,
  while an activity runs. They queue, and the next stage takes them.
* **Facts collected on the way decide the outcome at the end.** Flags set in one stage, rows written
  by activities in another and the disposition computed from the flags must tell one story.
* **Three taps, one context.** The processors of a live call are tasks of one event loop that share a
  counter, a language and a latency mark; each handler has half a dozen awaits, and an interruption (the customer
  speaks) cancels it at any of them.
* **A signal without a run.** The pipeline finds its workflow by the customer's id: a closed run refuses its
  signals, and the next run takes those of the old pipeline.
* **Reads in pieces.** A report is a sequence of statements, a defect's count is read and written back,
  a deadline is checked before its alarm is raised; rows change in between.
* **One customer, several callers.** Schedulers of several jobs and REST requests share one workflow
  id as a lock, and the call that holds it may hang, be killed by a timeout, or fail.

### What makes each component correct

* *Idempotent writes*: at most one row per key; a row is there exactly when the record says
  COMPLETED; an answer is the committed row and for one's own payload; a settled record is final;
  every execution ends.
* *Claim disclosure*: no status to a caller who is not verified, no amount of a claim in a financial stage below L2,
  through the workflow or a tool.
* *Call session*: nothing is disclosed that was not earned; guesses are limited whatever is lost;
  the durable session row follows the workflow's memory; nothing is written without a recorded
  cause; the outcome agrees with the rows behind it and is filed once; a call ends.
* *Scheduler*: one call at a time; whoever was reached is not redialled; attempts are counted right;
  exhaustion is reported only after all attempts; every scheduler ends.
* *Verification alone*: a resend must not hand out more guesses than the limits allow; lock and expiry.
* *SLA monitor*: for each deadline not cleared in time staff get one action with its warning and one with its breach, in this
  order, and no alarm is false. (The SLA *event* has no key: a lost reply or a second monitor puts it on file again.)
* *Voice pipeline*: a turn index is used once and orders questions before answers; a keypad answer belongs to
  a prompt; what is signalled is on file; a tool discloses what the run it asks has earned.
* *Redaction*: whatever overlaps, a secret's digits are masked and nothing else is lost; the log says what was masked.
* *Defect log*: a recorded second occurrence blocks the gate although increments may be lost.
* *Reports*: figures torn between statements disagree by no more than what was committed in between.

The hazards, each at its line with the properties that guard it, are in `PROJECT.json`.

## 2. The modules

| module | models | checked by |
|---|---|---|
| `OnceRegister` | what `idempotent()` promises: a key is performed once or refused for good, and callers are told what is there | as a refinement target |
| `Idempotency` | `idempotent()`, `_finalize()`, `_replay_or_poll()` | `idempotency`, `idempotency_pending` |
| `Disposition` | `resolve_disposition()`, as an ordered table of rules | through `CallSession` |
| `CallProtocol` | what a call promises: identify, trust, tell, file, in this order, and the disposition fits | as a refinement target |
| `ClaimStatus` | what of a claim is told at which level, by its stage | through `CallSession` and `VoiceCall` |
| `CallSession` | one `CallSessionWorkflow` execution with its activities and rows | `call_*` |
| `CustomerLine` | what a customer is promised: one call at a time, no more of them than a job's attempts, none from a job that reached him | as a refinement target |
| `RetryScheduler` | the schedulers of one customer, their calls, ad-hoc calls and the outbound switch | `retry_*` |
| `Redaction` | `redact()`: overlap resolution and masking, as functions of a text's matches | `back_office`, and through `VoicePipeline` |
| `VoicePipeline` | the three taps of a live call, the keypad, and the rows they write | through `VoiceCall` |
| `VoiceCall` | a pipeline with its tool calls, the customer's successive runs and the summary | `voice_call` |
| `ComplaintSla` | a complaint, its requests, its monitors and time | `back_office` |
| `DefectLog` | concurrent requests on the defect log; the two-strike rule and the governance page | `back_office` |
| `Reporting` | the statements of the six reports, against concurrent writers | `back_office` |
| `OtpVerification` | the one-time password of a session, sent and sent again, checked and locked | `back_office` |
| `BackOffice` | the five parts that share nothing, one per behaviour | `back_office` |
| `MC*` | the constants of the runs | |
| `*_proofs` | inductive invariants and theorems | TLAPS |

**Idempotency.** A caller is one execution of `idempotent`; callers that share a key and payload are
a call and its overlapping retry, callers that share a key alone are a reuse. `pc` is the point
between two database transactions: `claim` (Phase A's insert), `operate`/`commit`/`fail` (Phase B),
`poll` (Phase C). `Operate` only flushes, so it changes nothing others can see; `Complete` commits
row and record together, and may lose the acknowledgment. `FlushFails` is the failure after which
the session refuses `_finalize`'s own statements, so FAILED is not written. `Crash` is possible at
every point. A fingerprint is the payload itself: SHA-256 collisions are out of scope.

**ClaimStatus.** A claim is its stage and whether an amount is on file, which the code allows in any stage. `Withheld` is the
guard of `claims/service.py:69`: below L2 the amount is withheld in `FINANCIAL_STAGES` and told in every other stage.
`Disclosures` tells the two amounts apart, so that the properties speak of the first. Nothing in the code moves a
claim on, so each read finds any of `ClaimsOnFile`.

**CallSession.** `wf` is the workflow's memory, with `at` the await it stands at and `stage` the
method it is in; `inbox` is what signal handlers left; `db` the rows. An activity is one action:
its guard holds where its transaction can commit, and `Reply` lets the workflow get the answer or
lose it (`MaxLost` times), in which case the rows have changed and the activity is run again. An
activity that raises deterministically (no factor on file, a second insert of the same key, an OTP
that is late or locked) is simply not enabled: the code retries it for ever with the same input.
Signals are an intent and whether the value is right; secrets, summaries and languages are not
modelled. `_finalize` is three actions (finalize, audit, summary), because each of its activities
is a commit. The idempotent writes are inlined as what `Idempotency` shows them to be: one commit
of a row with its claim, a replay, or a claim left PENDING.

**RetryScheduler.** A call is its result or the fact that it hangs. The lock is derived from the calls
that are live, since Temporal's id uniqueness is exactly that. Eligibility is a free choice made one
step before it is used; the sleeps are steps without durations. `Line` reads the customer's side off the calls: who rings,
whether an ad-hoc call does, how often each job has called and which jobs reached him, where a call that was cut off
by its timeout counts as one that did.

**Redaction.** A text is its length, what the recognizers find in it in the order they run (`found`), and what
Presidio finds (`entities`, used in English only); which characters a pattern accepts is left out. `resolve_overlaps`
is the stable sort by priority and start followed by the greedy choice, `apply_mask` the splice; a masked text is a sequence of
pieces: the positions that are left, and the markers. Sorting is the choice of a sequence in order and a loop is a
function of the number of rounds, since the prover knows nothing of `SortSeq` and the folds. `MasksExactly` says what is masked,
`ReportsItsMarkers` that the detections returned beside the text are the categories of its markers, each once, which is all the
redaction log knows.

**VoicePipeline.** Each tap is a task (`task[w].at` is the await it stands at) and a step of it is the
code between two awaits with the effect of the second. So `TakeTurn` takes the index and redacts, since
`_persist_turn` does both before its first await, and `StoreTurn`, `LogRedaction` (one commit per category),
`MarkSpeech`, `RecordSentiment`, `SignalDissatisfied` and `PassOn` are steps of their own. `Cancel` is Pipecat's
interruption. The keypad press is a system frame and is handled beside whatever the tap awaits. An utterance
is the phrases in it the classifiers know, a language and a text of `Redaction`. The counter's module-level
dict of `dtmf.py` is one counter, as the pipeline has one call id. `about` and `heard` count transcriptions,
so that the order of the transcript can be compared with what was asked; they are ghosts.

**VoiceCall** adds the LLM's tool calls, each a query, a read or a signal with awaits between them;
the runs of the customer, which are verified, close and are followed by another (what a run does inside is
`CallSession`'s matter; here a run's level leaves L0 once, for L1 or for L2); and the two commits of `generate_call_summary`.

**ComplaintSla.** Time is a clock from the complaint's creation; the deadlines are frozen then, as
`create_complaint` does. A monitor is a place in its four steps. A lost reply (`Fault`) leaves the commit
and repeats the activity; `AbandonAction` is the PENDING claim of `Idempotency`, after which `create_action` is never
enabled again. Nothing in the code moves a complaint, so `Acknowledge` and `Resolve` are external.

**DefectLog.** A request loads its row in one step and writes in another, and writes only the columns it
changed, as the ORM does. `seen` is how often a defect really recurred.

**Reporting.** A row is its table and the facts the queries ask for, a figure is a query of the form "rows of
this table with all of these facts and any of those", and a report the order of its statements. `repeated_contact`
counts calls where the code counts their customers, each once; no property compares it with another figure, only with itself
later, and both counts only grow. Every step executes one
statement, or commits one row. A call's row (`CallRow`) says one outcome, each stage of it after the one before, or none yet,
and beside it what its sentiment events say.

**OtpVerification** is the verification service without the workflow, which never asks for a second code. An activity
carries the `now` of the moment it was scheduled through all its retries; `TextCode` and `CommitCode` are two steps, as
the text cannot be rolled back. A code is named by the order it was texted in. `Refuse` gives the
exception to the caller; the EXPIRED that `verify_otp` sets is rolled back by the exception it raises. `guesses` counts an
answer once however often its activity runs.

**BackOffice** is a disjoint sum: a behaviour picks a desk and stays. Interleaving five parts that share no row would
multiply states and show nothing; the sum lets one run check them all.

## 3. The runs

| run | question | verdict |
|---|---|---|
| `idempotency` | four callers, two keys, crashes and lost commits anywhere: `AtMostOnce`, `EffectIffCompleted`, `AnswerIsTheEffect`, `SettledIsFinal`, `CallEnds`, and `Idempotency` implements `OnceRegister` | holds |
| `idempotency_pending` | is a claimed key settled in the end, if its caller is retried for ever? | violated (finding) |
| `call_gate` | everything up to the disclosure, right and wrong answers, a late OTP, a lost reply, an execution timeout: `DisclosureIsEarned`, `GuessesAreLimited`, `SessionRowKeepsUp`, and `CallSession` implements `CallProtocol` | holds |
| `call_service` | everything a verified caller may ask for, a lost reply or abandoned claim: `OutcomeMatchesRows`, `WritesHaveACause`, `FiledForGood` | holds |
| `call_closes` | does every call end when its activities succeed? | holds |
| `call_late_otp` | is an OTP answer always dealt with? | violated (finding) |
| `call_expires` | does a call that ended always have its disposition? | violated (finding) |
| `retry_jobs` | two schedulers, ad-hoc calls, hangs and timeouts: `NeverRedialled`, `AttemptsAreCounted`, `ExhaustionIsEarned`, `JobsEnd`, and `RetryScheduler` implements `CustomerLine` (so one call at a time) | holds |
| `retry_lock` | is the voice lock always given back? | violated (finding) |
| `retry_switch` | is no call placed while outbound is off? | violated (finding) |
| `voice_call` | the taps, keypad, tools, runs and summary of a live call, interrupted anywhere: `OneTurnPerIndex`, `AnswersFollowQuestions`, `EventsMatchMarkers`, `SignalsAreEarned`, `DissatisfactionOnFile`, `SamplesMeasureTurns`, `ReadsAreEarned`, `FinalIsRecent`, `InitialSentimentIsStable` | holds |
| `back_office` | every text with up to three matches: `MaskingIsExact`; monitors of one complaint: `OneEscalationPerDeadline`, `AlarmsMatchDeadlines`, `MonitorEnds`; the defect log: `GovernanceIsHonest`; all six reports: `ReportsAgree`; one-time passwords sent again, late, locked and retried: `OtpLimitsHold` | holds |

**Bounds.** Three callers on one key give a retry that overlaps its own call *and* a reuse of
the key for something else; the fourth has a key of its own, and shows that keys do not interfere. `MaxAuthAttempts` = 2 and `MaxOtpAttempts` = 3 are the code's own
values (the liveness run takes 2); the settlement of a challenge at its limit needs no more.
`MaxQueue` = 1 in the large runs still lets a signal of a later stage wait in the queue while an
activity of the earlier one runs, and `call_closes` takes 2. `MaxLost` = 1: each lost reply repeats one activity, and a second loss at
another activity meets rows the first has already made safe or stuck; the theorems hold for
every `MaxLost`. Two jobs and two ad-hoc calls let a scheduler lose the lock to each kind of
rival; `MaxAttempts` = 3 is the code's own value. The signal sets are split between
`call_gate` (which leaves the follow-up wishes out) and `call_service` (which lets the customer in
by one right answer), because a follow-up wish before verification is only put off, which
`call_gate` shows with the answers of other stages. `call_gate` takes a claim in a financial stage, one in
another, both with an amount, and one without (the three cases `get_disclosable_status` tells apart); what is told
changes nothing else, so the other `call_*` runs take one.

In `voice_call` a behaviour has three frames from outside (transcriptions, silences, tool calls) and no
interruption, or two frames and four other steps (interruptions, verification, closing, redialling, the
summary): a prompt needs two silences and a second prompt would need four, an escalation two injections, a crossed answer
two transcriptions and a reply. `MAX_CONSECUTIVE_LOW_STT_TURNS` and `MAX_ADVERSARIAL_STREAK` are 2 (3 in the code), so that
the thresholds are met within those frames. What is said contains a secret inside a card number, a name only
English detects, a switch of language and both kinds of mood. In `back_office` the texts have four positions, the least in
which three matches can overlap in a chain, each of a secret, an ordinary or a named-entity category; a complaint's deadlines are one unit
after their warnings, and two requests give the second monitor, two faults a repeated event beside an abandoned claim; five
requests of two clients lose an increment of a twice seen defect; two commits fall between any two statements
of a report, which are enough for a negative figure and for an outcome read between its call and its total.
A code lives two units, may be sent again after one, and a lock lasts as long as a code lives (ten times as long by default);
two sends of two guesses each within five units meet the resend of a locked challenge, and four texts a crash before each row.

**Deadlock** checking is off where the system stops for good: a call or a scheduler that ended.

**Fairness.** `Idempotency!FairSpec` asks weak fairness of an execution's own steps and of no fault: a
live process goes on. `RetryingSpec` adds that a caller that raised is called again and that faults
cease, which only makes its violation stronger. `CallSession!FairSpec` is weak fairness of the
workflow's work (Temporal schedules tasks and fires timers) with the assumption that signals cease:
a customer who talks for ever keeps a call open in the code too. `RetryScheduler!FairSpec` is weak
fairness of each scheduler and of the execution timeout, which Temporal enforces on its own, and
that an ad-hoc call that is not hung ends; nothing makes a scheduled call finish by itself.
`BackOffice!Spec` is weak fairness of time and of each monitor's steps: Temporal fires durable timers and retries
an activity without limit, and faults are finite. It asks nothing of the requests or of anybody who could clear a complaint.

**Every property has a mutant** of the code it is about, in the module beside the definition it
changes: a dropped guard, an off-by-one, a missing return, a write outside `idempotent()`.

## 4. The proofs

For every value of the constants, under the named assumptions of each module (attempt limits
positive, bounds natural, signals well-formed, keys and payloads given per caller):

| module | theorems |
|---|---|
| `Idempotency_proofs` | `TypeCorrect`, `AtMostOneRow`, `RowWithRecord`, `HonestAnswers`, `SettledForGood`, `Implementation` (of `OnceRegister`) |
| `CallSession_proofs` | `TypeCorrect`, `EarnedDisclosure` |
| `CallFiling_proofs` | `CallImplementsProtocol` (of `CallProtocol`), `OutcomeStaysFiled` |
| `CallRows_proofs` | `SessionRowFollows`, `GuessesStayLimited`, `OutcomeIsBacked`, `WritesAreCaused` |
| `RetryScheduler_proofs` | `TypeCorrect`, `VoiceLock`, `ReachedOnce`, `HonestCount`, `EarnedExhaustion`, `CustomerIsSpared` (of `CustomerLine`) |
| `Redaction_proofs` | `RedactionIsExact`, `RedactionReports`, of every text |
| `VoiceCall_proofs` | `CallIsTyped`, `TurnsAreNumbered`, `AnswersComeAfter`, `MarkersAreLogged`, `EveryEscalationIsEarned`, `DissatisfactionIsFiled`, `SamplesAreSound`, `ClaimsAreGuarded`, `FinalSentimentIsRecent`, `FirstSentimentStays` |
| `BackOffice_proofs` | of one part: `SlaTyped`, `EscalatesOnce`, `AlarmsAreTrue`, `OtpIsLimited`, `StrikesAreCounted`, `GovernanceFigures`, `FiguresAgree`; of `BackOffice`: `BackOfficeTyped`, `MaskingIsAlwaysExact`, `ComplaintsAreWatched`, `PasswordsAreLimited`, `ReportsAreSound`, `GovernanceHolds` |

So every safety property of a passing run is proved, for every value of the constants; liveness is not.

*Idempotency.* "At most one row" is not inductive: a second `Complete` of the same key must be
excluded, so the invariant says that a caller inside Phase B owns the one PENDING record of its key,
with its own fingerprint, and that no two callers own one key. From it follow the row-with-record
equation, and from that the honest answers; each step then maps to `OnceRegister`'s.

*CallSession.* The invariant relates memory and rows: `Placed` (which await may be reached in which
stage, at most one business write before the end), `Ladder` (confirmed before trusted, trusted before
told, the amount of a financial claim at L2 only) and `Evidence` (what the memory believes the rows show). It is written
`Good(w, d)` of any memory and rows, since an action that commits `db'` and replies `w` must be
good twice: for `(w, db')`, and for `(wf, db')` when the reply is lost. That the disposition is a
code of the table needs a first matching rule to exist, by well-foundedness of `<` on Nat.

*How a call is filed.* `FInv`, on top of that invariant: from the moment a call turns to its end, the disposition it
will be filed under fits how far it got; a filed call stands at `finalize` or behind it; and if it
still stands at `finalize` (its reply was lost) the row already says what a second filing would. The lemmas
about the rules of `resolve_disposition` give the code of each way a call can end; the lemmas on the kinds
of step (`GoesOn`, `Identifies`, `Trusts`, `Tells`, `Files`, `Over`) map it to the protocol.
Since every disposition of the protocol is one some rule gave, no reachable call is filed as unresolved.

*What a call leaves on file.* `GInv` adds two relations of memory and rows. `KeptUp`: a column of `call_session`
is behind the memory only while the activity that writes it is under way. `Guessed`: when a comparison begins
the counters are below their limit, so that they can pass it only by the replies that were lost; "at most the limit plus the
losses" alone is not inductive, as nothing would stop the next attempt. `RInv` is about the business rows: before the one write there are none,
at it there are none or the claimed one, and from it on the rows back the disposition the flags will give. For this `FInv`
must say already, before the call is filed, which disposition that is. Most steps of a call touch nothing of either; two lemmas
(`Quiet`, `BooksKept`) settle them together.

*RetryScheduler.* `JobOK(j)` ties a scheduler's place to its calls: the number of calls is the attempt number or
one less, all but the last unanswered, and the last one what the place says. With the lock it is
inductive, and the four safety properties follow. For the refinement each step is mapped: a dial rings (a job that may dial
has placed fewer than its attempts, all unanswered), what settles a call hangs up and says whether the customer was
reached, a hang changes nothing he notices, and a decision between two calls is a stutter.

*Redaction.* Sorts and loops are inductions, but over numbers only, and an induction over a *set* of numbers needs no operator as a
parameter: `LoopInvariant` has it from the least element of what is left. `LoopExists` shows that a
loop has values, and `SortExists` that a sort does, by giving each element the place after those
below it. From there `Greedy` is what a round of the selection keeps (the selected are apart, and whatever
was passed over overlaps one selected before it), and `SplicedTo` what a round of the splice keeps (all that
is not covered up to the cursor, in order, and a marker for each match behind it). That no digit of a secret survives
needs that secrets rank first and that one recognizer's matches never overlap each other. The transcript's theorem
(`MarkersAreLogged`) rests on `RedactionReports`.

*A live call.* `CallIInv` has one part for each thing the handlers share. `Indexed`: a turn index belongs to one row
on file or to the one handler that holds it between taking it and storing it; without the second half, two handlers
interrupted between their awaits could hold the same. `Ordered` carries the order of question and answer over the same gap:
a question is heard before it is passed on, passed on before it is answered, and rows that are only held count as rows.
`Earned`: prompts are answered or pending, and the streak never exceeds what was audited, counting the signal still to
be sent. `Felt` and `Measured`: moods and samples are of customer's turns in their order, all before the turn that is marked, pending or
held. `Trusted`: a level a tool read stays true of the run it asked, since a run's level only rises.
`Summed`: the sentiment read was the last one at that moment. `Logged`: a handler that logs has its row on file and has only categories
of that row's markers left, so the events on file and those to come are the markers. A step is shown to leave most parts alone (`RowsQuiet`, `MoodQuiet` and so on)
and to preserve the rest.

*Complaints.* "One escalation per deadline and event" is about the actions staff get; events may repeat. It follows from `Filed`: a step has an action exactly if its claim is
COMPLETED, and an event before its action. That alarms are true needs `Watching`, which carries what a monitor checked from one await to the
next (the time has come, the deadline was open then, its warning has been acted on) although the complaint may be cleared in between, and `Cleared`, which
says that a time of clearing is recorded once and never in the future.

*The other desks.* `OtpInv`: a code allows `MAX_OTP_ATTEMPTS` wrong answers and the lock outlasts it, so the guesses so far are at most that for each
code sent before and the counter for this one; an activity still carries the time at which it was scheduled, which is after
the code on file was sent. `DefectInv`: a loaded count, however stale, is between 1 and what its row has seen, so a lost
increment leaves a count of 2 at least. That the latest cooperative run of each journey decides, however many there are, is an
induction over the rounds of `latest_by_journey` (`KeepLatest`): after the newest n runs, what is kept of a journey is the last cooperative one
among them. `ReportInv`: a figure read is at most what it would be now, and
now at most what was read plus the commits since; what relates two figures now (one set of rows within another, or disjoint from it) holds
then up to those commits. `BackOffice` is the sum, so its invariant is their conjunction.

**Only model-checked.** Liveness (`Idempotency`'s `CallEnds`, `CallCloses`, `JobsEnd`, `MonitorEnds`), since the prover has no
ENABLED.

## 5. What the code does against its own words

1. **A crashed claim blocks its key for ever** (`idempotency_pending`, `idempotency.py:97`). Nobody owns
   a PENDING row after its process died, no field says how old it is, and every retry polls and gives up.
   The docstring promises exactly one execution per key.
2. **A late OTP answer hangs the call** (`call_late_otp`, `calls/workflows.py:580`). `verify_otp` raises, the
   activity has no retry policy, and the `except` that should "fail safe" never runs. `LOCKED` after
   a lost reply ends in the same place.
3. **A call that times out is never filed** (`call_expires`, `campaigns/workflows.py:84`).
4. **An ad-hoc call has no timeout, so a hung one keeps the voice lock** (`retry_lock`, `calls/router.py:107`).
5. **Retries are dialled while outbound is off** (`retry_switch`, `campaigns/workflows.py:71`).

Each is quoted with its line in `PROJECT.json` "findings".

Besides, a docstring promises more than its function does, and no run is spent on it, as reading the line shows it:
`claims/service.py:50` says "Redacts settlement_amount below Level 2", but line 69 does so in the two `FINANCIAL_STAGES` only
(as `tests/unit/test_claims_status_redaction.py:30` expects in `test_non_financial_stage_never_redacts`). A claim that is closed or
delayed and has an amount on file is told with it at L1. `DisclosureIsEarned`, `ReadsAreEarned` and `CallProtocol` are
therefore stated for claims in those stages, and `"OTHER_AMOUNT"` is what they leave free.

What the models showed besides, without a sentence of the repository it contradicts:

* An escalation that dies between its claim and its commit not only never happens: its monitor waits for it for ever,
  and every later deadline of the complaint passes in silence (`Stuck` in `ComplaintSla`).
* A complaint whose request died after the commit has no monitor, and nothing looks for such complaints; the
  repeated request repairs it, and a request repeated after the first monitor ended starts another, harmlessly.
* A report may show a rate above 1 or a negative number of vulnerable-customer referrals, by as much as was
  committed between its statements.
* A claim without an approved message key counts as resolved by AI and never as status delivered, so the
  last step of the funnel exceeds 1 for good; `Parts` leaves this pair out.
* A latency sample is filed under the right turn, once, but may have been stopped by the audio of an older answer
  or of the keypad prompt.
* A resend lifts the lock of a challenge and resets its counter, so a session allows `MAX_OTP_SENDS_PER_SESSION` times
  `MAX_OTP_ATTEMPTS` guesses, and no more only because the lock outlasts the code (`OtpAssumption`; the settings are
  not checked for it). The number of texts has no limit: each crash before the row is committed sends one more.
* Two reports of one new defect shape make two rows, and the two-strike rule counts each alone.

## 6. Not modelled, and why

The tagging of STT, LLM and TTS errors is telemetry no modelled step reads, as is the copy of the language in
`call_session`. What the scrubber's patterns and the classifiers' phrases match is text matching: a model
would restate it; what is done with their answers is modelled. Reports leave out averages, percentiles, ranges and the grouping by hour, day and reason. Speech and
language services, telephony and Temporal itself are external; what the code relies on (one workflow per
id, unlimited retries, timers that fire) is stated where it is used. Customers, the
frontend, migrations and CI scripts have no protocol of their own. Real time is a clock in `ComplaintSla` and `OtpVerification` only; elsewhere deadlines are
choices (an OTP is late or not), never durations. `start_child_workflow` of the SLA monitor is taken to succeed.

## 7. Plan

Written so far: every module of section 2, and the proofs of section 4. What would extend them, in this order:

1. Composition of `CallSession`'s writes with `Idempotency` by INSTANCE in place of the inlined claim.
2. `OtpVerification`: overlapping attempts of one activity, and `CallSession`'s use of it as a refinement.
