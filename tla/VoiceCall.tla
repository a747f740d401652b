----------------------------- MODULE VoiceCall -----------------------------
(***************************************************************************)
(* A live call as a whole: its pipeline (VoicePipeline), the LLM's tool    *)
(* calls (backend/src/voice/tools.py), the workflow both signal and query, *)
(* as far as they depend on it, the next call of the same customer, and    *)
(* the activity that sums the call up (generate_call_summary).             *)
(*                                                                         *)
(* The workflow is found by the customer's id: a query or signal reaches   *)
(* whichever run is the latest.  What it does inside is CallSession's      *)
(* matter; here a run has a verification level, which only rises, and may  *)
(* end.                                                                    *)
(***************************************************************************)
EXTENDS VoicePipeline, ClaimStatus

CONSTANTS
    Tools,      \* the tools the LLM calls, of TOOL_REGISTRY
    Claims,     \* the verification levels it claims in its arguments
    MaxRuns     \* bound: calls of this customer

ReadTools == {"get_claim_status", "explain_next_step", "list_missing_documents",
              "get_authoritative_eta"}
WriteTools == {"request_verification", "schedule_callback", "register_inquiry",
               "create_action", "register_complaint", "send_secure_link"}
HumanRequestTools == {"create_escalation", "warm_transfer"}
TOOL_REGISTRY == {"get_insurer_identity"} \union ReadTools \union WriteTools
                     \union HumanRequestTools

LevelRank == [L0 |-> 0, L1 |-> 1, L2 |-> 2]

ASSUME CallAssumption ==
    /\ Tools \subseteq TOOL_REGISTRY
    /\ Claims \subseteq Levels
    /\ MaxRuns \in Nat \ {0}

VARIABLES
    tool,       \* the tool call in progress
    levels,     \* the verification level of each run so far
    told,       \* what tools have answered about the claim
    summary     \* generate_call_summary of this call

callVars == <<tool, levels, told, summary>>
vars == <<pipelineVars, callVars>>

NoTool == [at |-> "idle", name |-> "none", claimed |-> "L0", run |-> 0, level |-> "L0"]

\* claimed: the verification_level among the LLM's arguments.
ToolCall == [at: {"idle", "query", "read", "signal"}, name: Tools \union {"none"},
             claimed: Levels, run: 0 .. MaxRuns, level: Levels]
Answer == [tool: ReadTools, run: 1 .. MaxRuns, level: Levels, status: Disclosures]
\* since: the sentiment rows on file when the summary was committed.
Summary == [at: {"none", "read", "record", "done"},
            sentiment: {"NONE", "POSITIVE", "NEUTRAL", "NEGATIVE"}, since: Nat]

\* The state is of the types the code declares.
TypeOK ==
    /\ PipelineTypeOK
    /\ tool \in ToolCall
    /\ levels \in Seq(Levels) /\ Len(levels) \in 1 .. MaxRuns
    /\ told \subseteq Answer
    /\ summary \in Summary

Init ==
    /\ PipelineInit
    /\ tool = NoTool
    /\ levels = <<"L0">>
    /\ told = {}
    /\ summary = [at |-> "none", sentiment |-> "NONE", since |-> 0]

-----------------------------------------------------------------------------
\* dispatch_tool_call, during a response of the LLM; its arguments are the LLM's.
CallTool(name, claimed) ==
    /\ task["assistant"].at = "reply"
    /\ tool.at = "idle"
    /\ SpendFrame
    /\ line' = [line EXCEPT !.due = @ \/ name = "get_insurer_identity"]
    /\ tool' = CASE name \in ReadTools ->
                      [NoTool EXCEPT !.at = "query", !.name = name, !.claimed = claimed]
                 [] name \in WriteTools \union HumanRequestTools ->
                      [NoTool EXCEPT !.at = "signal", !.name = name]
                 [] OTHER -> NoTool
    /\ UNCHANGED <<ctx, keypad, task, sample, db, signals, open, levels, told, summary>>

\* The result goes back to the LLM, which answers again.
Answered == tool' = NoTool /\ line' = [line EXCEPT !.due = TRUE]

\* Mutant for ReadsAreEarned: the LLM's own claim.
GoesByClaim(claimed, level) == claimed

\* The level the tool goes by: the workflow's, never the LLM's.
GoesBy(claimed, level) == level

\* _require_verified: the level of the run the query reaches.
QueryLevel ==
    /\ tool.at = "query"
    /\ LET run == Len(levels)
           level == GoesBy(tool.claimed, levels[run])
       IN  IF level = "L0"
           THEN Answered
           ELSE /\ tool' = [tool EXCEPT !.at = "read", !.run = run, !.level = level]
                /\ UNCHANGED line
    /\ UNCHANGED <<ctx, keypad, task, sample, db, signals, open, budget, levels, told, summary>>

\* What the tool finds in the claim at that level; the others name no amount.
Finds(claim) ==
    IF tool.name = "get_claim_status" THEN get_disclosable_status(claim, tool.level)
    ELSE "STATUS"

\* The claim is read and answered, or there is none.
ReadClaim ==
    /\ tool.at = "read"
    /\ \/ \E claim \in ClaimsOnFile :
             told' = told \union {[tool |-> tool.name, run |-> tool.run,
                                  level |-> tool.level, status |-> Finds(claim)]}
       \/ UNCHANGED told
    /\ Answered
    /\ UNCHANGED <<ctx, keypad, task, sample, db, signals, open, budget, levels, summary>>

ToolSignal(name) == IF name \in HumanRequestTools THEN "transfer" ELSE "intent"

\* A signal to a closed workflow raises, and the LLM hears nothing.
SignalIntent ==
    /\ tool.at = "signal"
    /\ IF open
       THEN /\ signals' = [signals EXCEPT ![ToolSignal(tool.name)] = @ + 1]
            /\ Answered
       ELSE tool' = NoTool /\ UNCHANGED <<signals, line>>
    /\ UNCHANGED <<ctx, keypad, task, sample, db, open, budget, levels, told, summary>>

CancelTool ==
    /\ tool.at # "idle"
    /\ SpendStep
    /\ tool' = NoTool
    /\ UNCHANGED <<ctx, keypad, task, sample, db, signals, open, line, levels, told, summary>>

-----------------------------------------------------------------------------
\* The latest run verifies the customer, once and at one level, ends (by itself or by
\* its timeout), and is followed by another.
Verify ==
    /\ open
    /\ SpendStep
    /\ levels[Len(levels)] = "L0"
    /\ \E level \in {"L1", "L2"} : levels' = [levels EXCEPT ![Len(levels)] = level]
    /\ UNCHANGED <<ctx, keypad, task, sample, db, signals, open, line, tool, told, summary>>

Close ==
    /\ open
    /\ SpendStep
    /\ open' = FALSE
    /\ UNCHANGED <<ctx, keypad, task, sample, db, signals, line, callVars>>

Redial ==
    /\ ~open
    /\ Len(levels) < MaxRuns
    /\ SpendStep
    /\ open' = TRUE
    /\ levels' = Append(levels, "L0")
    /\ UNCHANGED <<ctx, keypad, task, sample, db, signals, line, tool, told, summary>>

\* generate_call_summary, tried once by this call's own run, while the customer may
\* still be talking: the summary is committed, then the last per-turn sentiment is
\* read and copied.  It may stop anywhere, as it may fail anywhere.
WriteSummary ==
    /\ summary.at = "none"
    /\ open /\ Len(levels) = 1
    /\ SpendStep
    /\ summary' = [summary EXCEPT !.at = "read", !.since = Len(db.moods)]
    /\ UNCHANGED <<ctx, keypad, task, sample, db, signals, open, line, tool, levels, told>>

\* Mutant for FinalIsRecent: ascending.
get_first_turn_sentiment(moods) == IF moods = <<>> THEN "NONE" ELSE moods[1].sentiment

\* ORDER BY turn_index DESC LIMIT 1
get_last_turn_sentiment(moods) ==
    IF moods = <<>> THEN "NONE"
    ELSE LET last == CHOOSE i \in DOMAIN moods :
                        \A j \in DOMAIN moods : moods[j].turn <= moods[i].turn
         IN  moods[last].sentiment

ReadFinalSentiment ==
    /\ summary.at = "read"
    /\ summary' = [summary EXCEPT !.sentiment = get_last_turn_sentiment(db.moods),
                      !.at = IF db.moods = <<>> THEN "done" ELSE "record"]
    /\ UNCHANGED <<pipelineVars, tool, levels, told>>

RecordFinalSentiment ==
    /\ summary.at = "record"
    /\ summary' = [summary EXCEPT !.at = "done"]
    /\ UNCHANGED <<pipelineVars, tool, levels, told>>

\* Mutant for InitialSentimentIsStable: MAX(turn_index).
LatestSentiment(moods) == moods[Len(moods)].sentiment

\* What customer experience reports as the call's first sentiment: that of the
\* row with MIN(turn_index).
InitialSentiment(moods) ==
    LET first == CHOOSE i \in DOMAIN moods :
                    \A j \in DOMAIN moods : moods[i].turn <= moods[j].turn
    IN  moods[first].sentiment

-----------------------------------------------------------------------------
ToolNext ==
    \/ \E name \in Tools, claimed \in Claims : CallTool(name, claimed)
    \/ QueryLevel \/ ReadClaim \/ SignalIntent \/ CancelTool

WorkflowNext ==
    \/ Verify \/ Close \/ Redial
    \/ WriteSummary \/ ReadFinalSentiment \/ RecordFinalSentiment

Next ==
    \/ PipelineNext /\ UNCHANGED callVars
    \/ ToolNext
    \/ WorkflowNext

Spec == Init /\ [][Next]_vars

-----------------------------------------------------------------------------
\* Whatever level the LLM claims, and though the level is asked for before the claim
\* is read: a tool answers about the claim only for a run of the customer's that was
\* verified, and names the amount of a claim in one of FINANCIAL_STAGES only for one
\* verified at L2.
ReadsAreEarned ==
    \A a \in told :
        /\ a.level # "L0"
        /\ LevelRank[a.level] <= LevelRank[levels[a.run]]
        /\ a.status = "FINANCIAL_AMOUNT" => levels[a.run] = "L2"

\* The final sentiment on file is not older than the summary it belongs to: it was
\* the last per-turn sentiment at some moment since the summary was committed.
FinalIsRecent ==
    summary.at = "done" /\ summary.sentiment # "NONE" =>
        \E i \in DOMAIN db.moods :
            i >= summary.since /\ db.moods[i].sentiment = summary.sentiment

\* A report read during the call and one read after it show the same initial
\* sentiment, although turns are still being written.
InitialSentimentIsStable ==
    [][db.moods # <<>> => InitialSentiment(db.moods') = InitialSentiment(db.moods)]_vars
=============================================================================
