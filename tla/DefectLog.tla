----------------------------- MODULE DefectLog -----------------------------
(***************************************************************************)
(* backend/src/qa: the log of defects found by evaluations, the two-strike *)
(* rule and the governance figures.  A request reads its row in one        *)
(* statement and writes it in another, in one READ COMMITTED transaction   *)
(* without locks; an update names the columns it changes, and no others.   *)
(***************************************************************************)
EXTENDS Naturals, Sequences, FiniteSets, SequencesExt

CONSTANTS
    Shapes,         \* defect_shape_key
    Journeys,       \* demo_journey_id
    Statuses,       \* the statuses a PATCH sets
    Clients,        \* concurrent requests
    MaxServed       \* bound: requests served

DefectStatus == {"OPEN", "FIX_APPLIED", "COMPILED", "WONT_FIX"}
ASSUME DefectAssumption == Statuses \subseteq DefectStatus /\ MaxServed \in Nat

VARIABLES
    entries,        \* qa_defect_log_entry; seen: how often it really was (a ghost)
    runs,           \* qa_journey_run_result, by run_at
    request,        \* what each client's request has loaded
    served

defectVars == <<entries, runs, request, served>>

Entry == [shape: Shapes, status: DefectStatus, occurrence_count: Nat, seen: Nat]
JourneyRun == [journey: Journeys, adversarial: BOOLEAN, passed: BOOLEAN]
NoRequest == [kind |-> "none", entry |-> 0, count |-> 0, status |-> "OPEN"]

DefectTypeOK ==
    /\ entries \in Seq(Entry)
    /\ runs \in Seq(JourneyRun)
    /\ request \in [Clients -> [kind: {"none", "occurrence", "update"},
                                entry: 0 .. Len(entries), count: Nat,
                                status: DefectStatus]]
    /\ \A c \in Clients : request[c].kind # "none" => request[c].entry # 0
    /\ served \in 0 .. MaxServed

DefectInit ==
    /\ entries = <<>>
    /\ runs = <<>>
    /\ request = [c \in Clients |-> NoRequest]
    /\ served = 0

Serve == served < MaxServed /\ served' = served + 1

\* POST /defect-log: the shape is not unique.
create_defect(shape) ==
    /\ Serve
    /\ entries' = Append(entries, [shape |-> shape, status |-> "OPEN",
                                   occurrence_count |-> 1, seen |-> 1])
    /\ UNCHANGED <<runs, request>>

\* Mutant for TypeOK: a shape without a row is not refused.
get_by_shape_key_unchecked(c, shape) ==
    /\ request[c] = NoRequest
    /\ Serve
    /\ \E e \in 0 .. Len(entries) :
          /\ e = 0 <=> shape \notin {entries[x].shape : x \in DOMAIN entries}
          /\ e # 0 => entries[e].shape = shape
          /\ request' = [request EXCEPT ![c].kind = "occurrence", ![c].entry = e]
    /\ UNCHANGED <<entries, runs>>

\* POST .../occurrences: get_by_shape_key takes any row of the shape, and raises if
\* there is none.
get_by_shape_key(c, shape) ==
    /\ request[c] = NoRequest
    /\ Serve
    /\ \E e \in DOMAIN entries :
          /\ entries[e].shape = shape
          /\ request' = [request EXCEPT ![c] =
                [NoRequest EXCEPT !.kind = "occurrence", !.entry = e,
                                  !.count = entries[e].occurrence_count]]
    /\ UNCHANGED <<entries, runs>>

record_occurrence(c) ==
    /\ request[c].kind = "occurrence"
    /\ entries' = [entries EXCEPT
          ![request[c].entry].occurrence_count = request[c].count + 1,
          ![request[c].entry].seen = @ + 1]
    /\ request' = [request EXCEPT ![c] = NoRequest]
    /\ UNCHANGED <<runs, served>>

\* PATCH: the schema has no occurrence_count, so of these columns a status is all it
\* can change, and setting the status it loaded writes nothing.
valid_defect_log_entry(c, e) ==
    /\ request[c] = NoRequest
    /\ Serve
    /\ request' = [request EXCEPT ![c] =
          [NoRequest EXCEPT !.kind = "update", !.entry = e, !.status = entries[e].status]]
    /\ UNCHANGED <<entries, runs>>

update_status(c, status) ==
    /\ request[c].kind = "update"
    /\ entries' = IF status = request[c].status THEN entries
                  ELSE [entries EXCEPT ![request[c].entry].status = status]
    /\ request' = [request EXCEPT ![c] = NoRequest]
    /\ UNCHANGED <<runs, served>>

record_journey_run(run) ==
    /\ Serve
    /\ runs' = Append(runs, run)
    /\ UNCHANGED <<entries, request>>

DefectNext ==
    \/ \E shape \in Shapes :
          \/ create_defect(shape)
          \/ \E c \in Clients : get_by_shape_key(c, shape)
    \/ \E c \in Clients :
          \/ record_occurrence(c)
          \/ \E e \in DOMAIN entries : valid_defect_log_entry(c, e)
          \/ \E status \in Statuses : update_status(c, status)
    \/ \E run \in JourneyRun : record_journey_run(run)

DefectSpec == DefectInit /\ [][DefectNext]_defectVars

-----------------------------------------------------------------------------
\* Mutant for GovernanceIsHonest: one strike too late.
compilation_required_late(e) == e.occurrence_count > 2 /\ e.status # "COMPILED"

compilation_required(e) == e.occurrence_count >= 2 /\ e.status # "COMPILED"

\* list_journey_runs(latest_only): newest first, and the first cooperative run of a
\* journey stays.
Keep(kept, run) ==
    IF run.adversarial \/ run.journey \in DOMAIN kept THEN kept
    ELSE [j \in DOMAIN kept \union {run.journey} |->
             IF j = run.journey THEN run ELSE kept[j]]

\* What is kept after so many of the runs.
Kept ==
    LET kept[n \in 0 .. Len(runs)] ==
            IF n = 0 THEN <<>> ELSE Keep(kept[n - 1], runs[Len(runs) - n + 1])
    IN  kept

latest_by_journey == Kept[Len(runs)]

governance_summary ==
    LET latest == latest_by_journey
    IN  [total_defects |-> Len(entries),
         open_defects |-> Cardinality({x \in DOMAIN entries : entries[x].status = "OPEN"}),
         compilation_required_count |->
             Cardinality({x \in DOMAIN entries : compilation_required(entries[x])}),
         journeys_passing |-> Cardinality({j \in DOMAIN latest : latest[j].passed})]

\* Two requests may read one count and write one increment.  Still a defect whose
\* second occurrence was recorded blocks the gate until it is compiled, no row claims
\* more occurrences than were recorded, and what the gate counts is what it blocks.
SecondStrikeBlocks ==
    /\ \A e \in Range(entries) :
          /\ e.occurrence_count <= e.seen
          /\ e.seen >= 2 /\ e.status # "COMPILED" => compilation_required(e)
    /\ (governance_summary.compilation_required_count = 0) =
          (\A e \in Range(entries) : e.status = "COMPILED" \/ e.seen < 2)

\* A journey counts as passing if its last cooperative run passed, whatever
\* adversarial runs came since.
LatestRunsDecide ==
    governance_summary.journeys_passing = Cardinality(
        {j \in Journeys : \E n \in DOMAIN runs :
            /\ runs[n] = [journey |-> j, adversarial |-> FALSE, passed |-> TRUE]
            /\ \A m \in n + 1 .. Len(runs) : runs[m].journey = j => runs[m].adversarial})

\* What the governance page shows is what the log and the runs bear out, though counts
\* are read, incremented and written back without a lock.
GovernanceIsHonest == SecondStrikeBlocks /\ LatestRunsDecide
=============================================================================
