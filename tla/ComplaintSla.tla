---------------------------- MODULE ComplaintSla ----------------------------
(***************************************************************************)
(* backend/src/complaints: one complaint made by POST /complaints, which a *)
(* client may repeat, and the monitors that watch its deadlines.  Time     *)
(* counts from the complaint's creation, when both deadlines are frozen.   *)
(* (A complaint made during a call has one monitor, started as its child;  *)
(* it behaves like the first of these.)                                    *)
(*                                                                         *)
(* A complaint moves on outside this code, which only reads its status.    *)
(* An activity's commit may lose its reply, and is then repeated; a        *)
(* create_action that dies between its claim and its commit leaves the     *)
(* claim PENDING, and every retry of it raises (Idempotency).              *)
(***************************************************************************)
EXTENDS Naturals, Sequences, FiniteSets

CONSTANTS
    DueIn,          \* [ACKNOWLEDGMENT, RESOLUTION]: when each deadline is due
    WarningTime,    \* SLA_WARNING_HOURS
    MaxRequests,    \* bound: POSTs for the complaint
    MaxFaults       \* bound: lost replies and crashes

Deadlines == {"ACKNOWLEDGMENT", "RESOLUTION"}
ASSUME SlaAssumption ==
    /\ DueIn \in [Deadlines -> Nat]
    /\ WarningTime \in Nat
    /\ \A d \in Deadlines : WarningTime <= DueIn[d]
    /\ MaxRequests \in Nat \ {0}
    /\ MaxFaults \in Nat

VARIABLES
    complaint,  \* its status; cleared: when each deadline was (a ghost)
    requests,   \* where each POST is
    monitors,   \* every monitor started, in order
    sla,        \* per step: events, actions, and the claim on the action's key
    clock,
    faults      \* faults so far

slaVars == <<complaint, requests, monitors, sla, clock, faults>>

\* The steps of a monitor.
Steps == <<[deadline |-> "ACKNOWLEDGMENT", event |-> "AT_RISK"],
           [deadline |-> "ACKNOWLEDGMENT", event |-> "BREACHED"],
           [deadline |-> "RESOLUTION", event |-> "AT_RISK"],
           [deadline |-> "RESOLUTION", event |-> "BREACHED"]>>
StepNumbers == DOMAIN Steps
target_at(s) ==
    DueIn[Steps[s].deadline] - (IF Steps[s].event = "AT_RISK" THEN WarningTime ELSE 0)

Horizon == target_at(4) + 1
Never == Horizon + 1

SlaTypeOK ==
    /\ complaint \in [status: {"ABSENT", "OPEN", "ACKNOWLEDGED", "RESOLVED"},
                      cleared: [Deadlines -> 0 .. Never]]
    /\ requests \in [1 .. MaxRequests -> {"new", "created", "replied", "failed"}]
    /\ monitors \in Seq([step: 1 .. 5, at: {"sleep", "check", "raise", "act", "done"}])
    /\ Len(monitors) <= MaxRequests
    /\ sla \in [StepNumbers -> [events: Nat, actions: Nat,
                                claim: {"NONE", "PENDING", "COMPLETED"}]]
    /\ clock \in 0 .. Horizon
    /\ faults \in 0 .. MaxFaults

SlaInit ==
    /\ complaint = [status |-> "ABSENT", cleared |-> [d \in Deadlines |-> Never]]
    /\ requests = [r \in 1 .. MaxRequests |-> "new"]
    /\ monitors = <<>>
    /\ sla = [s \in StepNumbers |-> [events |-> 0, actions |-> 0, claim |-> "NONE"]]
    /\ clock = 0
    /\ faults = 0

Fault == faults < MaxFaults /\ faults' = faults + 1

-----------------------------------------------------------------------------
\* POST /complaints: the idempotent insert, or its replay.
create_complaint(r) ==
    /\ requests[r] = "new"
    /\ requests' = [requests EXCEPT ![r] = "created"]
    /\ complaint' = IF complaint.status = "ABSENT" THEN [complaint EXCEPT !.status = "OPEN"]
                    ELSE complaint
    /\ UNCHANGED <<monitors, sla, clock, faults>>

\* The workflow id complaint-sla-{id} is free once its monitor has closed.
start_workflow(r) ==
    /\ requests[r] = "created"
    /\ IF \E i \in DOMAIN monitors : monitors[i].at # "done"
       THEN requests' = [requests EXCEPT ![r] = "failed"] /\ UNCHANGED monitors
       ELSE /\ requests' = [requests EXCEPT ![r] = "replied"]
            /\ monitors' = Append(monitors, [step |-> 1, at |-> "sleep"])
    /\ UNCHANGED <<complaint, sla, clock, faults>>

CrashRequest(r) ==
    /\ requests[r] = "created"
    /\ Fault
    /\ requests' = [requests EXCEPT ![r] = "failed"]
    /\ UNCHANGED <<complaint, monitors, sla, clock>>

-----------------------------------------------------------------------------
\* _wait_and_check
At(i, place) == i \in DOMAIN monitors /\ monitors[i].at = place
MoveTo(i, place) == monitors' = [monitors EXCEPT ![i].at = place]
NextStep(i) ==
    monitors' = [monitors EXCEPT ![i] =
        [step |-> @.step + 1, at |-> IF @.step = Len(Steps) THEN "done" ELSE "sleep"]]

\* Mutant for MonitorEnds: only at the moment itself.
WakeOnTime(i) ==
    /\ At(i, "sleep")
    /\ clock = target_at(monitors[i].step)
    /\ MoveTo(i, "check")
    /\ UNCHANGED <<complaint, requests, sla, clock, faults>>

\* The durable sleep, none if the target is past.
Wake(i) ==
    /\ At(i, "sleep")
    /\ clock >= target_at(monitors[i].step)
    /\ MoveTo(i, "check")
    /\ UNCHANGED <<complaint, requests, sla, clock, faults>>

\* Mutant for AlarmsMatchDeadlines: an acknowledgment clears both.
ClearedByAny(deadline) == complaint.status # "OPEN"

is_deadline_cleared(deadline) ==
    CASE deadline = "ACKNOWLEDGMENT" -> complaint.status # "OPEN"
      [] deadline = "RESOLUTION" -> complaint.status = "RESOLVED"

Check(i) ==
    /\ At(i, "check")
    /\ IF is_deadline_cleared(Steps[monitors[i].step].deadline)
       THEN NextStep(i) ELSE MoveTo(i, "raise")
    /\ UNCHANGED <<complaint, requests, sla, clock, faults>>

\* An insert without a key: a lost reply inserts the event again.
raise_complaint_sla_event(i) ==
    /\ At(i, "raise")
    /\ sla' = [sla EXCEPT ![monitors[i].step].events = @ + 1]
    /\ \/ MoveTo(i, "act") /\ UNCHANGED faults
       \/ Fault /\ UNCHANGED monitors
    /\ UNCHANGED <<complaint, requests, clock>>

\* Mutant for OneEscalationPerDeadline: the action without its key.
create_action_unkeyed(i) ==
    /\ At(i, "act")
    /\ sla' = [sla EXCEPT ![monitors[i].step].actions = @ + 1]
    /\ \/ NextStep(i) /\ UNCHANGED faults
       \/ Fault /\ UNCHANGED monitors
    /\ UNCHANGED <<complaint, requests, clock>>

\* The key names complaint, deadline and event, and no monitor.
create_action(i) ==
    /\ At(i, "act")
    /\ LET s == monitors[i].step
       IN  /\ sla[s].claim # "PENDING"
           /\ sla' = IF sla[s].claim = "COMPLETED" THEN sla
                     ELSE [sla EXCEPT ![s].actions = @ + 1, ![s].claim = "COMPLETED"]
    /\ \/ NextStep(i) /\ UNCHANGED faults
       \/ Fault /\ UNCHANGED monitors
    /\ UNCHANGED <<complaint, requests, clock>>

AbandonAction(i) ==
    /\ At(i, "act")
    /\ sla[monitors[i].step].claim = "NONE"
    /\ Fault
    /\ sla' = [sla EXCEPT ![monitors[i].step].claim = "PENDING"]
    /\ UNCHANGED <<complaint, requests, monitors, clock>>

-----------------------------------------------------------------------------
\* Somebody acknowledges or resolves the complaint.
Clear(status, deadlines) ==
    complaint' = [status |-> status,
                  cleared |-> [d \in Deadlines |->
                      IF d \in deadlines /\ complaint.cleared[d] = Never
                      THEN clock ELSE complaint.cleared[d]]]
Acknowledge ==
    /\ complaint.status = "OPEN"
    /\ Clear("ACKNOWLEDGED", {"ACKNOWLEDGMENT"})
    /\ UNCHANGED <<requests, monitors, sla, clock, faults>>
Resolve ==
    /\ complaint.status \in {"OPEN", "ACKNOWLEDGED"}
    /\ Clear("RESOLVED", Deadlines)
    /\ UNCHANGED <<requests, monitors, sla, clock, faults>>

\* Monitors sleep through any amount of it.
Tick ==
    /\ complaint.status # "ABSENT"
    /\ clock < Horizon
    /\ clock' = clock + 1
    /\ UNCHANGED <<complaint, requests, monitors, sla, faults>>

MonitorStep(i) ==
    Wake(i) \/ Check(i) \/ raise_complaint_sla_event(i) \/ create_action(i)

SlaNext ==
    \/ \E r \in 1 .. MaxRequests : create_complaint(r) \/ start_workflow(r) \/ CrashRequest(r)
    \/ \E i \in 1 .. MaxRequests : MonitorStep(i) \/ AbandonAction(i)
    \/ Acknowledge \/ Resolve \/ Tick

SlaSpec == SlaInit /\ [][SlaNext]_slaVars

-----------------------------------------------------------------------------
\* Whatever replies are lost, and if a repeated POST starts a second monitor over the
\* same deadlines: staff get at most one COMPLAINT_SLA_ESCALATION per deadline and event.
OneEscalationPerDeadline == \A s \in StepNumbers : sla[s].actions <= 1

\* The status is read before the alarm is raised, and may change in between.  Still no
\* alarm is false (the deadline was open when its time came) or without its event;
\* no deadline a monitor has passed and nobody cleared is without its alarm; and no
\* breach is reported without the warning before it.
AlarmsMatchDeadlines ==
    /\ \A s \in StepNumbers : sla[s].actions > 0 =>
          sla[s].events > 0 /\ complaint.cleared[Steps[s].deadline] >= target_at(s)
    /\ \A i \in DOMAIN monitors : \A s \in 1 .. monitors[i].step - 1 :
          complaint.cleared[Steps[s].deadline] = Never => sla[s].actions > 0
    /\ \A s \in StepNumbers : Steps[s].event = "BREACHED" /\ sla[s].events > 0 =>
          sla[s - 1].actions > 0

\* A monitor goes through all its deadlines, however late its worker is, unless an
\* abandoned claim makes one of its actions fail for ever.
Stuck(i) == At(i, "act") /\ sla[monitors[i].step].claim = "PENDING"
MonitorEnds ==
    \A i \in 1 .. MaxRequests : At(i, "sleep") ~> At(i, "done") \/ Stuck(i)

SlaFairness ==
    /\ WF_slaVars(Tick)
    /\ \A i \in 1 .. MaxRequests : WF_slaVars(MonitorStep(i))
=============================================================================
