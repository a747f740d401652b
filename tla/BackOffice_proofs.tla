-------------------------- MODULE BackOffice_proofs --------------------------
(***************************************************************************)
(* Proofs about the desks of the BackOffice: the monitors of a complaint,  *)
(* the limits of the one-time passwords, the defect log with its two-strike*)
(* gate and its figures, and the figures of the reports; then of all its   *)
(* desks together, with the redaction of Redaction_proofs.                 *)
(*                                                                         *)
(* The monitors' invariant says what one of them relies on (Watching),     *)
(* what is on file of one step (Filed), and when a deadline was cleared    *)
(* (Cleared), of the values they relate, so that a step is one lemma for   *)
(* each.                                                                   *)
(***************************************************************************)
EXTENDS BackOffice, Redaction_proofs

---------------------------------------------------------------------------
(* Complaints: the types, the key that makes an escalation unique whoever  *)
(* raises it, and the alarms that match the deadlines, for every deadline, *)
(* warning time, number of repeated requests, lost reply and crash.        *)

Complaints == [status: {"ABSENT", "OPEN", "ACKNOWLEDGED", "RESOLVED"},
               cleared: [Deadlines -> 0 .. Never]]
Monitors == [step: 1 .. 5, at: {"sleep", "check", "raise", "act", "done"}]
Files == [StepNumbers -> [events: Nat, actions: Nat,
                          claim: {"NONE", "PENDING", "COMPLETED"}]]

\* A deadline has a time of clearing from when the status says it is cleared.
Cleared(c, t) ==
    /\ c.cleared["ACKNOWLEDGMENT"] = Never <=> c.status \in {"ABSENT", "OPEN"}
    /\ c.cleared["RESOLUTION"] = Never <=> c.status # "RESOLVED"
    /\ \A d \in Deadlines : c.cleared[d] # Never => c.cleared[d] <= t

\* The time of step s has come, and its deadline was open then.
Due(s, c, t) == t >= target_at(s) /\ c.cleared[Steps[s].deadline] >= target_at(s)

Warned(s, f) == Steps[s].event = "BREACHED" => f[s - 1].actions = 1

\* What is on file of a step.
Filed(s, c, f, t) ==
    /\ f[s].actions = IF f[s].claim = "COMPLETED" THEN 1 ELSE 0
    /\ f[s].actions > 0 => f[s].events > 0
    /\ f[s].events > 0 => Due(s, c, t) /\ Warned(s, f)

\* What a monitor has seen to.
Watching(m, c, f, t) ==
    /\ m.at = "done" <=> m.step = 5
    /\ m.at \in {"check", "raise", "act"} => t >= target_at(m.step)
    /\ m.at \in {"raise", "act"} => Due(m.step, c, t) /\ Warned(m.step, f)
    /\ m.at = "act" => f[m.step].events > 0
    /\ \A s \in 1 .. m.step - 1 :
          c.cleared[Steps[s].deadline] = Never => f[s].actions = 1

\* The requests that started a monitor.
Starters == {r \in 1 .. MaxRequests : requests[r] = "replied"}

SlaIInv ==
    /\ SlaTypeOK
    /\ Cleared(complaint, clock)
    /\ complaint.status = "ABSENT" => \A r \in 1 .. MaxRequests : requests[r] = "new"
    /\ Len(monitors) = Cardinality(Starters)
    /\ \A s \in StepNumbers : Filed(s, complaint, sla, clock)
    /\ \A i \in DOMAIN monitors : Watching(monitors[i], complaint, sla, clock)

\* What is relied on stays as it is while time passes, deadlines are cleared at
\* the time it is, and rows are added.
Onward(c, f, t, c2, f2, t2) ==
    /\ t <= t2
    /\ \A d \in Deadlines :
          \/ c2.cleared[d] = c.cleared[d]
          \/ c.cleared[d] = Never /\ c2.cleared[d] = t /\ t # Never
    /\ \A s \in StepNumbers :
          /\ f[s].actions = 1 => f2[s].actions = 1
          /\ f[s].events > 0 => f2[s].events > 0

---------------------------------------------------------------------------
(* The steps and their times.                                              *)

LEMMA StepFacts ==
    /\ StepNumbers = 1 .. 4 /\ Len(Steps) = 4
    /\ \A s \in StepNumbers :
          /\ Steps[s].deadline \in Deadlines
          /\ Steps[s].event = "BREACHED" => s \in {2, 4}
                                          /\ Steps[s - 1].deadline = Steps[s].deadline
BY DEF StepNumbers, Steps, Deadlines

LEMMA Times ==
    /\ Horizon \in Nat /\ Never \in Nat /\ Horizon < Never
    /\ \A s \in StepNumbers : target_at(s) \in Nat
<1>1. /\ \A d \in Deadlines : DueIn[d] \in Nat /\ DueIn[d] - WarningTime \in Nat
      /\ WarningTime \in Nat
  BY SlaAssumption
<1>2. \A s \in StepNumbers : target_at(s) \in Nat
  BY <1>1, StepFacts DEF target_at
<1>3. target_at(4) \in Nat
  BY <1>2, StepFacts
<1>4. QED
  BY <1>2, <1>3 DEF Horizon, Never

LEMMA DueKeeps ==
    ASSUME NEW c \in Complaints, NEW c2 \in Complaints, NEW f, NEW f2,
           NEW t \in Nat, NEW t2 \in Nat,
           Onward(c, f, t, c2, f2, t2), NEW s \in StepNumbers, Due(s, c, t)
    PROVE  Due(s, c2, t2)
<1>1. Steps[s].deadline \in Deadlines /\ target_at(s) \in Nat
  BY StepFacts, Times
<1>2. c.cleared[Steps[s].deadline] \in Nat /\ c2.cleared[Steps[s].deadline] \in Nat
  BY <1>1, Times DEF Complaints
<1>3. QED
  BY <1>1, <1>2 DEF Due, Onward

LEMMA WatchingKeeps ==
    ASSUME NEW c \in Complaints, NEW c2 \in Complaints, NEW f \in Files, NEW f2 \in Files,
           NEW t \in Nat, NEW t2 \in Nat, NEW m \in Monitors,
           Onward(c, f, t, c2, f2, t2), Watching(m, c, f, t)
    PROVE  Watching(m, c2, f2, t2)
<1>1. m.step \in 1 .. 5 /\ (m.at # "done" => m.step \in StepNumbers)
  BY StepFacts DEF Watching, Monitors
<1>2. m.at # "done" => target_at(m.step) \in Nat
  BY <1>1, Times
<1>3. m.at \in {"check", "raise", "act"} => t2 >= target_at(m.step)
  BY <1>2 DEF Watching, Onward
<1>4. m.at \in {"raise", "act"} => Due(m.step, c2, t2)
  BY <1>1, DueKeeps DEF Watching
<1>5. m.at \in {"raise", "act"} => Warned(m.step, f2)
  <2>1. m.at \in {"raise", "act"} /\ Steps[m.step].event = "BREACHED" =>
          m.step - 1 \in StepNumbers /\ f[m.step - 1].actions = 1
    BY <1>1, StepFacts DEF Watching, Warned
  <2>2. QED
    BY <2>1 DEF Warned, Onward
<1>6. m.at = "act" => f2[m.step].events > 0
  BY <1>1 DEF Watching, Onward
<1>7. ASSUME NEW s \in 1 .. m.step - 1, c2.cleared[Steps[s].deadline] = Never
      PROVE  f2[s].actions = 1
  <2>1. s \in StepNumbers /\ Steps[s].deadline \in Deadlines
    BY <1>1, StepFacts
  <2>2. c.cleared[Steps[s].deadline] = Never
    BY <2>1, <1>7 DEF Onward
  <2>3. QED
    BY <2>1, <2>2 DEF Watching, Onward
<1>8. QED
  BY <1>3, <1>4, <1>5, <1>6, <1>7 DEF Watching

\* While the rows stay as they are.
LEMMA FiledKeeps ==
    ASSUME NEW c \in Complaints, NEW c2 \in Complaints, NEW f \in Files,
           NEW t \in Nat, NEW t2 \in Nat,
           Onward(c, f, t, c2, f, t2), NEW s \in StepNumbers, Filed(s, c, f, t)
    PROVE  Filed(s, c2, f, t2)
BY DueKeeps DEF Filed

---------------------------------------------------------------------------
(* The steps, by what they change.                                         *)

LEMMA SlaTypes ==
    ASSUME SlaIInv
    PROVE  /\ complaint \in Complaints /\ sla \in Files /\ clock \in Nat
           /\ monitors \in Seq(Monitors)
           /\ \A i \in DOMAIN monitors : monitors[i] \in Monitors
           /\ \A i \in DOMAIN monitors : monitors[i].at # "done" => monitors[i].step \in StepNumbers
<1>1. /\ complaint \in Complaints /\ sla \in Files /\ clock \in Nat
      /\ monitors \in Seq(Monitors)
  BY Times DEF SlaIInv, SlaTypeOK, Complaints, Files, Monitors
<1>2. \A i \in DOMAIN monitors : monitors[i] \in Monitors
  BY <1>1
<1>3. \A i \in DOMAIN monitors : Watching(monitors[i], complaint, sla, clock)
  BY DEF SlaIInv
<1>4. QED
  BY <1>1, <1>2, <1>3, StepFacts DEF Watching, Monitors

\* The requests and monitors stay, and nothing is taken back.
LEMMA OnwardKeeps ==
    ASSUME SlaIInv, SlaTypeOK', UNCHANGED <<requests, monitors>>,
           complaint' \in Complaints,
           complaint'.status = "ABSENT" <=> complaint.status = "ABSENT",
           Onward(complaint, sla, clock, complaint', sla', clock'),
           Cleared(complaint', clock'), UNCHANGED sla, clock' \in Nat
    PROVE  SlaIInv'
<1>1. \A s \in StepNumbers : Filed(s, complaint', sla', clock')
  BY SlaTypes, FiledKeeps DEF SlaIInv
<1>2. \A i \in DOMAIN monitors' : Watching(monitors'[i], complaint', sla', clock')
  BY SlaTypes, WatchingKeeps DEF SlaIInv
<1>3. Len(monitors') = Cardinality(Starters')
  BY DEF SlaIInv, Starters
<1>4. QED
  BY <1>1, <1>2, <1>3 DEF SlaIInv

\* One monitor changes, and rows are added that no other relies on.
LEMMA MonitorKeeps ==
    ASSUME SlaIInv, UNCHANGED <<complaint, requests, clock>>,
           NEW i \in DOMAIN monitors, NEW m \in Monitors,
           monitors' = [monitors EXCEPT ![i] = m],
           faults' \in 0 .. MaxFaults, sla' \in Files,
           Onward(complaint, sla, clock, complaint, sla', clock),
           \A s \in StepNumbers : Filed(s, complaint, sla', clock),
           Watching(m, complaint, sla', clock)
    PROVE  SlaIInv'
<1>1. /\ monitors' \in Seq(Monitors) /\ Len(monitors') = Len(monitors)
      /\ DOMAIN monitors' = DOMAIN monitors
      /\ \A j \in DOMAIN monitors : monitors'[j] = IF j = i THEN m ELSE monitors[j]
  BY SlaTypes, ExceptSeq
<1>2. SlaTypeOK'
  BY <1>1 DEF SlaIInv, SlaTypeOK, Monitors, Files
<1>3. \A j \in DOMAIN monitors' : Watching(monitors'[j], complaint', sla', clock')
  <2>1. \A j \in DOMAIN monitors : Watching(monitors[j], complaint, sla', clock)
    BY SlaTypes, WatchingKeeps DEF SlaIInv
  <2>2. QED
    BY <1>1, <2>1
<1>4. Len(monitors') = Cardinality(Starters')
  BY <1>1 DEF SlaIInv, Starters
<1>5. QED
  BY <1>2, <1>3, <1>4 DEF SlaIInv

LEMMA InitStep == SlaInit => SlaIInv
<1> SUFFICES ASSUME SlaInit PROVE SlaIInv
  OBVIOUS
<1>1. Starters = {} /\ monitors = <<>> /\ Len(monitors) = 0 /\ DOMAIN monitors = {}
  BY DEF SlaInit, Starters
<1>2. SlaTypeOK
  BY <1>1, Times, SlaAssumption DEF SlaInit, SlaTypeOK
<1>3. Cleared(complaint, clock)
  BY DEF SlaInit, Cleared, Deadlines
<1>4. \A s \in StepNumbers : Filed(s, complaint, sla, clock)
  BY DEF SlaInit, Filed
<1>5. Len(monitors) = Cardinality(Starters)
  BY <1>1, FS_EmptySet
<1>6. QED
  BY <1>1, <1>2, <1>3, <1>4, <1>5 DEF SlaIInv, SlaInit

LEMMA StartersAreFew ==
    ASSUME requests \in [1 .. MaxRequests -> {"new", "created", "replied", "failed"}]
    PROVE  /\ IsFiniteSet(Starters) /\ Cardinality(Starters) <= MaxRequests
           /\ Cardinality(Starters) \in Nat
<1>1. /\ IsFiniteSet(1 .. MaxRequests) /\ Cardinality(1 .. MaxRequests) = MaxRequests
      /\ MaxRequests \in Nat
  BY FS_Interval, SlaAssumption
<1>2. Starters \subseteq 1 .. MaxRequests
  BY DEF Starters
<1>3. /\ IsFiniteSet(Starters)
      /\ Cardinality(Starters) <= Cardinality(1 .. MaxRequests)
  BY <1>1, <1>2, FS_Subset
<1>4. Cardinality(Starters) \in Nat
  BY <1>3, FS_CardinalityType
<1>5. QED
  BY <1>1, <1>3, <1>4

LEMMA CreateStep ==
    ASSUME SlaIInv, NEW r \in 1 .. MaxRequests, create_complaint(r)
    PROVE  SlaIInv'
<1>1. /\ complaint' \in Complaints /\ complaint'.status # "ABSENT"
      /\ complaint'.cleared = complaint.cleared
  BY SlaTypes DEF create_complaint, Complaints
<1>2. requests' \in [1 .. MaxRequests -> {"new", "created", "replied", "failed"}]
  BY DEF create_complaint, SlaIInv, SlaTypeOK
<1>3. SlaTypeOK'
  BY <1>1, <1>2 DEF create_complaint, SlaIInv, SlaTypeOK, Complaints
<1>4. Cleared(complaint', clock')
  BY SlaTypes, <1>1 DEF create_complaint, SlaIInv, Cleared, Complaints
<1>5. Onward(complaint, sla, clock, complaint', sla', clock')
  BY SlaTypes, <1>1 DEF create_complaint, Onward
<1>6. Starters' = Starters
  BY DEF create_complaint, SlaIInv, SlaTypeOK, Starters
<1>7. UNCHANGED <<monitors, sla, clock>>
  BY DEF create_complaint
<1>8. \A s \in StepNumbers : Filed(s, complaint', sla', clock')
  BY SlaTypes, FiledKeeps, <1>1, <1>5, <1>7 DEF SlaIInv
<1>9. \A i \in DOMAIN monitors' : Watching(monitors'[i], complaint', sla', clock')
  BY SlaTypes, WatchingKeeps, <1>1, <1>5, <1>7 DEF SlaIInv
<1>10. QED
  BY <1>1, <1>3, <1>4, <1>6, <1>7, <1>8, <1>9 DEF SlaIInv

\* A first monitor starts at the first step, with nothing seen to.
LEMMA StartStep ==
    ASSUME SlaIInv, NEW r \in 1 .. MaxRequests, start_workflow(r)
    PROVE  SlaIInv'
<1> DEFINE first == [step |-> 1, at |-> "sleep"]
<1>1. /\ requests' \in [1 .. MaxRequests -> {"new", "created", "replied", "failed"}]
      /\ complaint.status # "ABSENT"
      /\ UNCHANGED <<complaint, sla, clock, faults>>
  BY DEF start_workflow, SlaIInv, SlaTypeOK
<1>2. CASE UNCHANGED monitors /\ requests' = [requests EXCEPT ![r] = "failed"]
  <2>1. Starters' = Starters
    BY <1>2 DEF start_workflow, SlaIInv, SlaTypeOK, Starters
  <2>2. SlaTypeOK'
    BY <1>1, <1>2 DEF SlaIInv, SlaTypeOK
  <2>3. QED
    BY <1>1, <1>2, <2>1, <2>2 DEF SlaIInv
<1>3. CASE monitors' = Append(monitors, first) /\ requests' = [requests EXCEPT ![r] = "replied"]
  <2>1. Starters' = Starters \union {r} /\ r \notin Starters
    BY <1>3 DEF start_workflow, SlaIInv, SlaTypeOK, Starters
  <2>2. Cardinality(Starters') = Cardinality(Starters) + 1
    BY <2>1, StartersAreFew, FS_AddElement DEF SlaIInv, SlaTypeOK
  <2>3. Cardinality(Starters') <= MaxRequests
    <3>1. Starters' \subseteq 1 .. MaxRequests
      BY DEF Starters
    <3>2. /\ IsFiniteSet(1 .. MaxRequests) /\ Cardinality(1 .. MaxRequests) = MaxRequests
      BY FS_Interval, SlaAssumption
    <3>3. Cardinality(Starters') <= Cardinality(1 .. MaxRequests)
      BY <3>1, <3>2, FS_Subset
    <3>4. QED
      BY <3>2, <3>3
  <2>4. first \in Monitors
    BY DEF Monitors
  <2>5. /\ monitors' \in Seq(Monitors) /\ Len(monitors') = Len(monitors) + 1
        /\ \A i \in 1 .. Len(monitors) : monitors'[i] = monitors[i]
        /\ monitors'[Len(monitors) + 1] = first
    BY <1>3, <2>4, SlaTypes, AppendProperties
  <2>6. Len(monitors') = Cardinality(Starters')
    BY <2>2, <2>5 DEF SlaIInv
  <2>7. SlaTypeOK'
    BY <1>1, <2>3, <2>5, <2>6 DEF SlaIInv, SlaTypeOK, Monitors
  <2>8. Watching(first, complaint, sla, clock)
    BY DEF Watching
  <2>9. \A i \in DOMAIN monitors' : Watching(monitors'[i], complaint', sla', clock')
    <3>1. DOMAIN monitors = 1 .. Len(monitors) /\ DOMAIN monitors' = 1 .. Len(monitors) + 1
          /\ Len(monitors) \in Nat
      BY SlaTypes, <2>5, LenProperties
    <3>2. \A i \in DOMAIN monitors' : i \in DOMAIN monitors \/ i = Len(monitors) + 1
      BY <3>1
    <3>3. QED
      BY <1>1, <2>5, <2>8, <3>1, <3>2 DEF SlaIInv
  <2>10. QED
    BY <1>1, <1>3, <2>6, <2>7, <2>9 DEF SlaIInv
<1>4. QED
  BY <1>2, <1>3 DEF start_workflow

LEMMA CrashStep ==
    ASSUME SlaIInv, NEW r \in 1 .. MaxRequests, CrashRequest(r)
    PROVE  SlaIInv'
<1>1. /\ requests' \in [1 .. MaxRequests -> {"new", "created", "replied", "failed"}]
      /\ complaint.status # "ABSENT"
      /\ UNCHANGED <<complaint, monitors, sla, clock>>
  BY DEF CrashRequest, SlaIInv, SlaTypeOK
<1>2. Starters' = Starters
  BY DEF CrashRequest, SlaIInv, SlaTypeOK, Starters
<1>3. SlaTypeOK'
  BY <1>1, SlaAssumption DEF CrashRequest, Fault, SlaIInv, SlaTypeOK
<1>4. QED
  BY <1>1, <1>2, <1>3 DEF SlaIInv

\* No row is added.
LEMMA SameRows ==
    ASSUME SlaIInv, UNCHANGED sla
    PROVE  /\ sla' \in Files /\ Onward(complaint, sla, clock, complaint, sla', clock)
           /\ \A s \in StepNumbers : Filed(s, complaint, sla', clock)
BY SlaTypes DEF SlaIInv, Onward

LEMMA WakeStep ==
    ASSUME SlaIInv, NEW i, Wake(i)
    PROVE  SlaIInv'
<1> DEFINE m == [monitors[i] EXCEPT !.at = "check"]
<1>1. /\ i \in DOMAIN monitors /\ monitors[i] \in Monitors
      /\ Watching(monitors[i], complaint, sla, clock)
  BY SlaTypes DEF Wake, At, SlaIInv
<1>2. m \in Monitors /\ m.at = "check" /\ m.step = monitors[i].step
  BY <1>1 DEF Monitors
<1>3. Watching(m, complaint, sla, clock)
  BY <1>1, <1>2 DEF Watching, Wake, At
<1>4. monitors' = [monitors EXCEPT ![i] = m] /\ UNCHANGED <<complaint, requests, sla, clock, faults>>
  BY DEF Wake, MoveTo
<1>5. QED
  BY <1>1, <1>2, <1>3, <1>4, SameRows, MonitorKeeps DEF SlaIInv, SlaTypeOK

\* What the monitor has once it is past a step that is cleared or escalated.
Onto(m) == [step |-> m.step + 1, at |-> IF m.step = Len(Steps) THEN "done" ELSE "sleep"]

LEMMA PassesOn ==
    ASSUME NEW m \in Monitors, NEW c \in Complaints, NEW f \in Files, NEW t \in Nat,
           Watching(m, c, f, t), m.at # "done",
           c.cleared[Steps[m.step].deadline] = Never => f[m.step].actions = 1
    PROVE  Onto(m) \in Monitors /\ Watching(Onto(m), c, f, t)
<1>1. m.step \in 1 .. 4 /\ Len(Steps) = 4
  BY StepFacts DEF Watching, Monitors
<1>2. /\ Onto(m) \in Monitors /\ Onto(m).step = m.step + 1
      /\ Onto(m).at \in {"sleep", "done"}
      /\ Onto(m).at = "done" <=> m.step = 4
  BY <1>1 DEF Onto, Monitors
<1>3. ASSUME NEW s \in 1 .. Onto(m).step - 1, c.cleared[Steps[s].deadline] = Never
      PROVE  f[s].actions = 1
  <2>1. s = m.step \/ s \in 1 .. m.step - 1
    BY <1>1, <1>2
  <2>2. QED
    BY <1>3, <2>1 DEF Watching
<1>4. QED
  BY <1>1, <1>2, <1>3 DEF Watching

\* A deadline found open was open when its time came, and has had its warning.
LEMMA CheckStep ==
    ASSUME SlaIInv, NEW i, Check(i)
    PROVE  SlaIInv'
<1> DEFINE s == monitors[i].step
           raise == [monitors[i] EXCEPT !.at = "raise"]
<1>1. /\ i \in DOMAIN monitors /\ monitors[i] \in Monitors /\ s \in StepNumbers
      /\ Watching(monitors[i], complaint, sla, clock)
      /\ monitors[i].at = "check"
  BY SlaTypes DEF Check, At, SlaIInv
<1>2. UNCHANGED <<complaint, requests, sla, clock, faults>>
  BY DEF Check
<1>3. Steps[s].deadline \in Deadlines
  BY <1>1, StepFacts
<1>4. \E r \in 1 .. MaxRequests : requests[r] = "replied"
  <2>1. Starters # {}
    <3>1. Len(monitors) # 0
      BY <1>1, SlaTypes
    <3>2. QED
      BY <3>1, FS_EmptySet DEF SlaIInv
  <2>2. QED
    BY <2>1 DEF Starters
<1>5. complaint.status # "ABSENT"
  BY <1>4 DEF SlaIInv
<1>6. is_deadline_cleared(Steps[s].deadline) <=> complaint.cleared[Steps[s].deadline] # Never
  BY <1>3, <1>5 DEF is_deadline_cleared, SlaIInv, Cleared, Deadlines
<1>7. CASE is_deadline_cleared(Steps[s].deadline)
  <2>1. monitors' = [monitors EXCEPT ![i] = Onto(monitors[i])]
    BY <1>7 DEF Check, NextStep, Onto
  <2>2. Onto(monitors[i]) \in Monitors /\ Watching(Onto(monitors[i]), complaint, sla, clock)
    BY <1>1, <1>6, <1>7, SlaTypes, PassesOn
  <2>3. QED
    BY <1>1, <1>2, <2>1, <2>2, SameRows, MonitorKeeps DEF SlaIInv, SlaTypeOK
<1>8. CASE ~is_deadline_cleared(Steps[s].deadline)
  <2>1. monitors' = [monitors EXCEPT ![i] = raise]
    BY <1>8 DEF Check, MoveTo
  <2>2. raise \in Monitors /\ raise.at = "raise" /\ raise.step = s
    BY <1>1 DEF Monitors
  <2>3. Due(s, complaint, clock)
    <3>1. complaint.cleared[Steps[s].deadline] = Never
      BY <1>6, <1>8
    <3>2. clock >= target_at(s) /\ clock \in 0 .. Horizon /\ target_at(s) \in Nat
      BY <1>1, Times DEF Watching, SlaIInv, SlaTypeOK
    <3>3. QED
      BY <3>1, <3>2, Times DEF Due
  <2>4. Warned(s, sla)
    <3>1. SUFFICES ASSUME Steps[s].event = "BREACHED" PROVE sla[s - 1].actions = 1
      BY DEF Warned
    <3>2. /\ s - 1 \in 1 .. s - 1 /\ Steps[s - 1].deadline = Steps[s].deadline
      BY <1>1, <3>1, StepFacts
    <3>3. complaint.cleared[Steps[s - 1].deadline] = Never
      BY <1>6, <1>8, <3>2
    <3>4. QED
      BY <1>1, <3>2, <3>3 DEF Watching
  <2>5. Watching(raise, complaint, sla, clock)
    BY <1>1, <2>2, <2>3, <2>4 DEF Watching
  <2>6. QED
    BY <1>1, <1>2, <2>1, <2>2, <2>5, SameRows, MonitorKeeps DEF SlaIInv, SlaTypeOK
<1>9. QED
  BY <1>7, <1>8

\* A monitor between its check and the end of its action is at a step.
LEMMA Acting ==
    ASSUME SlaIInv, NEW i, NEW place \in {"raise", "act"}, At(i, place)
    PROVE  /\ i \in DOMAIN monitors /\ monitors[i] \in Monitors
           /\ monitors[i].at = place /\ monitors[i].step \in StepNumbers
           /\ Watching(monitors[i], complaint, sla, clock)
           /\ [monitors EXCEPT ![i] = monitors[i]] = monitors
           /\ faults \in 0 .. MaxFaults /\ MaxFaults \in Nat
BY SlaTypes, SlaAssumption DEF At, SlaIInv, SlaTypeOK

LEMMA RaiseStep ==
    ASSUME SlaIInv, NEW i, raise_complaint_sla_event(i)
    PROVE  SlaIInv'
<1> DEFINE s == monitors[i].step
           act == [monitors[i] EXCEPT !.at = "act"]
<1>1. /\ i \in DOMAIN monitors /\ monitors[i] \in Monitors /\ s \in StepNumbers
      /\ Watching(monitors[i], complaint, sla, clock)
      /\ monitors[i].at = "raise"
      /\ [monitors EXCEPT ![i] = monitors[i]] = monitors
  BY Acting DEF raise_complaint_sla_event
<1>2. UNCHANGED <<complaint, requests, clock>>
  BY DEF raise_complaint_sla_event
<1>3. sla' = [sla EXCEPT ![s].events = @ + 1]
  BY DEF raise_complaint_sla_event
<1>4. /\ sla' \in Files /\ sla'[s].events > 0
      /\ \A k \in StepNumbers : sla'[k].actions = sla[k].actions
                               /\ sla'[k].claim = sla[k].claim
      /\ \A k \in StepNumbers : k # s => sla'[k] = sla[k]
      /\ \A k \in StepNumbers : sla[k].events > 0 => sla'[k].events > 0
  <2>1. sla \in Files /\ s \in StepNumbers /\ sla[s].events \in Nat
    BY <1>1, SlaTypes DEF Files
  <2>2. /\ sla'[s] = [sla[s] EXCEPT !.events = @ + 1]
        /\ \A k \in StepNumbers : k # s => sla'[k] = sla[k]
    BY <1>3, <2>1 DEF Files
  <2>3. /\ sla'[s].events = sla[s].events + 1
        /\ sla'[s].actions = sla[s].actions /\ sla'[s].claim = sla[s].claim
    BY <2>1, <2>2 DEF Files
  <2>4. sla' \in Files
    BY <1>3, <2>1 DEF Files
  <2>5. sla'[s].events > 0
    BY <2>1, <2>3
  <2>6. ASSUME NEW k \in StepNumbers
        PROVE  /\ sla'[k].actions = sla[k].actions /\ sla'[k].claim = sla[k].claim
               /\ sla[k].events > 0 => sla'[k].events > 0
    <3>1. CASE k = s
      BY <2>3, <2>5, <3>1
    <3>2. CASE k # s
      BY <2>2, <3>2
    <3>. QED  BY <3>1, <3>2
  <2>. QED  BY <2>2, <2>4, <2>5, <2>6
<1>5. Onward(complaint, sla, clock, complaint, sla', clock)
  BY <1>4, SlaTypes DEF Onward
<1>6. Due(s, complaint, clock) /\ Warned(s, sla)
  BY <1>1 DEF Watching
<1>7. \A k \in StepNumbers : Warned(k, sla) => Warned(k, sla')
  BY <1>4, StepFacts DEF Warned
<1>8. \A k \in StepNumbers : Filed(k, complaint, sla', clock)
  <2>1. \A k \in StepNumbers : Filed(k, complaint, sla, clock)
    BY DEF SlaIInv
  <2>2. QED
    BY <1>4, <1>6, <1>7, <2>1 DEF Filed
<1>9. faults' \in 0 .. MaxFaults
  BY Acting DEF raise_complaint_sla_event, Fault
<1>10. act \in Monitors /\ act.at = "act" /\ act.step = s
  BY <1>1 DEF Monitors
<1>11. Watching(act, complaint, sla', clock)
  <2>1. Watching(monitors[i], complaint, sla', clock)
    BY <1>1, <1>4, <1>5, SlaTypes, WatchingKeeps
  <2>2. QED
    BY <1>1, <1>4, <1>10, <2>1 DEF Watching
<1>12. CASE MoveTo(i, "act")
  <2>1. monitors' = [monitors EXCEPT ![i] = act]
    BY <1>12 DEF MoveTo
  <2>2. QED
    BY <1>1, <1>2, <1>4, <1>5, <1>8, <1>9, <1>10, <1>11, <2>1, MonitorKeeps
<1>13. CASE UNCHANGED monitors
  <2>1. Watching(monitors[i], complaint, sla', clock)
    BY <1>1, <1>4, <1>5, SlaTypes, WatchingKeeps
  <2>2. QED
    BY <1>1, <1>2, <1>4, <1>5, <1>8, <1>9, <1>13, <2>1, MonitorKeeps
<1>14. QED
  BY <1>12, <1>13 DEF raise_complaint_sla_event

LEMMA ActStep ==
    ASSUME SlaIInv, NEW i, create_action(i)
    PROVE  SlaIInv'
<1> DEFINE s == monitors[i].step
<1>1. /\ i \in DOMAIN monitors /\ monitors[i] \in Monitors /\ s \in StepNumbers
      /\ Watching(monitors[i], complaint, sla, clock)
      /\ monitors[i].at = "act"
      /\ [monitors EXCEPT ![i] = monitors[i]] = monitors
  BY Acting DEF create_action
<1>2. UNCHANGED <<complaint, requests, clock>>
  BY DEF create_action
<1>3. /\ sla[s].claim # "PENDING"
      /\ sla' = IF sla[s].claim = "COMPLETED" THEN sla
                ELSE [sla EXCEPT ![s].actions = @ + 1, ![s].claim = "COMPLETED"]
  BY DEF create_action
<1>4. \A k \in StepNumbers : Filed(k, complaint, sla, clock)
  BY DEF SlaIInv
<1>5. sla[s].actions = IF sla[s].claim = "COMPLETED" THEN 1 ELSE 0
  BY <1>1, <1>4 DEF Filed
<1>6. /\ sla' \in Files /\ sla'[s].actions = 1 /\ sla'[s].claim = "COMPLETED"
      /\ \A k \in StepNumbers : k # s => sla'[k] = sla[k]
      /\ \A k \in StepNumbers : sla'[k].events = sla[k].events
  <2>1. sla[s].claim \in {"NONE", "PENDING", "COMPLETED"} /\ sla \in Files
    BY <1>1, SlaTypes DEF Files
  <2>2. CASE sla[s].claim = "COMPLETED"
    BY <1>3, <1>5, <2>1, <2>2
  <2>3. CASE sla[s].claim # "COMPLETED"
    <3>1. sla' = [sla EXCEPT ![s] = [@ EXCEPT !.actions = 1, !.claim = "COMPLETED"]]
      BY <1>1, <1>3, <1>5, <2>1, <2>3 DEF Files
    <3>2. sla' \in Files
      BY <1>1, <2>1, <3>1 DEF Files
    <3>3. sla'[s] = [sla[s] EXCEPT !.actions = 1, !.claim = "COMPLETED"]
      BY <1>1, <2>1, <3>1 DEF Files
    <3>4. sla'[s].actions = 1 /\ sla'[s].claim = "COMPLETED" /\ sla'[s].events = sla[s].events
      BY <1>1, <2>1, <3>3 DEF Files
    <3>5. \A k \in StepNumbers : k # s => sla'[k] = sla[k]
      BY <2>1, <3>1 DEF Files
    <3>6. ASSUME NEW k \in StepNumbers PROVE sla'[k].events = sla[k].events
      <4>1. CASE k = s
        BY <3>4, <4>1
      <4>2. CASE k # s
        BY <3>5, <4>2
      <4>. QED  BY <4>1, <4>2
    <3>7. QED
      BY <3>2, <3>4, <3>5, <3>6
  <2>4. QED
    BY <2>2, <2>3
<1>7. Onward(complaint, sla, clock, complaint, sla', clock)
  BY <1>6, SlaTypes DEF Onward
<1>8. \A k \in StepNumbers : Warned(k, sla) => Warned(k, sla')
  BY <1>1, <1>6, StepFacts DEF Warned
<1>9. sla[s].events > 0
  BY <1>1 DEF Watching
<1>10. \A k \in StepNumbers : Filed(k, complaint, sla', clock)
  BY <1>4, <1>6, <1>8, <1>9 DEF Filed
<1>11. faults' \in 0 .. MaxFaults
  BY Acting DEF create_action, Fault
<1>12. Watching(monitors[i], complaint, sla', clock)
  BY <1>1, <1>6, <1>7, SlaTypes, WatchingKeeps
<1>13. CASE NextStep(i)
  <2>1. monitors' = [monitors EXCEPT ![i] = Onto(monitors[i])]
    BY <1>13 DEF NextStep, Onto
  <2>2. Onto(monitors[i]) \in Monitors /\ Watching(Onto(monitors[i]), complaint, sla', clock)
    BY <1>1, <1>6, <1>12, SlaTypes, PassesOn
  <2>3. QED
    BY <1>1, <1>2, <1>6, <1>7, <1>10, <1>11, <2>1, <2>2, MonitorKeeps
<1>14. CASE UNCHANGED monitors
  BY <1>1, <1>2, <1>6, <1>7, <1>10, <1>11, <1>12, <1>14, MonitorKeeps
<1>15. QED
  BY <1>13, <1>14 DEF create_action

LEMMA AbandonStep ==
    ASSUME SlaIInv, NEW i, AbandonAction(i)
    PROVE  SlaIInv'
<1> DEFINE s == monitors[i].step
<1>1. /\ i \in DOMAIN monitors /\ monitors[i] \in Monitors /\ s \in StepNumbers
      /\ Watching(monitors[i], complaint, sla, clock)
      /\ [monitors EXCEPT ![i] = monitors[i]] = monitors
  BY Acting DEF AbandonAction
<1>2. UNCHANGED <<complaint, requests, monitors, clock>>
  BY DEF AbandonAction
<1>3. sla[s].claim = "NONE" /\ sla' = [sla EXCEPT ![s].claim = "PENDING"]
  BY DEF AbandonAction
<1>4. /\ sla' \in Files /\ sla'[s].claim = "PENDING"
      /\ \A k \in StepNumbers : k # s => sla'[k] = sla[k]
      /\ \A k \in StepNumbers : sla'[k].events = sla[k].events
                               /\ sla'[k].actions = sla[k].actions
  BY <1>1, <1>3, SlaTypes DEF Files
<1>5. Onward(complaint, sla, clock, complaint, sla', clock)
  BY <1>4, SlaTypes DEF Onward
<1>6. \A k \in StepNumbers : Warned(k, sla) => Warned(k, sla')
  BY <1>4, StepFacts DEF Warned
<1>7. \A k \in StepNumbers : Filed(k, complaint, sla', clock)
  <2>1. \A k \in StepNumbers : Filed(k, complaint, sla, clock)
    BY DEF SlaIInv
  <2>2. QED
    BY <1>3, <1>4, <1>6, <2>1 DEF Filed
<1>8. faults' \in 0 .. MaxFaults
  BY Acting DEF AbandonAction, Fault
<1>9. Watching(monitors[i], complaint, sla', clock)
  BY <1>1, <1>4, <1>5, SlaTypes, WatchingKeeps
<1>10. QED
  BY <1>1, <1>2, <1>4, <1>5, <1>7, <1>8, <1>9, MonitorKeeps

\* A deadline is cleared at the time it is, once.
LEMMA ClearStep ==
    ASSUME SlaIInv, NEW status, NEW deadlines,
           \/ /\ complaint.status = "OPEN"
              /\ status = "ACKNOWLEDGED" /\ deadlines = {"ACKNOWLEDGMENT"}
           \/ /\ complaint.status \in {"OPEN", "ACKNOWLEDGED"}
              /\ status = "RESOLVED" /\ deadlines = Deadlines,
           Clear(status, deadlines), UNCHANGED <<requests, monitors, sla, clock, faults>>
    PROVE  SlaIInv'
<1>1. clock \in 0 .. Horizon /\ clock # Never /\ clock \in 0 .. Never
  BY Times DEF SlaIInv, SlaTypeOK
<1>2. /\ complaint' \in Complaints /\ complaint'.status = status
      /\ \A d \in Deadlines : complaint'.cleared[d] =
            IF d \in deadlines /\ complaint.cleared[d] = Never THEN clock
            ELSE complaint.cleared[d]
  BY <1>1, SlaTypes DEF Clear, Complaints
<1>3. SlaTypeOK'
  BY <1>2 DEF SlaIInv, SlaTypeOK, Complaints
<1>4. Cleared(complaint', clock')
  BY <1>1, <1>2 DEF Cleared, SlaIInv, Deadlines
<1>5. Onward(complaint, sla, clock, complaint', sla', clock')
  BY <1>1, <1>2 DEF Onward
<1>6. QED
  BY <1>1, <1>2, <1>3, <1>4, <1>5, SlaTypes, OnwardKeeps

LEMMA TickStep == ASSUME SlaIInv, Tick PROVE SlaIInv'
<1>1. /\ clock' = clock + 1 /\ clock' \in 0 .. Horizon /\ clock \in Nat
      /\ UNCHANGED <<complaint, requests, monitors, sla, faults>>
  BY Times DEF Tick, SlaIInv, SlaTypeOK
<1>2. SlaTypeOK'
  BY <1>1 DEF SlaIInv, SlaTypeOK
<1>3. Cleared(complaint', clock')
  BY <1>1, SlaTypes, Times DEF Cleared, SlaIInv, Complaints
<1>4. Onward(complaint, sla, clock, complaint', sla', clock')
  BY <1>1 DEF Onward
<1>5. QED
  BY <1>1, <1>2, <1>3, <1>4, SlaTypes, OnwardKeeps

LEMMA SlaStep == SlaIInv /\ [SlaNext]_slaVars => SlaIInv'
<1> SUFFICES ASSUME SlaIInv, [SlaNext]_slaVars PROVE SlaIInv'
  OBVIOUS
<1>1. CASE UNCHANGED slaVars
  BY <1>1 DEF slaVars, SlaIInv, SlaTypeOK, Starters, Cleared, Filed, Watching, Due, Warned
<1>2. ASSUME NEW r \in 1 .. MaxRequests,
             create_complaint(r) \/ start_workflow(r) \/ CrashRequest(r)
      PROVE  SlaIInv'
  BY <1>2, CreateStep, StartStep, CrashStep
<1>3. ASSUME NEW i \in 1 .. MaxRequests, MonitorStep(i) \/ AbandonAction(i)
      PROVE  SlaIInv'
  BY <1>3, WakeStep, CheckStep, RaiseStep, ActStep, AbandonStep DEF MonitorStep
<1>4. CASE Acknowledge
  BY <1>4, ClearStep DEF Acknowledge
<1>5. CASE Resolve
  BY <1>5, ClearStep DEF Resolve
<1>6. CASE Tick
  BY <1>6, TickStep
<1>7. QED
  BY <1>1, <1>2, <1>3, <1>4, <1>5, <1>6 DEF SlaNext

---------------------------------------------------------------------------
(* What the invariant gives.                                               *)

LEMMA SlaGives ==
    ASSUME SlaIInv
    PROVE  SlaTypeOK /\ OneEscalationPerDeadline /\ AlarmsMatchDeadlines
<1>1. \A s \in StepNumbers : Filed(s, complaint, sla, clock) /\ sla[s].actions \in Nat
                           /\ sla[s].events \in Nat
  BY SlaTypes DEF SlaIInv, Files
<1>2. \A i \in DOMAIN monitors :
        monitors[i] \in Monitors /\ Watching(monitors[i], complaint, sla, clock)
  BY SlaTypes DEF SlaIInv
<1>3. OneEscalationPerDeadline
  BY <1>1 DEF OneEscalationPerDeadline, Filed
<1>4. \A s \in StepNumbers : sla[s].actions > 0 =>
        sla[s].events > 0 /\ complaint.cleared[Steps[s].deadline] >= target_at(s)
  BY <1>1 DEF Filed, Due
<1>5. \A s \in StepNumbers : Steps[s].event = "BREACHED" /\ sla[s].events > 0 =>
        sla[s - 1].actions > 0
  BY <1>1 DEF Filed, Warned
<1>6. \A i \in DOMAIN monitors : \A s \in 1 .. monitors[i].step - 1 :
        complaint.cleared[Steps[s].deadline] = Never => sla[s].actions > 0
  BY <1>2 DEF Watching
<1>7. QED
  BY <1>3, <1>4, <1>5, <1>6 DEF AlarmsMatchDeadlines, SlaIInv

\* Whatever is repeated, lost or abandoned, the rows of the complaint and its monitors
\* keep their shape, and no request starts more than one monitor.
THEOREM SlaTyped == SlaSpec => []SlaTypeOK
BY InitStep, SlaStep, SlaGives, PTL DEF SlaSpec

\* ComplaintSlaMonitorWorkflow and create_action: repeated requests and lost replies
\* give staff at most one COMPLAINT_SLA_ESCALATION action for a deadline and its SLA event,
\* although the event, which has no key, may be inserted again.
THEOREM EscalatesOnce == SlaSpec => []OneEscalationPerDeadline
BY InitStep, SlaStep, SlaGives, PTL DEF SlaSpec

\* _wait_and_check reads the status before the alarm it raises, yet no alarm is false or
\* without its event, none is missing that a monitor has passed, and a breach follows
\* its warning.
THEOREM AlarmsAreTrue == SlaSpec => []AlarmsMatchDeadlines
BY InitStep, SlaStep, SlaGives, PTL DEF SlaSpec

---------------------------------------------------------------------------
(* One-time passwords.                                                     *)

\* The lock of a code outlasts it, so no locked code is ever compared again, and each
\* code sent allows at most MAX_OTP_ATTEMPTS wrong answers.
Limited ==
    /\ challenge.status = "ABSENT" =>
         challenge.sent_count = 0 /\ challenge.attempt_count = 0 /\ guesses = 0
    /\ challenge.status # "ABSENT" =>
         /\ challenge.sent_count > 0
         /\ challenge.expires_at = challenge.created_at + OTP_TTL
         /\ guesses <= MAX_OTP_ATTEMPTS * (challenge.sent_count - 1) + challenge.attempt_count
    /\ challenge.attempt_count <= MAX_OTP_ATTEMPTS
    /\ challenge.status # "LOCKED" => challenge.attempt_count < MAX_OTP_ATTEMPTS
    /\ challenge.status = "LOCKED" => challenge.locked_until >= challenge.expires_at
    /\ challenge.created_at <= time

\* An activity is scheduled after the code on file was sent, and carries the last code
\* texted; a code that is not on file is still being sent.
Underway ==
    /\ activity.kind = "none" => activity = NoActivity
    /\ activity.now <= time
    /\ activity.kind = "verify" => challenge.status # "ABSENT"
                                /\ activity.now >= challenge.created_at
    /\ activity.code # 0 => activity.kind = "send" /\ activity.code = texts /\ ~SendRaises
    /\ challenge.status # "ABSENT" /\ challenge.code # texts =>
         activity.kind = "send" /\ ~SendRaises

OtpInv == OtpTypeOK /\ Limited /\ Underway

LEMMA OtpTypes ==
    ASSUME OtpTypeOK
    PROVE  /\ OTP_TTL \in Nat /\ OTP_LOCKOUT \in Nat /\ OTP_LOCKOUT >= OTP_TTL
           /\ OTP_RESEND_COOLDOWN \in Nat
           /\ MAX_OTP_SENDS_PER_SESSION \in Nat \ {0} /\ MAX_OTP_ATTEMPTS \in Nat \ {0}
           /\ MaxTexts \in Nat /\ MaxTime \in Nat
           /\ challenge.code \in Nat /\ challenge.sent_count \in Nat
           /\ challenge.attempt_count \in Nat /\ challenge.expires_at \in Nat
           /\ challenge.locked_until \in Nat /\ challenge.created_at \in Nat
           /\ activity.now \in Nat /\ texts \in Nat /\ guesses \in Nat /\ time \in Nat
           /\ challenge.status \in {"ABSENT", "SENT", "VERIFIED", "LOCKED"}
BY OtpAssumption DEF OtpTypeOK

\* One more code, one more allowance.
LEMMA Allowance ==
    ASSUME NEW max \in Nat, NEW sent \in Nat, sent > 0
    PROVE  max * (sent - 1) + max = max * sent /\ max * (sent - 1) \in Nat
OBVIOUS

LEMMA Idle == NoActivity \in [kind: {"none", "send", "verify"}, now: 0 .. MaxTime,
                              code: 0 .. MaxTexts, answer: 0 .. MaxTexts, compared: BOOLEAN]
BY OtpAssumption DEF NoActivity

LEMMA OtpInitStep == OtpInit => OtpInv
<1> SUFFICES ASSUME OtpInit PROVE OtpInv
  OBVIOUS
<1>1. OtpTypeOK
  BY Idle, OtpAssumption DEF OtpInit, OtpTypeOK, NoChallenge
<1>2. Limited
  BY OtpAssumption DEF OtpInit, Limited, NoChallenge
<1>3. Underway
  BY OtpAssumption DEF OtpInit, Underway, NoChallenge, NoActivity
<1>4. QED
  BY <1>1, <1>2, <1>3 DEF OtpInv

LEMMA ScheduleStep ==
    ASSUME OtpInv, NEW kind \in {"send", "verify"}, NEW answer \in 0 .. texts,
           Schedule(kind, answer)
    PROVE  OtpInv'
<1>1. /\ activity' = [kind |-> kind, now |-> time, code |-> 0, answer |-> answer,
                      compared |-> FALSE]
      /\ UNCHANGED <<challenge, texts, guesses, time>>
      /\ kind = "verify" => challenge.status # "ABSENT"
      /\ activity.kind = "none"
  BY DEF Schedule, NoActivity
<1>2. OtpTypeOK'
  BY <1>1, OtpAssumption DEF OtpInv, OtpTypeOK
<1>3. Limited'
  BY <1>1 DEF OtpInv, Limited
<1>4. Underway'
  BY <1>1, OtpTypes DEF OtpInv, Limited, Underway
<1>5. QED
  BY <1>2, <1>3, <1>4 DEF OtpInv

\* The activity changes, and nothing else.
LEMMA ActivityStep ==
    ASSUME OtpInv, UNCHANGED <<challenge, texts, guesses, time>>,
           activity' \in [kind: {"none", "send", "verify"}, now: 0 .. MaxTime,
                          code: 0 .. MaxTexts, answer: 0 .. MaxTexts, compared: BOOLEAN],
           Underway'
    PROVE  OtpInv'
BY DEF OtpInv, OtpTypeOK, Limited

LEMMA RefuseStep == ASSUME OtpInv, Refuse PROVE OtpInv'
<1>1. activity' = NoActivity /\ UNCHANGED <<challenge, texts, guesses, time>>
  BY DEF Refuse
<1>2. challenge.status # "ABSENT" => challenge.code = texts
  BY DEF Refuse, OtpInv, Underway
<1>3. NoActivity.kind = "none" /\ NoActivity.now = 0 /\ NoActivity.code = 0
  BY DEF NoActivity
<1>4. Underway'
  BY <1>1, <1>2, <1>3, OtpTypes DEF OtpInv, Underway
<1>5. QED
  BY <1>1, <1>4, Idle, ActivityStep

LEMMA TextStep == ASSUME OtpInv, TextCode PROVE OtpInv'
<1>1. /\ activity' = [activity EXCEPT !.code = texts'] /\ texts' = texts + 1
      /\ activity.kind = "send" /\ ~SendRaises /\ texts' \in 0 .. MaxTexts /\ texts' # 0
      /\ UNCHANGED <<challenge, guesses, time>>
  BY OtpTypes DEF TextCode, OtpInv, OtpTypeOK
<1>2. /\ activity' \in [kind: {"none", "send", "verify"}, now: 0 .. MaxTime,
                        code: 0 .. MaxTexts, answer: 0 .. MaxTexts, compared: BOOLEAN]
      /\ activity'.kind = "send" /\ activity'.now = activity.now /\ activity'.code = texts'
  BY <1>1 DEF OtpInv, OtpTypeOK
<1>3. OtpTypeOK'
  BY <1>1, <1>2 DEF OtpInv, OtpTypeOK
<1>4. Limited'
  BY <1>1 DEF OtpInv, Limited
<1>5. ~SendRaises'
  BY <1>1, <1>2 DEF SendRaises
<1>6. Underway'
  BY <1>1, <1>2, <1>5 DEF OtpInv, Underway
<1>7. QED
  BY <1>3, <1>4, <1>6 DEF OtpInv

LEMMA CrashSendStep == ASSUME OtpInv, CrashSend PROVE OtpInv'
<1>1. /\ activity' = [activity EXCEPT !.code = 0] /\ activity.code # 0
      /\ UNCHANGED <<challenge, texts, guesses, time>>
  BY DEF CrashSend
<1>2. /\ activity' \in [kind: {"none", "send", "verify"}, now: 0 .. MaxTime,
                        code: 0 .. MaxTexts, answer: 0 .. MaxTexts, compared: BOOLEAN]
      /\ activity'.kind = activity.kind /\ activity'.now = activity.now /\ activity'.code = 0
  BY <1>1, OtpTypes DEF OtpInv, OtpTypeOK
<1>3. activity.kind = "send" /\ ~SendRaises'
  BY <1>1, <1>2 DEF SendRaises, OtpInv, Underway
<1>4. Underway'
  BY <1>1, <1>2, <1>3 DEF OtpInv, Underway
<1>5. QED
  BY <1>1, <1>2, <1>4, ActivityStep

\* The code on file is the last texted, and allows as many guesses as every other.
LEMMA CommitStep == ASSUME OtpInv, CommitCode PROVE OtpInv'
<1> DEFINE again == [activity EXCEPT !.code = 0]
<1>1. /\ activity.code # 0 /\ activity.kind = "send" /\ activity.code = texts /\ ~SendRaises
      /\ UNCHANGED <<texts, guesses, time>>
  BY DEF CommitCode, OtpInv, Underway
<1>2. challenge.sent_count < MAX_OTP_SENDS_PER_SESSION
  BY <1>1, OtpTypes DEF SendRaises, OtpInv, Limited
<1>3. /\ challenge' \in [status: {"ABSENT", "SENT", "VERIFIED", "LOCKED"},
                         code: 0 .. MaxTexts,
                         sent_count: 0 .. MAX_OTP_SENDS_PER_SESSION, attempt_count: Nat,
                         expires_at: Nat, locked_until: Nat, created_at: 0 .. MaxTime]
      /\ challenge'.status = "SENT" /\ challenge'.code = texts
      /\ challenge'.sent_count = challenge.sent_count + 1 /\ challenge'.attempt_count = 0
      /\ challenge'.created_at = activity.now
      /\ challenge'.expires_at = activity.now + OTP_TTL
  <2>1. /\ challenge' = [challenge EXCEPT !.code = activity.code, !.sent_count = @ + 1,
                          !.attempt_count = 0, !.status = "SENT",
                          !.expires_at = activity.now + OTP_TTL, !.created_at = activity.now]
        /\ activity.now \in 0 .. MaxTime /\ activity.code \in 0 .. MaxTexts
        /\ challenge \in [status: {"ABSENT", "SENT", "VERIFIED", "LOCKED"},
                          code: 0 .. MaxTexts,
                          sent_count: 0 .. MAX_OTP_SENDS_PER_SESSION, attempt_count: Nat,
                          expires_at: Nat, locked_until: Nat, created_at: 0 .. MaxTime]
    BY DEF CommitCode, OtpInv, OtpTypeOK
  <2>2. /\ activity.now + OTP_TTL \in Nat
        /\ challenge.sent_count + 1 \in 0 .. MAX_OTP_SENDS_PER_SESSION
    BY <1>2, OtpTypes DEF OtpInv
  <2>3. QED
    BY <1>1, <2>1, <2>2
<1>4. activity' \in {NoActivity, again}
  BY DEF CommitCode, Settle
<1>5. /\ activity' \in [kind: {"none", "send", "verify"}, now: 0 .. MaxTime,
                        code: 0 .. MaxTexts, answer: 0 .. MaxTexts, compared: BOOLEAN]
      /\ activity' = NoActivity \/ (activity'.kind = "send" /\ activity'.now = activity.now)
      /\ activity'.code = 0
  <2>1. CASE activity' = NoActivity
    BY <2>1, Idle DEF NoActivity
  <2>2. CASE activity' = again
    BY <1>1, <2>2, OtpTypes DEF OtpInv, OtpTypeOK
  <2>3. QED
    BY <1>4, <2>1, <2>2
<1>6. OtpTypeOK'
  BY <1>1, <1>3, <1>5 DEF OtpInv, OtpTypeOK
<1>7. guesses <= MAX_OTP_ATTEMPTS * challenge.sent_count
  <2>1. CASE challenge.status = "ABSENT"
    <3>1. guesses = 0 /\ challenge.sent_count = 0
      BY <2>1 DEF OtpInv, Limited
    <3>2. QED
      BY <3>1, OtpTypes DEF OtpInv
  <2>2. CASE challenge.status # "ABSENT"
    <3>1. /\ challenge.sent_count > 0 /\ challenge.attempt_count <= MAX_OTP_ATTEMPTS
          /\ guesses <= MAX_OTP_ATTEMPTS * (challenge.sent_count - 1) + challenge.attempt_count
      BY <2>2 DEF OtpInv, Limited
    <3>2. /\ MAX_OTP_ATTEMPTS * (challenge.sent_count - 1) + MAX_OTP_ATTEMPTS
                = MAX_OTP_ATTEMPTS * challenge.sent_count
          /\ MAX_OTP_ATTEMPTS * (challenge.sent_count - 1) \in Nat
      BY <3>1, OtpTypes, Allowance DEF OtpInv
    <3>3. QED
      BY <3>1, <3>2, OtpTypes DEF OtpInv
  <2>3. QED
    BY <2>1, <2>2
<1>8. Limited'
  <2>1. challenge'.sent_count - 1 = challenge.sent_count /\ challenge'.sent_count > 0
    BY <1>3, OtpTypes DEF OtpInv
  <2>2. guesses' <= MAX_OTP_ATTEMPTS * (challenge'.sent_count - 1) + challenge'.attempt_count
    BY <1>1, <1>3, <1>7, <2>1, OtpTypes DEF OtpInv
  <2>3. activity.now <= time /\ 0 < MAX_OTP_ATTEMPTS /\ 0 <= MAX_OTP_ATTEMPTS
    BY OtpTypes DEF OtpInv, Underway
  <2>4. QED
    BY <1>1, <1>3, <2>1, <2>2, <2>3 DEF Limited
<1>9. Underway'
  <2>1. activity'.now <= time /\ (activity' = NoActivity \/ activity'.kind = "send")
    BY <1>5, OtpTypes DEF OtpInv, Underway, NoActivity
  <2>2. NoActivity.kind = "none"
    BY DEF NoActivity
  <2>3. QED
    BY <1>1, <1>3, <1>5, <2>1, <2>2 DEF Underway
<1>10. QED
  BY <1>6, <1>8, <1>9 DEF OtpInv

\* A code compared is not locked: it lives, and its lock would outlast it.
LEMMA VerifyStep == ASSUME OtpInv, verify_otp PROVE OtpInv'
<1> DEFINE again == [activity EXCEPT !.compared = TRUE]
           count == challenge.attempt_count + 1
<1>1. /\ activity.kind = "verify" /\ challenge.status # "ABSENT" /\ activity.code = 0
      /\ activity.now >= challenge.created_at /\ ~VerifyRaises /\ challenge.code = texts
      /\ UNCHANGED <<texts, time>>
  BY DEF verify_otp, OtpInv, Underway
<1>2. challenge.status # "LOCKED"
  BY <1>1, OtpTypes DEF VerifyRaises, OtpInv, Limited
<1>3. challenge.attempt_count < MAX_OTP_ATTEMPTS
  BY <1>2 DEF OtpInv, Limited
<1>4. activity' \in {NoActivity, again}
  BY DEF verify_otp, Settle
<1>5. /\ activity' \in [kind: {"none", "send", "verify"}, now: 0 .. MaxTime,
                        code: 0 .. MaxTexts, answer: 0 .. MaxTexts, compared: BOOLEAN]
      /\ activity' = NoActivity \/ (activity'.kind = "verify" /\ activity'.now = activity.now)
      /\ activity'.code = 0
  <2>1. CASE activity' = NoActivity
    BY <2>1, Idle DEF NoActivity
  <2>2. CASE activity' = again
    BY <1>1, <2>2, OtpTypes DEF OtpInv, OtpTypeOK
  <2>3. QED
    BY <1>4, <2>1, <2>2
<1>6. CASE activity.answer = challenge.code
  <2>1. /\ challenge' = [challenge EXCEPT !.status = "VERIFIED"] /\ UNCHANGED guesses
    BY <1>6 DEF verify_otp
  <2>2. /\ OtpTypeOK' /\ challenge'.status = "VERIFIED"
        /\ challenge'.code = challenge.code /\ challenge'.sent_count = challenge.sent_count
        /\ challenge'.attempt_count = challenge.attempt_count
        /\ challenge'.expires_at = challenge.expires_at
        /\ challenge'.created_at = challenge.created_at
    BY <1>1, <1>5, <2>1 DEF OtpInv, OtpTypeOK
  <2>3. Limited'
    BY <1>1, <1>3, <2>1, <2>2 DEF OtpInv, Limited
  <2>4. Underway'
    BY <1>1, <1>5, <2>2, OtpTypes DEF OtpInv, Underway, NoActivity
  <2>5. QED
    BY <2>2, <2>3, <2>4 DEF OtpInv
<1>7. CASE activity.answer # challenge.code
  <2>1. /\ challenge' = [challenge EXCEPT !.attempt_count = count,
                !.status = IF count >= MAX_OTP_ATTEMPTS THEN "LOCKED" ELSE @,
                !.locked_until = IF count >= MAX_OTP_ATTEMPTS
                                 THEN activity.now + OTP_LOCKOUT ELSE @]
        /\ guesses' = IF activity.compared THEN guesses ELSE guesses + 1
    BY <1>7 DEF verify_otp
  <2>2. count \in Nat /\ activity.now + OTP_LOCKOUT \in Nat /\ count <= MAX_OTP_ATTEMPTS
        /\ guesses' \in Nat /\ guesses' <= guesses + 1
    BY <1>3, <2>1, OtpTypes DEF OtpInv
  <2>3. /\ challenge' \in [status: {"ABSENT", "SENT", "VERIFIED", "LOCKED"},
                           code: 0 .. MaxTexts,
                           sent_count: 0 .. MAX_OTP_SENDS_PER_SESSION, attempt_count: Nat,
                           expires_at: Nat, locked_until: Nat, created_at: 0 .. MaxTime]
        /\ challenge'.code = challenge.code /\ challenge'.sent_count = challenge.sent_count
        /\ challenge'.attempt_count = count
        /\ challenge'.expires_at = challenge.expires_at
        /\ challenge'.created_at = challenge.created_at
        /\ challenge'.status = IF count >= MAX_OTP_ATTEMPTS THEN "LOCKED" ELSE challenge.status
        /\ count >= MAX_OTP_ATTEMPTS => challenge'.locked_until = activity.now + OTP_LOCKOUT
    BY <2>1, <2>2 DEF OtpInv, OtpTypeOK
  <2>4. OtpTypeOK'
    BY <1>1, <1>5, <2>2, <2>3 DEF OtpInv, OtpTypeOK
  <2>5. Limited'
    <3>1. /\ challenge'.status # "ABSENT"
          /\ challenge'.status = "LOCKED" <=> count >= MAX_OTP_ATTEMPTS
      BY <1>1, <1>2, <2>3
    <3>2. challenge'.status = "LOCKED" => challenge'.locked_until >= challenge'.expires_at
      <4>1. challenge.expires_at = challenge.created_at + OTP_TTL
        BY <1>1 DEF OtpInv, Limited
      <4>2. activity.now + OTP_LOCKOUT >= challenge.created_at + OTP_TTL
        BY <1>1, OtpTypes DEF OtpInv
      <4>3. QED
        BY <2>3, <3>1, <4>1, <4>2
    <3>3. guesses' <= MAX_OTP_ATTEMPTS * (challenge'.sent_count - 1) + challenge'.attempt_count
      <4>1. /\ challenge.sent_count > 0
            /\ guesses <= MAX_OTP_ATTEMPTS * (challenge.sent_count - 1) + challenge.attempt_count
        BY <1>1 DEF OtpInv, Limited
      <4>2. MAX_OTP_ATTEMPTS * (challenge.sent_count - 1) \in Nat
        BY <4>1, OtpTypes, Allowance DEF OtpInv
      <4>3. QED
        BY <2>2, <2>3, <4>1, <4>2, OtpTypes DEF OtpInv
    <3>4. challenge'.attempt_count < MAX_OTP_ATTEMPTS \/ challenge'.status = "LOCKED"
      BY <2>2, <2>3, <3>1, OtpTypes DEF OtpInv
    <3>5. challenge.sent_count > 0 /\ challenge.created_at <= time
          /\ challenge.expires_at = challenge.created_at + OTP_TTL
      BY <1>1 DEF OtpInv, Limited
    <3>6. QED
      BY <1>1, <2>2, <2>3, <3>1, <3>2, <3>3, <3>4, <3>5 DEF Limited
  <2>6. Underway'
    BY <1>1, <1>5, <2>3, OtpTypes DEF OtpInv, Underway, NoActivity
  <2>7. QED
    BY <2>4, <2>5, <2>6 DEF OtpInv
<1>8. QED
  BY <1>6, <1>7

LEMMA PassStep == ASSUME OtpInv, Pass PROVE OtpInv'
<1>1. /\ time' = time + 1 /\ time' \in 0 .. MaxTime /\ time \in Nat
      /\ UNCHANGED <<challenge, activity, texts, guesses>>
  BY OtpTypes DEF Pass, OtpInv, OtpTypeOK
<1>2. OtpTypeOK'
  BY <1>1 DEF OtpInv, OtpTypeOK
<1>3. Limited'
  BY <1>1, OtpTypes DEF OtpInv, Limited
<1>4. Underway'
  BY <1>1, OtpTypes DEF OtpInv, Underway, SendRaises
<1>5. QED
  BY <1>2, <1>3, <1>4 DEF OtpInv

LEMMA OtpStep == OtpInv /\ [OtpNext]_otpVars => OtpInv'
<1> SUFFICES ASSUME OtpInv, [OtpNext]_otpVars PROVE OtpInv'
  OBVIOUS
<1>1. CASE UNCHANGED otpVars
  BY <1>1 DEF otpVars, OtpInv, OtpTypeOK, Limited, Underway, SendRaises
<1>2. CASE Schedule("send", 0)
  BY <1>2, ScheduleStep, OtpTypes DEF OtpInv
<1>3. ASSUME NEW answer \in 0 .. texts, Schedule("verify", answer) PROVE OtpInv'
  BY <1>3, ScheduleStep
<1>4. QED
  BY <1>1, <1>2, <1>3, RefuseStep, TextStep, CrashSendStep, CommitStep, VerifyStep, PassStep
     DEF OtpNext

LEMMA OtpGives == OtpInv => OtpLimitsHold
<1> SUFFICES ASSUME OtpInv PROVE OtpLimitsHold
  OBVIOUS
<1>1. LastCodeCounts
  BY DEF OtpInv, Underway, LastCodeCounts
<1>2. GuessesPerSession
  <2>1. CASE challenge.status = "ABSENT"
    <3>1. guesses = 0
      BY <2>1 DEF OtpInv, Limited
    <3>2. MAX_OTP_SENDS_PER_SESSION * MAX_OTP_ATTEMPTS \in Nat
      BY OtpTypes DEF OtpInv
    <3>3. QED
      BY <3>1, <3>2 DEF GuessesPerSession
  <2>2. CASE challenge.status # "ABSENT"
    <3>1. /\ challenge.sent_count > 0 /\ challenge.attempt_count <= MAX_OTP_ATTEMPTS
          /\ guesses <= MAX_OTP_ATTEMPTS * (challenge.sent_count - 1) + challenge.attempt_count
      BY <2>2 DEF OtpInv, Limited
    <3>2. /\ MAX_OTP_ATTEMPTS * (challenge.sent_count - 1) + MAX_OTP_ATTEMPTS
                = MAX_OTP_ATTEMPTS * challenge.sent_count
          /\ MAX_OTP_ATTEMPTS * (challenge.sent_count - 1) \in Nat
      BY <3>1, OtpTypes, Allowance DEF OtpInv
    <3>3. challenge.sent_count <= MAX_OTP_SENDS_PER_SESSION
      BY DEF OtpInv, OtpTypeOK
    <3>4. MAX_OTP_ATTEMPTS * challenge.sent_count
            <= MAX_OTP_SENDS_PER_SESSION * MAX_OTP_ATTEMPTS
      BY <3>3, OtpTypes DEF OtpInv
    <3>5. guesses <= MAX_OTP_ATTEMPTS * challenge.sent_count
      BY <3>1, <3>2, OtpTypes DEF OtpInv
    <3>6. MAX_OTP_ATTEMPTS * challenge.sent_count \in Nat
          /\ MAX_OTP_SENDS_PER_SESSION * MAX_OTP_ATTEMPTS \in Nat
      BY OtpTypes DEF OtpInv
    <3>7. QED
      BY <3>4, <3>5, <3>6, OtpTypes DEF GuessesPerSession, OtpInv
  <2>3. QED
    BY <2>1, <2>2
<1>3. QED
  BY <1>1, <1>2 DEF OtpLimitsHold

\* send_otp and verify_otp, resent, crashed and retried: a session allows no more
\* guesses than its codes do, and the code on file is the last the customer got.
THEOREM OtpIsLimited == OtpSpec => [](OtpTypeOK /\ OtpLimitsHold)
BY OtpInitStep, OtpStep, OtpGives, PTL DEF OtpSpec, OtpInv

---------------------------------------------------------------------------
(* The defect log.                                                         *)

\* What a row claims of the times its defect was seen.
Struck(e) ==
    /\ e.occurrence_count > 0
    /\ e.occurrence_count <= e.seen
    /\ e.seen >= 2 => e.occurrence_count >= 2

\* A count that was loaded, however stale, was that of a row that claims no more.
Loaded(r, log) == r.kind = "occurrence" => r.count > 0 /\ r.count <= log[r.entry].seen

DefectInv ==
    /\ DefectTypeOK
    /\ \A x \in DOMAIN entries : Struck(entries[x])
    /\ \A c \in Clients : Loaded(request[c], entries)

RequestRec(n) == [kind: {"none", "occurrence", "update"}, entry: 0 .. n, count: Nat,
                  status: DefectStatus]

LEMMA DefectTypes ==
    ASSUME DefectTypeOK
    PROVE  /\ entries \in Seq(Entry) /\ Len(entries) \in Nat
           /\ DOMAIN entries = 1 .. Len(entries)
           /\ \A x \in DOMAIN entries : entries[x] \in Entry
           /\ request \in [Clients -> RequestRec(Len(entries))]
           /\ \A c \in Clients : request[c].kind # "none" => request[c].entry \in DOMAIN entries
<1>1. entries \in Seq(Entry) /\ request \in [Clients -> RequestRec(Len(entries))]
  BY DEF DefectTypeOK, RequestRec
<1>2. Len(entries) \in Nat /\ DOMAIN entries = 1 .. Len(entries)
      /\ \A x \in DOMAIN entries : entries[x] \in Entry
  BY <1>1
<1>3. \A c \in Clients : request[c].kind # "none" => request[c].entry \in 1 .. Len(entries)
  BY <1>1, <1>2 DEF DefectTypeOK, RequestRec
<1>4. QED
  BY <1>1, <1>2, <1>3

LEMMA DefectInitStep == DefectInit => DefectInv
<1> SUFFICES ASSUME DefectInit PROVE DefectInv
  OBVIOUS
<1>1. entries = <<>> /\ Len(entries) = 0 /\ DOMAIN entries = {}
      /\ runs = <<>> /\ request = [c \in Clients |-> NoRequest] /\ served = 0
  BY DEF DefectInit
<1>2. NoRequest \in RequestRec(0) /\ NoRequest.kind = "none"
  BY DEF NoRequest, RequestRec, DefectStatus
<1>3. DefectTypeOK
  BY <1>1, <1>2, DefectAssumption DEF DefectTypeOK, RequestRec
<1>4. QED
  BY <1>1, <1>2, <1>3 DEF DefectInv, Loaded

\* A row is added.
LEMMA CreateDefectStep ==
    ASSUME DefectInv, NEW shape \in Shapes, create_defect(shape)
    PROVE  DefectInv'
<1> DEFINE e == [shape |-> shape, status |-> "OPEN", occurrence_count |-> 1, seen |-> 1]
           n == Len(entries)
<1>1. entries' = Append(entries, e) /\ UNCHANGED <<runs, request>>
      /\ served' \in 0 .. MaxServed
  BY DefectAssumption DEF create_defect, Serve, DefectInv, DefectTypeOK
<1>2. e \in Entry /\ Struck(e)
  BY DEF Entry, DefectStatus, Struck
<1>3. /\ entries \in Seq(Entry) /\ n \in Nat /\ DOMAIN entries = 1 .. n
      /\ \A c \in Clients : request[c].kind # "none" => request[c].entry \in DOMAIN entries
      /\ request \in [Clients -> RequestRec(n)]
  BY DefectTypes DEF DefectInv
<1>4. /\ entries' \in Seq(Entry) /\ Len(entries') = n + 1 /\ DOMAIN entries' = 1 .. n + 1
      /\ \A x \in 1 .. n : entries'[x] = entries[x]
      /\ entries'[n + 1] = e
  BY <1>1, <1>2, <1>3, AppendProperties
<1>5. request' \in [Clients -> RequestRec(n + 1)]
  BY <1>1, <1>3 DEF RequestRec
<1>6. DefectTypeOK'
  BY <1>1, <1>4, <1>5 DEF DefectInv, DefectTypeOK, RequestRec
<1>7. \A x \in DOMAIN entries' : Struck(entries'[x])
  <2>1. \A x \in 1 .. n + 1 : x \in 1 .. n \/ x = n + 1
    BY <1>3
  <2>2. QED
    BY <1>2, <1>3, <1>4, <2>1 DEF DefectInv
<1>8. \A c \in Clients : Loaded(request'[c], entries')
  BY <1>1, <1>3, <1>4 DEF DefectInv, Loaded
<1>9. QED
  BY <1>6, <1>7, <1>8 DEF DefectInv

\* A client's request loads its row.
LEMMA LoadStep ==
    ASSUME DefectInv, NEW c \in Clients, NEW r \in RequestRec(Len(entries)),
           request' = [request EXCEPT ![c] = r], Serve, UNCHANGED <<entries, runs>>,
           r.entry \in DOMAIN entries, Loaded(r, entries)
    PROVE  DefectInv'
<1>1. request \in [Clients -> RequestRec(Len(entries))] /\ DOMAIN entries = 1 .. Len(entries)
      /\ Len(entries) \in Nat
  BY DefectTypes DEF DefectInv
<1>2. DefectTypeOK'
  <2>1. served' \in 0 .. MaxServed
    BY DefectAssumption DEF Serve, DefectInv, DefectTypeOK
  <2>2. request' \in [Clients -> RequestRec(Len(entries'))]
    BY <1>1
  <2>3. \A d \in Clients : request'[d].kind # "none" => request'[d].entry # 0
    BY <1>1 DEF DefectInv, DefectTypeOK
  <2>4. QED
    BY <2>1, <2>2, <2>3 DEF DefectInv, DefectTypeOK, RequestRec
<1>3. QED
  BY <1>1, <1>2 DEF DefectInv

\* A client's request writes its row, which claims no more than before, and no less
\* once its defect was seen twice.
LEMMA WriteRowStep ==
    ASSUME DefectInv, NEW c \in Clients, request[c].kind # "none", NEW e \in Entry,
           entries' = [entries EXCEPT ![request[c].entry] = e], Struck(e),
           e.seen >= entries[request[c].entry].seen,
           request' = [request EXCEPT ![c] = NoRequest], UNCHANGED <<runs, served>>
    PROVE  DefectInv'
<1> DEFINE n == Len(entries)
           k == request[c].entry
<1>1. /\ entries \in Seq(Entry) /\ n \in Nat /\ DOMAIN entries = 1 .. n /\ k \in 1 .. n
      /\ \A d \in Clients : request[d].kind # "none" => request[d].entry \in DOMAIN entries
      /\ request \in [Clients -> RequestRec(n)]
      /\ \A x \in DOMAIN entries : entries[x] \in Entry
  BY DefectTypes DEF DefectInv
<1>2. /\ entries' \in Seq(Entry) /\ Len(entries') = n /\ DOMAIN entries' = 1 .. n
      /\ \A x \in 1 .. n : entries'[x] = IF x = k THEN e ELSE entries[x]
  BY <1>1, ExceptSeq
<1>3. NoRequest \in RequestRec(n) /\ NoRequest.kind = "none"
  BY <1>1 DEF NoRequest, RequestRec, DefectStatus
<1>4. DefectTypeOK'
  <2>1. request' \in [Clients -> RequestRec(n)]
    BY <1>1, <1>3
  <2>2. \A d \in Clients : request'[d].kind # "none" => request'[d].entry # 0
    BY <1>1, <1>3 DEF DefectInv, DefectTypeOK
  <2>3. QED
    BY <1>2, <2>1, <2>2 DEF DefectInv, DefectTypeOK, RequestRec
<1>5. \A x \in DOMAIN entries' : Struck(entries'[x])
  BY <1>1, <1>2 DEF DefectInv
<1>6. ASSUME NEW d \in Clients PROVE Loaded(request'[d], entries')
  <2>1. CASE d = c
    BY <1>1, <1>3, <2>1 DEF Loaded
  <2>2. CASE d # c
    <3>1. request'[d] = request[d] /\ Loaded(request[d], entries)
      BY <1>1, <2>2 DEF DefectInv
    <3>2. SUFFICES ASSUME request[d].kind = "occurrence"
                   PROVE  request[d].count > 0
                       /\ request[d].count <= entries'[request[d].entry].seen
      BY <3>1 DEF Loaded
    <3>3. /\ request[d].entry \in 1 .. n /\ request[d].count > 0
          /\ request[d].count <= entries[request[d].entry].seen
          /\ request[d].count \in Nat
      BY <1>1, <3>1, <3>2 DEF Loaded, RequestRec
    <3>4. entries[request[d].entry].seen \in Nat /\ e.seen \in Nat
      BY <1>1, <3>3 DEF Entry
    <3>5. QED
      BY <1>2, <3>3, <3>4
  <2>3. QED
    BY <2>1, <2>2
<1>7. QED
  BY <1>4, <1>5, <1>6 DEF DefectInv

\* A stale count is still that of a defect seen once, and is one more when written.
LEMMA OccurrenceStep ==
    ASSUME DefectInv, NEW c \in Clients, record_occurrence(c)
    PROVE  DefectInv'
<1> DEFINE k == request[c].entry
           e == [entries[k] EXCEPT !.occurrence_count = request[c].count + 1, !.seen = @ + 1]
<1>1. /\ k \in DOMAIN entries /\ entries[k] \in Entry /\ entries \in Seq(Entry)
      /\ request[c].count \in Nat /\ request[c].kind = "occurrence"
      /\ UNCHANGED <<runs, served>> /\ request' = [request EXCEPT ![c] = NoRequest]
  BY DefectTypes DEF record_occurrence, DefectInv, RequestRec
<1>2. request[c].count > 0 /\ request[c].count <= entries[k].seen /\ entries[k].seen \in Nat
  BY <1>1 DEF DefectInv, Loaded, Entry
<1>3. entries' = [entries EXCEPT ![k] = e]
  BY <1>1 DEF record_occurrence, Entry
<1>4. /\ e \in Entry /\ e.occurrence_count = request[c].count + 1
      /\ e.seen = entries[k].seen + 1
  <2>1. request[c].count + 1 \in Nat /\ entries[k].seen + 1 \in Nat
    BY <1>1, <1>2
  <2>2. entries[k] \in [shape: Shapes, status: DefectStatus, occurrence_count: Nat, seen: Nat]
    BY <1>1 DEF Entry
  <2>3. QED
    BY <2>1, <2>2 DEF Entry
<1>5. Struck(e) /\ e.seen >= entries[k].seen
  BY <1>1, <1>2, <1>4 DEF Struck
<1>6. QED
  BY <1>1, <1>3, <1>4, <1>5, WriteRowStep

LEMMA UpdateStep ==
    ASSUME DefectInv, NEW c \in Clients, NEW status \in Statuses, update_status(c, status)
    PROVE  DefectInv'
<1> DEFINE k == request[c].entry
           e == [entries[k] EXCEPT !.status = status]
<1>1. /\ k \in DOMAIN entries /\ entries[k] \in Entry /\ entries \in Seq(Entry)
      /\ request[c].kind = "update" /\ Struck(entries[k])
      /\ UNCHANGED <<runs, served>> /\ request' = [request EXCEPT ![c] = NoRequest]
  BY DefectTypes DEF update_status, DefectInv
<1>2. /\ e \in Entry /\ e.occurrence_count = entries[k].occurrence_count
      /\ e.seen = entries[k].seen
  BY <1>1, DefectAssumption DEF Entry
<1>3. Struck(e) /\ e.seen >= entries[k].seen /\ entries[k].seen >= entries[k].seen
  BY <1>1, <1>2 DEF Struck, Entry
<1>4. CASE entries' = [entries EXCEPT ![k] = e]
  BY <1>1, <1>2, <1>3, <1>4, WriteRowStep
<1>5. CASE entries' = entries
  <2>1. entries' = [entries EXCEPT ![k] = entries[k]]
    BY <1>1, <1>5
  <2>2. QED
    BY <1>1, <1>3, <2>1, WriteRowStep
<1>6. QED
  BY <1>4, <1>5 DEF update_status

LEMMA DefectStep == DefectInv /\ [DefectNext]_defectVars => DefectInv'
<1> SUFFICES ASSUME DefectInv, [DefectNext]_defectVars PROVE DefectInv'
  OBVIOUS
<1>1. CASE UNCHANGED defectVars
  BY <1>1 DEF defectVars, DefectInv, DefectTypeOK, Struck, Loaded
<1>2. ASSUME NEW shape \in Shapes, create_defect(shape) PROVE DefectInv'
  BY <1>2, CreateDefectStep
<1>3. ASSUME NEW c \in Clients, NEW shape \in Shapes, get_by_shape_key(c, shape)
      PROVE  DefectInv'
  <2>1. PICK x \in DOMAIN entries : request' = [request EXCEPT ![c] =
            [NoRequest EXCEPT !.kind = "occurrence", !.entry = x,
                              !.count = entries[x].occurrence_count]]
    BY <1>3 DEF get_by_shape_key
  <2> DEFINE r == [NoRequest EXCEPT !.kind = "occurrence", !.entry = x,
                                    !.count = entries[x].occurrence_count]
  <2>2. entries[x] \in Entry /\ Struck(entries[x]) /\ x \in 0 .. Len(entries)
    BY DefectTypes DEF DefectInv
  <2>3. r \in RequestRec(Len(entries)) /\ r.entry = x /\ Loaded(r, entries)
    BY <2>2 DEF NoRequest, RequestRec, DefectStatus, Entry, Loaded, Struck
  <2>4. QED
    BY <1>3, <2>1, <2>3, LoadStep DEF get_by_shape_key
<1>4. ASSUME NEW c \in Clients, NEW x \in DOMAIN entries, valid_defect_log_entry(c, x)
      PROVE  DefectInv'
  <2> DEFINE r == [NoRequest EXCEPT !.kind = "update", !.entry = x,
                                    !.status = entries[x].status]
  <2>1. entries[x] \in Entry /\ x \in 0 .. Len(entries)
    BY DefectTypes DEF DefectInv
  <2>2. r \in RequestRec(Len(entries)) /\ r.entry = x /\ Loaded(r, entries)
    BY <2>1 DEF NoRequest, RequestRec, Entry, Loaded
  <2>3. QED
    BY <1>4, <2>2, LoadStep DEF valid_defect_log_entry
<1>5. ASSUME NEW run \in JourneyRun, record_journey_run(run) PROVE DefectInv'
  <2>1. /\ runs' = Append(runs, run) /\ UNCHANGED <<entries, request>>
        /\ served' \in 0 .. MaxServed /\ runs \in Seq(JourneyRun)
    BY <1>5, DefectAssumption DEF record_journey_run, Serve, DefectInv, DefectTypeOK
  <2>2. runs' \in Seq(JourneyRun)
    BY <2>1, AppendProperties
  <2>3. QED
    BY <2>1, <2>2 DEF DefectInv, DefectTypeOK
<1>6. QED
  BY <1>1, <1>2, <1>3, <1>4, <1>5, OccurrenceStep, UpdateStep DEF DefectNext

LEMMA DefectGives == DefectInv => SecondStrikeBlocks
<1> SUFFICES ASSUME DefectInv PROVE SecondStrikeBlocks
  OBVIOUS
<1> DEFINE required == {x \in DOMAIN entries : compilation_required(entries[x])}
<1>1. /\ \A x \in DOMAIN entries : entries[x] \in Entry /\ Struck(entries[x])
      /\ DOMAIN entries = 1 .. Len(entries) /\ Len(entries) \in Nat
  BY DefectTypes DEF DefectInv
<1>2. \A x \in DOMAIN entries : compilation_required(entries[x]) <=>
        ~(entries[x].status = "COMPILED" \/ entries[x].seen < 2)
  BY <1>1 DEF Struck, Entry, compilation_required
<1>3. \A e \in Range(entries) :
        /\ e.occurrence_count <= e.seen
        /\ e.seen >= 2 /\ e.status # "COMPILED" => compilation_required(e)
  BY <1>1 DEF Range, Struck, Entry, compilation_required
<1>4. Cardinality(required) = 0 <=> required = {}
  <2>1. IsFiniteSet(1 .. Len(entries))
    BY <1>1, FS_Interval
  <2>2. IsFiniteSet(required)
    BY <1>1, <2>1, FS_Subset
  <2>3. QED
    BY <2>2, FS_EmptySet
<1>5. required = {} <=> \A e \in Range(entries) : e.status = "COMPILED" \/ e.seen < 2
  BY <1>2 DEF Range
<1>6. governance_summary.compilation_required_count = Cardinality(required)
  BY DEF governance_summary
<1>7. QED
  BY <1>3, <1>4, <1>5, <1>6 DEF SecondStrikeBlocks

\* get_by_shape_key and record_occurrence read, increment and write a count without a
\* lock: still no row claims too many occurrences, and a defect seen twice blocks the
\* two-strike gate until it is compiled.
THEOREM StrikesAreCounted == DefectSpec => [](DefectTypeOK /\ SecondStrikeBlocks)
BY DefectInitStep, DefectStep, DefectGives, PTL DEF DefectSpec, DefectInv

---------------------------------------------------------------------------
(* The governance figures.                                                 *)

\* What the last n of the runs, from the newest, leave of each journey.
RunsKept == UNION {[some -> JourneyRun] : some \in SUBSET Journeys}

LEMMA KeepType ==
    ASSUME NEW kept \in RunsKept, NEW run \in JourneyRun
    PROVE  Keep(kept, run) \in RunsKept
<1>1. PICK some \in SUBSET Journeys : kept \in [some -> JourneyRun]
  BY DEF RunsKept
<1>2. run.journey \in Journeys
  BY DEF JourneyRun
<1>. DEFINE more == [j \in some \union {run.journey} |->
                        IF j = run.journey THEN run ELSE kept[j]]
<1>3. more \in [some \union {run.journey} -> JourneyRun]
      /\ some \union {run.journey} \in SUBSET Journeys
  BY <1>1, <1>2
<1>4. Keep(kept, run) = kept \/ Keep(kept, run) = more
  BY <1>1 DEF Keep
<1>. HIDE DEF more
<1>5. more \in RunsKept
  BY <1>3 DEF RunsKept
<1>. QED  BY <1>4, <1>5

LEMMA KeptDef ==
    ASSUME runs \in Seq(JourneyRun)
    PROVE  \A n \in 0 .. Len(runs) :
              /\ Kept[n] \in RunsKept
              /\ Kept[n] = IF n = 0 THEN <<>>
                           ELSE Keep(Kept[n - 1], runs[Len(runs) - n + 1])
<1>. DEFINE N == Len(runs)
            Values(f) == f = [n \in 0 .. N |-> IF n = 0 THEN <<>>
                                               ELSE Keep(f[n - 1], runs[N - n + 1])]
            round == [p \in (1 .. N) \X RunsKept |-> Keep(p[2], runs[N - p[1] + 1])]
<1>1. Kept = CHOOSE f : Values(f)
  BY DEF Kept
<1>2. N \in Nat /\ \A n \in 1 .. N : N - n + 1 \in 1 .. N /\ runs[N - n + 1] \in JourneyRun
  <2>1. N \in Nat
    BY LenProperties
  <2>2. \A n \in 1 .. N : N - n + 1 \in 1 .. N
    BY <2>1
  <2>. QED  BY <2>1, <2>2, ElementOfSeq
<1>3. round \in [(1 .. N) \X RunsKept -> RunsKept]
  BY <1>2, KeepType
<1>4. <<>> \in RunsKept
  <2>1. <<>> \in [{} -> JourneyRun] /\ {} \in SUBSET Journeys
    OBVIOUS
  <2>. QED  BY <2>1 DEF RunsKept
<1>5. PICK f \in [0 .. N -> RunsKept] : Rounds(f, N, <<>>, round)
  <2>. HIDE DEF N, round
  <2>. QED  BY <1>2, <1>3, <1>4, LoopExists
<1>6. Values(f)
  <2>1. ASSUME NEW n \in 0 .. N
        PROVE  f[n] = IF n = 0 THEN <<>> ELSE Keep(f[n - 1], runs[N - n + 1])
    <3>1. CASE n = 0
      BY <1>5, <3>1 DEF Rounds
    <3>2. CASE n # 0
      <4>1. n \in 1 .. N /\ n - 1 \in 0 .. N
        BY <1>2, <3>2
      <4>2. round[<<n, f[n - 1]>>] = Keep(f[n - 1], runs[N - n + 1])
        BY <4>1
      <4>3. f[n] = round[<<n, f[n - 1]>>]
        BY <1>5, <4>1 DEF Rounds
      <4>. QED  BY <3>2, <4>2, <4>3
    <3>. QED  BY <3>1, <3>2
  <2>. QED  BY <2>1
<1>7. Values(Kept)
  <2>. HIDE DEF Values
  <2>. QED  BY <1>1, <1>6
<1>. HIDE DEF N
<1>8. \A n \in 0 .. N : Kept[n] = IF n = 0 THEN <<>>
                                  ELSE Keep(Kept[n - 1], runs[N - n + 1])
  BY <1>7
<1>. DEFINE S == {n \in 0 .. N : Kept[n] \in RunsKept}
<1>9. 0 \in S
  <2>1. 0 \in 0 .. N
    BY <1>2
  <2>. QED  BY <1>4, <1>8, <2>1
<1>10. ASSUME NEW n \in 1 .. N, n - 1 \in S
       PROVE  n \in S
  <2>1. n \in 0 .. N /\ n # 0 /\ n \in 1 .. N
    BY <1>2
  <2>2. Kept[n] = Keep(Kept[n - 1], runs[N - n + 1])
    BY <1>8, <2>1
  <2>. QED  BY <1>2, <1>10, <2>1, <2>2, KeepType
<1>. HIDE DEF S
<1>11. 0 .. N \subseteq S
  BY <1>2, <1>9, <1>10, LoopInvariant
<1>. QED  BY <1>8, <1>11 DEF N, S

\* The run that decides about a journey: its last cooperative one.
Decides(j, i) ==
    /\ runs[i].journey = j /\ ~ runs[i].adversarial
    /\ \A m \in i + 1 .. Len(runs) : runs[m].journey = j => runs[m].adversarial

\* What is kept of the runs from the low-th on.
Latest(kept, low) ==
    /\ \A j \in DOMAIN kept : \E i \in low .. Len(runs) : Decides(j, i) /\ kept[j] = runs[i]
    /\ \A i \in low .. Len(runs) : ~ runs[i].adversarial => runs[i].journey \in DOMAIN kept

LEMMA KeepLatest ==
    ASSUME runs \in Seq(JourneyRun), NEW low \in 1 .. Len(runs), NEW kept,
           Latest(kept, low + 1)
    PROVE  Latest(Keep(kept, runs[low]), low)
<1>. DEFINE N == Len(runs)
            run == runs[low]
            more == [j \in DOMAIN kept \union {run.journey} |->
                        IF j = run.journey THEN run ELSE kept[j]]
<1>1. N \in Nat /\ low \in Nat /\ low <= N
  BY LenProperties
<1>2. (low .. N) = {low} \union (low + 1 .. N)
  BY <1>1
<1>3. /\ \A j \in DOMAIN kept : \E i \in low + 1 .. N : Decides(j, i) /\ kept[j] = runs[i]
      /\ \A i \in low + 1 .. N : ~ runs[i].adversarial => runs[i].journey \in DOMAIN kept
  BY DEF Latest
<1>. HIDE DEF N
<1>4. CASE run.adversarial \/ run.journey \in DOMAIN kept
  <2>1. Keep(kept, run) = kept
    BY <1>4 DEF Keep
  <2>2. \A i \in low .. N : ~ runs[i].adversarial => runs[i].journey \in DOMAIN kept
    BY <1>2, <1>3, <1>4
  <2>3. \A j \in DOMAIN kept : \E i \in low .. N : Decides(j, i) /\ kept[j] = runs[i]
    BY <1>2, <1>3
  <2>. QED  BY <2>1, <2>2, <2>3 DEF Latest, N
<1>5. CASE ~ (run.adversarial \/ run.journey \in DOMAIN kept)
  <2>1. Keep(kept, run) = more
    BY <1>5 DEF Keep
  <2>2. Decides(run.journey, low)
    <3>1. \A m \in low + 1 .. N : runs[m].journey = run.journey => runs[m].adversarial
      BY <1>3, <1>5
    <3>. QED  BY <1>5, <3>1 DEF Decides, N
  <2>3. DOMAIN more = DOMAIN kept \union {run.journey} /\ more[run.journey] = run
        /\ \A j \in DOMAIN kept : more[j] = kept[j]
    BY <1>5
  <2>. HIDE DEF more
  <2>4. low \in low .. N /\ \A i \in low + 1 .. N : i \in low .. N
    BY <1>2
  <2>5. ASSUME NEW j \in DOMAIN more
        PROVE  \E i \in low .. N : Decides(j, i) /\ more[j] = runs[i]
    <3>1. CASE j = run.journey
      BY <2>2, <2>3, <2>4, <3>1
    <3>2. CASE j \in DOMAIN kept
      BY <1>3, <2>3, <2>4, <3>2
    <3>. QED  BY <2>3, <3>1, <3>2
  <2>6. \A i \in low .. N : ~ runs[i].adversarial => runs[i].journey \in DOMAIN more
    BY <1>2, <1>3, <2>3
  <2>. QED  BY <2>1, <2>5, <2>6 DEF Latest, N
<1>. QED  BY <1>4, <1>5

LEMMA LatestIsKept ==
    ASSUME runs \in Seq(JourneyRun)
    PROVE  Latest(latest_by_journey, 1) /\ latest_by_journey \in RunsKept
<1>. DEFINE N == Len(runs)
            S == {n \in 0 .. N : Latest(Kept[n], N - n + 1)}
<1>1. N \in Nat
  BY LenProperties
<1>2. 0 \in S
  <2>1. 0 \in 0 .. N
    BY <1>1
  <2>2. Kept[0] = <<>> /\ DOMAIN <<>> = {}
    BY <2>1, KeptDef
  <2>3. N + 1 .. N = {} /\ N - 0 + 1 = N + 1
    BY <1>1
  <2>4. Latest(Kept[0], N + 1)
    BY <2>2, <2>3 DEF Latest
  <2>. QED  BY <2>1, <2>3, <2>4
<1>3. ASSUME NEW n \in 1 .. N, n - 1 \in S
      PROVE  n \in S
  <2>. DEFINE low == N - n + 1
  <2>1. n \in 0 .. N /\ n # 0 /\ low \in 1 .. N /\ N - (n - 1) + 1 = low + 1
    BY <1>1
  <2>2. Kept[n] = Keep(Kept[n - 1], runs[low])
    BY <2>1, KeptDef
  <2>3. Latest(Kept[n - 1], low + 1)
    BY <1>3, <2>1
  <2>. HIDE DEF low
  <2>4. Latest(Kept[n], low)
    BY <2>1, <2>2, <2>3, KeepLatest
  <2>. QED  BY <2>1, <2>4 DEF low
<1>. HIDE DEF S, N
<1>4. 0 .. N \subseteq S
  BY <1>1, <1>2, <1>3, LoopInvariant
<1>5. N \in 0 .. N /\ N - N + 1 = 1
  BY <1>1
<1>6. Latest(Kept[N], N - N + 1)
  BY <1>4, <1>5 DEF S
<1>. QED  BY <1>5, <1>6, KeptDef DEF latest_by_journey, N

LEMMA LatestDecides == runs \in Seq(JourneyRun) => LatestRunsDecide
<1>. SUFFICES ASSUME runs \in Seq(JourneyRun) PROVE LatestRunsDecide
  OBVIOUS
<1>. DEFINE N == Len(runs)
            L == latest_by_journey
            Passed(j, n) == runs[n] = [journey |-> j, adversarial |-> FALSE, passed |-> TRUE]
            passing == {j \in Journeys : \E n \in DOMAIN runs :
                           /\ Passed(j, n)
                           /\ \A m \in n + 1 .. N : runs[m].journey = j => runs[m].adversarial}
            shown == {j \in DOMAIN L : L[j].passed}
<1>1. N \in Nat /\ DOMAIN runs = 1 .. N /\ \A i \in 1 .. N : runs[i] \in JourneyRun
  BY LenProperties, ElementOfSeq
<1>2. Latest(L, 1) /\ DOMAIN L \subseteq Journeys
  BY LatestIsKept DEF RunsKept
<1>. HIDE DEF N, L
<1>3. /\ \A j \in DOMAIN L : \E i \in 1 .. N : Decides(j, i) /\ L[j] = runs[i]
      /\ \A i \in 1 .. N : ~ runs[i].adversarial => runs[i].journey \in DOMAIN L
  BY <1>2 DEF Latest, N
<1>4. ASSUME NEW j, NEW i \in 1 .. N, NEW n \in 1 .. N, Decides(j, i), Decides(j, n)
      PROVE  i = n
  <2>1. ~ (i < n) /\ ~ (n < i)
    <3>1. i < n => n \in i + 1 .. N
      BY <1>1
    <3>2. n < i => i \in n + 1 .. N
      BY <1>1
    <3>. QED  BY <1>4, <3>1, <3>2 DEF Decides, N
  <2>. QED  BY <1>1, <2>1
<1>5. \A j \in Journeys, n \in 1 .. N :
         /\ Passed(j, n)
         /\ \A m \in n + 1 .. N : runs[m].journey = j => runs[m].adversarial
         <=> Decides(j, n) /\ runs[n].passed
  <2>1. TAKE j \in Journeys, n \in 1 .. N
  <2>2. Passed(j, n) <=> runs[n].journey = j /\ ~ runs[n].adversarial /\ runs[n].passed
    BY <1>1 DEF JourneyRun
  <2>. HIDE DEF Passed
  <2>. QED  BY <2>2 DEF Decides, N
<1>6. passing = {j \in Journeys : \E n \in 1 .. N : Decides(j, n) /\ runs[n].passed}
  <2>. HIDE DEF Passed
  <2>. QED  BY <1>1, <1>5
<1>7. passing = shown
  <2>1. ASSUME NEW j \in Journeys, NEW n \in 1 .. N, Decides(j, n), runs[n].passed
        PROVE  j \in shown
    <3>1. j \in DOMAIN L
      BY <1>3, <2>1 DEF Decides
    <3>2. PICK i \in 1 .. N : Decides(j, i) /\ L[j] = runs[i]
      BY <1>3, <3>1
    <3>3. i = n
      BY <1>4, <2>1, <3>2
    <3>. QED  BY <2>1, <3>1, <3>2, <3>3
  <2>2. ASSUME NEW j \in shown
        PROVE  \E n \in 1 .. N : Decides(j, n) /\ runs[n].passed
    BY <1>3, <2>2
  <2>. HIDE DEF passing
  <2>. QED  BY <1>2, <1>6, <2>1, <2>2
<1>8. governance_summary.journeys_passing = Cardinality(shown)
  BY DEF governance_summary, L
<1>. HIDE DEF shown
<1>. QED  BY <1>7, <1>8 DEF LatestRunsDecide, N

\* qa/service.py: what the governance page shows is what the log and the runs bear out,
\* though requests count without a lock and a journey is shown by its last cooperative
\* run only.
THEOREM GovernanceFigures == DefectSpec => []GovernanceIsHonest
<1>1. DefectInv => GovernanceIsHonest
  BY DefectGives, LatestDecides DEF DefectInv, DefectTypeOK, GovernanceIsHonest
<1>. QED  BY <1>1, DefectInitStep, DefectStep, PTL DEF DefectSpec

---------------------------------------------------------------------------
(* The reports.                                                            *)

\* The rows on file a figure counts.
Counted(file, name) == {i \in DOMAIN file : Where(Figures[name], file[i])}
Tally(file, name) == Cardinality(Counted(file, name))

\* What a call's row says is in order: each stage after the one before it, at most one
\* outcome, and a final sentiment only of a call that has one.
Staged(facts) ==
    /\ "verified" \in facts => "right_party" \in facts
    /\ "right_party" \in facts => "reached" \in facts
    /\ "delivered" \in facts => "verified" \in facts
    /\ "resolved" \in facts => "verified" \in facts
    /\ "SUCCESS_STATUS_AND_QUERY_RESOLVED" \in facts => "verified" \in facts
    /\ "final" \in facts => "mood" \in facts
    /\ \A c, d \in facts \intersect Codes : c = d

InOrder(file) ==
    \A i \in DOMAIN file : file[i].table = "call_attempt" => Staged(file[i].facts)

\* A figure read is at most what it is now, and has grown by one commit at a time.
Bracketed ==
    \A i \in DOMAIN report.read : \A name \in DOMAIN report.read[i] :
        /\ report.read[i][name] \in Nat
        /\ report.read[i][name] <= Tally(rows, name)
        /\ Tally(rows, name) <= report.read[i][name] + writes

Readings(statements) == UNION {[statements[n] -> Nat] : n \in Nat}

ReportShape ==
    /\ report = [statements |-> report.statements, read |-> report.read]
    /\ report.read \in Seq(Readings(report.statements))

ReportInv == ReportTypeOK /\ ReportShape /\ InOrder(rows) /\ Bracketed /\ PartsAgree

LEMMA CallRowIsStaged ==
    ASSUME NEW facts, CallRow(facts)
    PROVE  Staged(facts)
<1>1. PICK outcome \in SUBSET facts : (outcome = {} \/ Outcome(outcome))
                                    /\ facts \subseteq outcome \union Sentiments
  BY DEF CallRow
<1>2. Sentiments \intersect Codes = {} /\ \A fact \in {"verified", "right_party", "reached",
        "delivered", "resolved", "SUCCESS_STATUS_AND_QUERY_RESOLVED"} : fact \notin Sentiments
  BY DEF Sentiments, Codes
<1>3. facts \intersect Codes = outcome \intersect Codes
  BY <1>1, <1>2
<1>4. \A c, d \in facts \intersect Codes : c = d
  BY <1>1, <1>3 DEF Outcome
<1>5. \A fact \in {"verified", "right_party", "reached", "delivered", "resolved",
                   "SUCCESS_STATUS_AND_QUERY_RESOLVED"} : fact \in facts <=> fact \in outcome
  BY <1>1, <1>2
<1>6. QED
  BY <1>1, <1>4, <1>5 DEF Staged, Outcome, CallRow

\* Stages are added in order, and one outcome.
LEMMA OutcomeKeepsStages ==
    ASSUME NEW facts, NEW more, Staged(facts), Outcome(more), facts \intersect Codes = {}
    PROVE  Staged(facts \union more)
<1>1. (facts \union more) \intersect Codes = more \intersect Codes
  OBVIOUS
<1>2. PICK code : more \intersect Codes = {code}
  BY DEF Outcome
<1>3. \A c, d \in (facts \union more) \intersect Codes : c = d
  BY <1>1, <1>2
<1>4. "final" \notin more
  BY DEF Outcome, Sentiments
<1>5. QED
  BY <1>3, <1>4 DEF Staged, Outcome

LEMMA MoodKeepsStages ==
    ASSUME NEW facts, NEW more \in SUBSET Sentiments, Staged(facts),
           "final" \in more => "mood" \in facts
    PROVE  Staged(facts \union more)
<1>1. (facts \union more) \intersect Codes = facts \intersect Codes
  BY DEF Sentiments, Codes
<1>2. \A fact \in {"verified", "right_party", "reached", "delivered", "resolved",
                   "SUCCESS_STATUS_AND_QUERY_RESOLVED"} :
        fact \in facts \union more <=> fact \in facts
  BY DEF Sentiments
<1>3. QED
  BY <1>1, <1>2 DEF Staged

LEMMA TallyIsNat ==
    ASSUME NEW file \in Seq(Row), NEW name
    PROVE  IsFiniteSet(Counted(file, name)) /\ Tally(file, name) \in Nat
<1>1. DOMAIN file = 1 .. Len(file) /\ Len(file) \in Nat
  OBVIOUS
<1>2. IsFiniteSet(1 .. Len(file)) /\ Counted(file, name) \subseteq 1 .. Len(file)
  BY <1>1, FS_Interval DEF Counted
<1>3. IsFiniteSet(Counted(file, name))
  BY <1>2, FS_Subset
<1>4. QED
  BY <1>3, FS_CardinalityType DEF Tally

\* One commit changes or adds one row, and takes nothing back.
LEMMA OneCommit ==
    ASSUME NEW old \in Seq(Row), NEW new \in Seq(Row), NEW k, NEW name,
           DOMAIN old \subseteq DOMAIN new, DOMAIN new \subseteq DOMAIN old \union {k},
           \A i \in DOMAIN old : i # k => new[i] = old[i],
           k \in DOMAIN old => new[k].table = old[k].table /\ old[k].facts \subseteq new[k].facts
    PROVE  Tally(old, name) <= Tally(new, name) /\ Tally(new, name) <= Tally(old, name) + 1
<1>1. Counted(old, name) \subseteq Counted(new, name)
  BY DEF Counted, Where
<1>2. Counted(new, name) \subseteq Counted(old, name) \union {k}
  BY DEF Counted
<1>3. /\ IsFiniteSet(Counted(old, name)) /\ IsFiniteSet(Counted(new, name))
      /\ Tally(old, name) \in Nat /\ Tally(new, name) \in Nat
  BY TallyIsNat
<1>4. Tally(old, name) <= Tally(new, name)
  BY <1>1, <1>3, FS_Subset DEF Tally
<1>5. /\ IsFiniteSet(Counted(old, name) \union {k})
      /\ Cardinality(Counted(old, name) \union {k}) \in Nat
      /\ Cardinality(Counted(old, name) \union {k}) <= Tally(old, name) + 1
  <2>1. /\ IsFiniteSet(Counted(old, name) \union {k})
        /\ Cardinality(Counted(old, name) \union {k}) \in {Tally(old, name), Tally(old, name) + 1}
    BY <1>3, FS_AddElement DEF Tally
  <2>2. QED
    BY <1>3, <2>1
<1>6. Tally(new, name) <= Cardinality(Counted(old, name) \union {k})
  BY <1>2, <1>5, FS_Subset DEF Tally
<1>7. QED
  BY <1>3, <1>4, <1>5, <1>6

\* A row that a part counts, its whole counts too.
LEMMA PartOfWhole ==
    ASSUME NEW row \in Row, row.table = "call_attempt" => Staged(row.facts),
           NEW p \in Parts, Where(Figures[p[1]], row)
    PROVE  Where(Figures[p[2]], row)
<1>1. Figures["total_attempts"] = [table |-> "call_attempt", all |-> {}, any |-> {}]
  BY DEF Figures, Calls, Select
<1>2. /\ Figures["customer_reached"] = [table |-> "call_attempt", all |-> {"reached"}, any |-> {}]
      /\ Figures["right_party"] = [table |-> "call_attempt", all |-> {"right_party"}, any |-> {}]
      /\ Figures["verified"] = [table |-> "call_attempt", all |-> {"verified"}, any |-> {}]
  BY DEF Figures, Calls, Select
<1>3. /\ Figures["statuses_delivered"]
            = [table |-> "call_attempt", all |-> {"delivered"}, any |-> {}]
      /\ Figures["ai_contained"] = [table |-> "call_attempt", all |-> {"resolved"}, any |-> {}]
      /\ Figures["questions"].table = "call_attempt" /\ "delivered" \in Figures["questions"].all
      /\ Figures["status_escalations"].table = "call_attempt"
      /\ "delivered" \in Figures["status_escalations"].all
  BY DEF Figures, Calls, Select
<1>4. \A name \in {"customer_reached", "no_answer", "dropped", "dtmf_fallback",
                   "silent_call_failures", "dissatisfied_calls"} :
        Figures[name].table = "call_attempt"
  BY DEF Figures, Calls, Select
<1>5. /\ Figures["actions_created"] = [table |-> "claim_action", all |-> {}, any |-> {}]
      /\ Figures["referrals"]
            = [table |-> "claim_action", all |-> {}, any |-> _REFERRAL_ACTION_CODES]
      /\ Figures["fraud_referrals"]
            = [table |-> "claim_action", all |-> {"FRAUD_SIU_REVIEW_REQUEST"}, any |-> {}]
  BY DEF Figures, All, Select
<1>6. /\ Figures["final_breakdown"] = [table |-> "call_attempt", all |-> {"final"}, any |-> {}]
      /\ Figures["initial_breakdown"] = [table |-> "call_attempt", all |-> {"mood"}, any |-> {}]
  BY DEF Figures, Calls, Select
<1>7. CASE p[1] = p[2]
  BY <1>7
<1>8. CASE p[2] = "total_attempts" /\ p[1] \in {"customer_reached", "no_answer", "dropped",
            "dtmf_fallback", "silent_call_failures", "dissatisfied_calls"}
  BY <1>1, <1>4, <1>8 DEF Where
<1>9. CASE \/ p[1] = "right_party" /\ p[2] = "customer_reached"
           \/ p[1] = "verified" /\ p[2] = "right_party"
  BY <1>2, <1>9 DEF Where, Staged
<1>10. CASE \/ p[1] = "statuses_delivered" /\ p[2] = "verified"
            \/ p[1] = "ai_contained" /\ p[2] = "verified"
  BY <1>2, <1>3, <1>10 DEF Where, Staged
<1>11. CASE p[1] \in {"questions", "status_escalations"} /\ p[2] = "statuses_delivered"
  BY <1>3, <1>11 DEF Where
<1>12. CASE \/ p[1] = "fraud_referrals" /\ p[2] = "referrals"
            \/ p[1] = "referrals" /\ p[2] = "actions_created"
  BY <1>5, <1>12 DEF Where, _REFERRAL_ACTION_CODES
<1>13. CASE p[1] = "final_breakdown" /\ p[2] = "initial_breakdown"
  <2>1. "final" \in row.facts /\ row.table = "call_attempt"
    BY <1>6, <1>13 DEF Where
  <2>2. "mood" \in row.facts
    BY <2>1 DEF Staged
  <2>3. QED
    BY <1>6, <1>13, <2>1, <2>2 DEF Where
<1>14. QED
  <2>1. \/ p \in {<<name, name>> : name \in DOMAIN Figures}
        \/ p \in {<<"customer_reached", "total_attempts">>, <<"no_answer", "total_attempts">>,
                  <<"dropped", "total_attempts">>, <<"dtmf_fallback", "total_attempts">>,
                  <<"silent_call_failures", "total_attempts">>,
                  <<"dissatisfied_calls", "total_attempts">>}
        \/ p \in {<<"right_party", "customer_reached">>, <<"verified", "right_party">>,
                  <<"statuses_delivered", "verified">>, <<"ai_contained", "verified">>}
        \/ p \in {<<"questions", "statuses_delivered">>,
                  <<"status_escalations", "statuses_delivered">>,
                  <<"fraud_referrals", "referrals">>, <<"referrals", "actions_created">>,
                  <<"final_breakdown", "initial_breakdown">>}
    BY DEF Parts
  <2>2. QED
    BY <1>7, <1>8, <1>9, <1>10, <1>11, <1>12, <1>13, <2>1

LEMMA PartIsLess ==
    ASSUME NEW file \in Seq(Row), InOrder(file), NEW p \in Parts
    PROVE  Tally(file, p[1]) <= Tally(file, p[2])
<1>1. Counted(file, p[1]) \subseteq Counted(file, p[2])
  BY PartOfWhole DEF Counted, InOrder
<1>2. QED
  BY <1>1, TallyIsNat, FS_Subset DEF Tally

LEMMA ReportInitStep == ReportInit => ReportInv
<1> SUFFICES ASSUME ReportInit PROVE ReportInv
  OBVIOUS
<1>1. /\ rows = InitialRows /\ rows \in Seq(Row) /\ writes = 0 /\ writes \in 0 .. MaxWrites
      /\ report.statements \in Reports /\ report.read = <<>> /\ Len(report.read) = 0
      /\ report = [statements |-> report.statements, read |-> report.read]
      /\ DOMAIN report.read = {}
  BY RowsAssumption DEF ReportInit
<1>2. \A s \in Reports : Len(s) \in Nat
  BY DEF Reports, get_operations_overview, get_outcome_funnel, get_no_answer_analytics,
         get_status_analytics, get_customer_experience, get_escalation_analytics, OneEach
<1>3. ReportTypeOK
  BY <1>1, <1>2 DEF ReportTypeOK
<1>4. ReportShape
  BY <1>1 DEF ReportShape
<1>5. InOrder(rows)
  BY <1>1, RowsAssumption, CallRowIsStaged DEF InOrder
<1>6. Bracketed /\ PartsAgree
  BY <1>1 DEF Bracketed, PartsAgree, ReadAt
<1>7. QED
  BY <1>3, <1>4, <1>5, <1>6 DEF ReportInv

\* A statement counts what is committed now.
LEMMA ExecuteStep == ASSUME ReportInv, Execute PROVE ReportInv'
<1> DEFINE read == report.read
           n == Len(read) + 1
           result == [name \in report.statements[n] |-> Tally(rows, name)]
<1>1. /\ rows \in Seq(Row) /\ InOrder(rows)
      /\ read \in Seq(Readings(report.statements)) /\ Len(read) \in Nat
      /\ DOMAIN read = 1 .. Len(read)
  BY DEF ReportInv, ReportTypeOK, ReportShape
<1>2. /\ n <= Len(report.statements)
      /\ report' = [report EXCEPT !.read = Append(@, result)]
      /\ UNCHANGED <<rows, writes>>
  BY DEF Execute, Tally, Counted
<1>3. report' = [statements |-> report.statements, read |-> Append(read, result)]
  BY <1>2 DEF ReportInv, ReportShape
<1>4. result \in [report.statements[n] -> Nat]
  BY <1>1, TallyIsNat
<1>5. result \in Readings(report.statements)
  <2>1. n \in Nat
    BY <1>1
  <2>2. result \in [report.statements[n] -> Nat]
    BY <1>4
  <2> HIDE DEF result, n
  <2>3. QED
    BY <2>1, <2>2 DEF Readings
<1>6. /\ report'.read \in Seq(Readings(report.statements)) /\ Len(report'.read) = n
      /\ DOMAIN report'.read = 1 .. n
      /\ \A i \in 1 .. Len(read) : report'.read[i] = read[i]
      /\ report'.read[n] = result
      /\ \A i \in 1 .. n : i \in 1 .. Len(read) \/ i = n
  BY <1>1, <1>3, <1>5, AppendProperties
<1>7. ReportTypeOK'
  <2>1. \A i \in DOMAIN report'.read : report'.read[i] \in [report'.statements[i] -> Nat]
    BY <1>1, <1>3, <1>4, <1>6 DEF ReportInv, ReportTypeOK
  <2>2. QED
    BY <1>2, <1>3, <1>6, <2>1 DEF ReportInv, ReportTypeOK
<1>8. ReportShape'
  BY <1>3, <1>6 DEF ReportShape
<1>9. Bracketed'
  <2>1. \A name \in DOMAIN result : result[name] = Tally(rows, name) /\ result[name] \in Nat
    BY <1>4
  <2>2. writes \in Nat
    BY RowsAssumption DEF ReportInv, ReportTypeOK
  <2>3. \A name \in DOMAIN result : /\ result[name] <= Tally(rows, name)
                                   /\ Tally(rows, name) <= result[name] + writes
    BY <2>1, <2>2
  <2> HIDE DEF result
  <2>4. ASSUME NEW i \in DOMAIN report'.read, NEW name \in DOMAIN report'.read[i]
        PROVE  /\ report'.read[i][name] \in Nat
               /\ report'.read[i][name] <= Tally(rows, name)
               /\ Tally(rows, name) <= report'.read[i][name] + writes
    <3>1. CASE i = n
      BY <1>6, <2>1, <2>3, <2>4, <3>1
    <3>2. CASE i # n
      BY <1>1, <1>6, <2>4, <3>2 DEF ReportInv, Bracketed
    <3>3. QED
      BY <3>1, <3>2
  <2>5. QED
    BY <1>2, <2>4 DEF Bracketed
<1>10. PartsAgree'
  <2> SUFFICES ASSUME NEW p \in Parts, NEW i \in ReadAt(p[1])', NEW j \in ReadAt(p[2])'
               PROVE  report'.read[i][p[1]]
                        <= report'.read[j][p[2]] + (IF j < i THEN writes ELSE 0)
    BY <1>2 DEF PartsAgree
  <2>1. /\ i \in 1 .. n /\ p[1] \in DOMAIN report'.read[i]
        /\ j \in 1 .. n /\ p[2] \in DOMAIN report'.read[j]
    BY <1>6 DEF ReadAt
  <2>2. Tally(rows, p[1]) <= Tally(rows, p[2]) /\ Tally(rows, p[1]) \in Nat
        /\ Tally(rows, p[2]) \in Nat /\ writes \in Nat
    BY <1>1, PartIsLess, TallyIsNat, RowsAssumption DEF ReportInv, ReportTypeOK
  <2>3. /\ report'.read[i][p[1]] \in Nat /\ report'.read[i][p[1]] <= Tally(rows, p[1])
        /\ report'.read[j][p[2]] \in Nat
        /\ Tally(rows, p[2]) <= report'.read[j][p[2]] + writes
    BY <1>2, <1>6, <1>9, <2>1 DEF Bracketed
  <2>4. CASE j < i
    BY <2>2, <2>3, <2>4
  <2>5. CASE ~(j < i) /\ j = n
    <3>1. report'.read[j][p[2]] = Tally(rows, p[2])
      BY <1>4, <1>6, <2>1, <2>5
    <3>2. QED
      BY <2>2, <2>3, <2>5, <3>1
  <2>6. CASE ~(j < i) /\ j # n
    <3>1. i \in 1 .. Len(read) /\ j \in 1 .. Len(read)
      BY <1>1, <2>1, <2>6
    <3>2. i \in ReadAt(p[1]) /\ j \in ReadAt(p[2])
      BY <1>1, <1>6, <2>1, <3>1 DEF ReadAt
    <3>3. read[i][p[1]] <= read[j][p[2]] + (IF j < i THEN writes ELSE 0)
      BY <3>2 DEF ReportInv, PartsAgree
    <3>4. QED
      BY <1>6, <3>1, <3>3
  <2>7. QED
    BY <2>4, <2>5, <2>6
<1>11. QED
  BY <1>1, <1>2, <1>7, <1>8, <1>9, <1>10 DEF ReportInv

\* A commit moves what the figures count by one at most.
LEMMA CommitRow ==
    ASSUME ReportInv, Write, rows' \in Seq(Row), InOrder(rows'), NEW k,
           DOMAIN rows \subseteq DOMAIN rows', DOMAIN rows' \subseteq DOMAIN rows \union {k},
           \A i \in DOMAIN rows : i # k => rows'[i] = rows[i],
           k \in DOMAIN rows => /\ rows'[k].table = rows[k].table
                               /\ rows[k].facts \subseteq rows'[k].facts
    PROVE  ReportInv'
<1>1. UNCHANGED report /\ writes' = writes + 1 /\ writes \in Nat /\ writes' \in 0 .. MaxWrites
  BY RowsAssumption DEF Write, ReportInv, ReportTypeOK
<1>2. ReportTypeOK' /\ ReportShape'
  BY <1>1 DEF ReportInv, ReportTypeOK, ReportShape
<1>3. rows \in Seq(Row)
  BY DEF ReportInv, ReportTypeOK
<1>4. Bracketed'
  <2> SUFFICES ASSUME NEW i \in DOMAIN report.read, NEW name \in DOMAIN report.read[i]
               PROVE  /\ report.read[i][name] \in Nat
                      /\ report.read[i][name] <= Tally(rows', name)
                      /\ Tally(rows', name) <= report.read[i][name] + writes'
    BY <1>1 DEF Bracketed
  <2>1. /\ Tally(rows, name) <= Tally(rows', name)
        /\ Tally(rows', name) <= Tally(rows, name) + 1
    BY <1>3, OneCommit
  <2>2. Tally(rows, name) \in Nat /\ Tally(rows', name) \in Nat
    BY <1>3, TallyIsNat
  <2>3. /\ report.read[i][name] \in Nat
        /\ report.read[i][name] <= Tally(rows, name)
        /\ Tally(rows, name) <= report.read[i][name] + writes
    BY DEF ReportInv, Bracketed
  <2>4. QED
    BY <1>1, <2>1, <2>2, <2>3
<1>5. PartsAgree'
  <2> SUFFICES ASSUME NEW p \in Parts, NEW i \in ReadAt(p[1]), NEW j \in ReadAt(p[2])
               PROVE  report.read[i][p[1]]
                        <= report.read[j][p[2]] + (IF j < i THEN writes' ELSE 0)
    BY <1>1 DEF PartsAgree, ReadAt
  <2>1. report.read[i][p[1]] <= report.read[j][p[2]] + (IF j < i THEN writes ELSE 0)
    BY DEF ReportInv, PartsAgree
  <2>2. report.read[i][p[1]] \in Nat /\ report.read[j][p[2]] \in Nat
    BY DEF ReportInv, Bracketed, ReadAt
  <2>3. QED
    BY <1>1, <2>1, <2>2
<1>6. QED
  BY <1>2, <1>4, <1>5 DEF ReportInv

LEMMA InsertStep == ASSUME ReportInv, NEW row \in Inserts, Insert(row) PROVE ReportInv'
<1> DEFINE n == Len(rows)
<1>1. /\ rows \in Seq(Row) /\ n \in Nat /\ DOMAIN rows = 1 .. n /\ row \in Row
      /\ rows' = Append(rows, row) /\ Write /\ InOrder(rows)
  BY RowsAssumption DEF Insert, ReportInv, ReportTypeOK
<1>2. /\ rows' \in Seq(Row) /\ Len(rows') = n + 1 /\ DOMAIN rows' = 1 .. n + 1
      /\ \A i \in 1 .. n : rows'[i] = rows[i]
      /\ rows'[n + 1] = row
      /\ 1 .. n + 1 = (1 .. n) \union {n + 1}
  BY <1>1, AppendProperties
<1>3. InOrder(rows')
  <2>1. row.table = "call_attempt" => Staged(row.facts)
    BY RowsAssumption DEF Staged
  <2>2. QED
    BY <1>1, <1>2, <2>1 DEF InOrder
<1>4. n + 1 \notin DOMAIN rows
  BY <1>1
<1>5. QED
  BY <1>1, <1>2, <1>3, <1>4, CommitRow

\* Facts are added to the row of a call.
LEMMA AddFacts ==
    ASSUME ReportInv, Write, NEW k \in DOMAIN rows, NEW more \in SUBSET Facts,
           rows' = [rows EXCEPT ![k].facts = @ \union more],
           rows[k].table = "call_attempt" => Staged(rows[k].facts \union more)
    PROVE  ReportInv'
<1> DEFINE row == [rows[k] EXCEPT !.facts = @ \union more]
<1>1. /\ rows \in Seq(Row) /\ DOMAIN rows = 1 .. Len(rows) /\ rows[k] \in Row
      /\ InOrder(rows)
  BY DEF ReportInv, ReportTypeOK
<1>2. row \in Row /\ row.table = rows[k].table /\ row.facts = rows[k].facts \union more
  BY <1>1 DEF Row
<1>3. rows' = [rows EXCEPT ![k] = row]
  BY <1>1
<1>4. /\ rows' \in Seq(Row) /\ Len(rows') = Len(rows) /\ DOMAIN rows' = DOMAIN rows
      /\ \A i \in DOMAIN rows : rows'[i] = IF i = k THEN row ELSE rows[i]
  BY <1>1, <1>2, <1>3, ExceptSeq
<1>5. InOrder(rows')
  BY <1>1, <1>2, <1>4 DEF InOrder
<1>6. QED
  BY <1>2, <1>4, <1>5, CommitRow

LEMMA ReportStep == ReportInv /\ [ReportNext]_reportVars => ReportInv'
<1> SUFFICES ASSUME ReportInv, [ReportNext]_reportVars PROVE ReportInv'
  OBVIOUS
<1>1. CASE UNCHANGED reportVars
  BY <1>1 DEF reportVars, ReportInv, ReportTypeOK, ReportShape, Bracketed, PartsAgree, ReadAt
<1>2. ASSUME NEW i \in DOMAIN rows, NEW facts \in Outcomes, finalize_outcome(i, facts)
      PROVE  ReportInv'
  <2>1. facts \in SUBSET Facts /\ Outcome(facts)
    BY RowsAssumption
  <2>2. /\ Write /\ rows[i].table = "call_attempt" /\ rows[i].facts \intersect Codes = {}
        /\ rows' = [rows EXCEPT ![i].facts = @ \union facts]
    BY <1>2 DEF finalize_outcome
  <2>3. Staged(rows[i].facts \union facts)
    BY <2>1, <2>2, OutcomeKeepsStages DEF ReportInv, InOrder
  <2>4. QED
    BY <2>1, <2>2, <2>3, AddFacts
<1>3. ASSUME NEW i \in DOMAIN rows, NEW facts \in Moods, record_sentiment_event(i, facts)
      PROVE  ReportInv'
  <2>1. facts \in SUBSET Sentiments /\ facts \in SUBSET Facts
    BY RowsAssumption DEF Sentiments, Facts
  <2>2. /\ Write /\ rows[i].table = "call_attempt"
        /\ "final" \in facts => "mood" \in rows[i].facts
        /\ rows' = [rows EXCEPT ![i].facts = @ \union facts]
    BY <1>3 DEF record_sentiment_event
  <2>3. Staged(rows[i].facts \union facts)
    BY <2>1, <2>2, MoodKeepsStages DEF ReportInv, InOrder
  <2>4. QED
    BY <2>1, <2>2, <2>3, AddFacts
<1>4. QED
  BY <1>1, <1>2, <1>3, ExecuteStep, InsertStep DEF ReportNext

\* The calls on file with one of some outcomes.
Having(file, codes) ==
    {i \in DOMAIN file : file[i].table = "call_attempt" /\ file[i].facts \intersect codes # {}}

\* A call has one outcome, so calls with either of two are counted once.
LEMMA OutcomesAdd ==
    ASSUME NEW file \in Seq(Row), InOrder(file),
           NEW C \in SUBSET Codes, NEW D \in SUBSET Codes, C \intersect D = {}
    PROVE  /\ Cardinality(Having(file, C)) \in Nat
           /\ Cardinality(Having(file, C \union D))
                = Cardinality(Having(file, C)) + Cardinality(Having(file, D))
<1>1. DOMAIN file = 1 .. Len(file) /\ Len(file) \in Nat /\ IsFiniteSet(1 .. Len(file))
  BY FS_Interval
<1>2. \A codes : IsFiniteSet(Having(file, codes))
  BY <1>1, FS_Subset DEF Having
<1>3. \A codes : Cardinality(Having(file, codes)) \in Nat
  BY <1>2, FS_CardinalityType
<1>4. Having(file, C \union D) = Having(file, C) \union Having(file, D)
  BY DEF Having
<1>5. Having(file, C) \intersect Having(file, D) = {}
  BY DEF Having, InOrder, Staged
<1>6. Cardinality(Having(file, C) \intersect Having(file, D)) = 0
  BY <1>5, FS_EmptySet
<1>7. Cardinality(Having(file, C) \union Having(file, D))
        = Cardinality(Having(file, C)) + Cardinality(Having(file, D))
          - Cardinality(Having(file, C) \intersect Having(file, D))
  BY <1>2, FS_Union
<1>8. Cardinality(Having(file, C)) \in Nat /\ Cardinality(Having(file, D)) \in Nat
  BY <1>3
<1>9. Cardinality(Having(file, C)) + Cardinality(Having(file, D)) - 0
        = Cardinality(Having(file, C)) + Cardinality(Having(file, D))
  BY <1>8
<1>10. QED
  BY <1>4, <1>6, <1>7, <1>8, <1>9

LEMMA OutcomesSumUp ==
    ASSUME NEW file \in Seq(Row), InOrder(file)
    PROVE  Tally(file, "no_answer") + Tally(file, "dropped") + Tally(file, "dtmf_fallback")
             + Tally(file, "otp_lockouts") + Tally(file, "silent_call_failures")
             + Tally(file, "rejected") + Tally(file, "unreachable")
           <= Tally(file, "total_attempts")
<1> DEFINE H(codes) == Cardinality(Having(file, codes))
           c1 == {"NO_ANSWER"}
           c2 == {"CALL_DROPPED_PRE_AUTH", "CALL_DROPPED_POST_AUTH"}
           c3 == {"DTMF_FALLBACK_ACTIVATED"}
           c4 == {"OTP_LOCKED", "OTP_ATTEMPTS_EXCEEDED"}
           c5 == {"SILENT_CALL_TECHNICAL_FAILURE"}
           c6 == {"CALL_REJECTED"}
           c7 == {"NUMBER_UNREACHABLE", "INVALID_CONTACT_NUMBER"}
           u2 == c1 \union c2
           u3 == u2 \union c3
           u4 == u3 \union c4
           u5 == u4 \union c5
           u6 == u5 \union c6
           u7 == u6 \union c7
<1>1. /\ H(u2) = H(c1) + H(c2) /\ H(c1) \in Nat
  <2>1. c1 \in SUBSET Codes /\ c2 \in SUBSET Codes /\ c1 \intersect c2 = {}
    BY DEF Codes
  <2>2. QED
    BY <2>1, OutcomesAdd
<1>2. /\ H(u3) = H(u2) + H(c3) /\ H(u2) \in Nat
  <2>1. u2 \in SUBSET Codes /\ c3 \in SUBSET Codes /\ u2 \intersect c3 = {}
    BY DEF Codes
  <2>2. QED
    BY <2>1, OutcomesAdd
<1>3. /\ H(u4) = H(u3) + H(c4) /\ H(u3) \in Nat
  <2>1. u3 \in SUBSET Codes /\ c4 \in SUBSET Codes /\ u3 \intersect c4 = {}
    BY DEF Codes
  <2>2. QED
    BY <2>1, OutcomesAdd
<1>4. /\ H(u5) = H(u4) + H(c5) /\ H(u4) \in Nat
  <2>1. u4 \in SUBSET Codes /\ c5 \in SUBSET Codes /\ u4 \intersect c5 = {}
    BY DEF Codes
  <2>2. QED
    BY <2>1, OutcomesAdd
<1>5. /\ H(u6) = H(u5) + H(c6) /\ H(u5) \in Nat
  <2>1. u5 \in SUBSET Codes /\ c6 \in SUBSET Codes /\ u5 \intersect c6 = {}
    BY DEF Codes
  <2>2. QED
    BY <2>1, OutcomesAdd
<1>6. /\ H(u7) = H(u6) + H(c7) /\ H(u6) \in Nat
  <2>1. u6 \in SUBSET Codes /\ c7 \in SUBSET Codes /\ u6 \intersect c7 = {}
    BY DEF Codes
  <2>2. QED
    BY <2>1, OutcomesAdd
<1>7. H(u7) <= Tally(file, "total_attempts")
  <2>1. Figures["total_attempts"] = [table |-> "call_attempt", all |-> {}, any |-> {}]
    BY DEF Figures, Calls, Select
  <2>2. Having(file, u7) \subseteq Counted(file, "total_attempts")
    BY <2>1 DEF Having, Counted, Where
  <2>3. QED
    BY <2>2, TallyIsNat, FS_Subset DEF Tally
<1>8. /\ Figures["no_answer"] = [table |-> "call_attempt", all |-> c1, any |-> {}]
      /\ Figures["dropped"] = [table |-> "call_attempt", all |-> {}, any |-> c2]
      /\ Figures["dtmf_fallback"] = [table |-> "call_attempt", all |-> c3, any |-> {}]
      /\ Figures["otp_lockouts"] = [table |-> "call_attempt", all |-> {}, any |-> c4]
      /\ Figures["silent_call_failures"] = [table |-> "call_attempt", all |-> c5, any |-> {}]
      /\ Figures["rejected"] = [table |-> "call_attempt", all |-> c6, any |-> {}]
      /\ Figures["unreachable"] = [table |-> "call_attempt", all |-> {}, any |-> c7]
  BY DEF Figures, Calls, Select, _DROPPED_CODES, _OTP_LOCKOUT_CODES
<1>9. /\ Counted(file, "no_answer") = Having(file, c1)
      /\ Counted(file, "dtmf_fallback") = Having(file, c3)
      /\ Counted(file, "silent_call_failures") = Having(file, c5)
      /\ Counted(file, "rejected") = Having(file, c6)
  BY <1>8 DEF Counted, Having, Where
<1>10. /\ Counted(file, "dropped") = Having(file, c2)
       /\ Counted(file, "otp_lockouts") = Having(file, c4)
       /\ Counted(file, "unreachable") = Having(file, c7)
  BY <1>8 DEF Counted, Having, Where
<1>11. /\ Tally(file, "no_answer") = H(c1) /\ Tally(file, "dropped") = H(c2)
       /\ Tally(file, "dtmf_fallback") = H(c3) /\ Tally(file, "otp_lockouts") = H(c4)
       /\ Tally(file, "silent_call_failures") = H(c5) /\ Tally(file, "rejected") = H(c6)
       /\ Tally(file, "unreachable") = H(c7)
  BY <1>9, <1>10 DEF Tally
<1>12. H(c1) + H(c2) + H(c3) + H(c4) + H(c5) + H(c6) + H(c7) = H(u7)
  BY <1>1, <1>2, <1>3, <1>4, <1>5, <1>6
<1> HIDE DEF H, c1, c2, c3, c4, c5, c6, c7, u2, u3, u4, u5, u6, u7
<1>13. QED
  BY <1>7, <1>11, <1>12

\* A figure is at most what it is now.
LEMMA FigureIsLess ==
    ASSUME ReportInv, NEW name
    PROVE  /\ Figure(name) \in Nat /\ Figure(name) <= Tally(rows, name)
           /\ ReadAt(name) # {} => Tally(rows, name) <= Figure(name) + writes
<1>1. Tally(rows, name) \in Nat
  BY TallyIsNat DEF ReportInv, ReportTypeOK
<1>2. CASE ReadAt(name) = {}
  BY <1>1, <1>2 DEF Figure
<1>3. CASE ReadAt(name) # {}
  <2>1. PICK i \in ReadAt(name) : Figure(name) = report.read[i][name]
    BY <1>3 DEF Figure
  <2>2. i \in DOMAIN report.read /\ name \in DOMAIN report.read[i]
    BY <2>1 DEF ReadAt
  <2>3. QED
    BY <2>1, <2>2 DEF ReportInv, Bracketed
<1>4. QED
  BY <1>2, <1>3

LEMMA SumsCompare ==
    ASSUME NEW a \in Nat, NEW b \in Nat, NEW c \in Nat, NEW d \in Nat, NEW e \in Nat,
           NEW f \in Nat, NEW g \in Nat, NEW a2 \in Nat, NEW b2 \in Nat, NEW c2 \in Nat,
           NEW d2 \in Nat, NEW e2 \in Nat, NEW f2 \in Nat, NEW g2 \in Nat,
           a <= a2, b <= b2, c <= c2, d <= d2, e <= e2, f <= f2, g <= g2,
           NEW t \in Nat, NEW u \in Nat, a2 + b2 + c2 + d2 + e2 + f2 + g2 <= t, t <= u
    PROVE  a + b + c + d + e + f + g <= u
OBVIOUS

LEMMA ReportGives == ReportInv => ReportTypeOK /\ ReportsAgree
<1> SUFFICES ASSUME ReportInv PROVE OutcomesAreExclusive
  BY DEF ReportInv, ReportsAgree
<1> SUFFICES ASSUME ReadAt("total_attempts") # {}
             PROVE  Figure("no_answer") + Figure("dropped") + Figure("dtmf_fallback")
                      + Figure("otp_lockouts") + Figure("silent_call_failures")
                      + Figure("rejected") + Figure("unreachable")
                    <= Figure("total_attempts") + writes
  BY DEF OutcomesAreExclusive
<1>1. rows \in Seq(Row) /\ InOrder(rows) /\ writes \in Nat
  BY RowsAssumption DEF ReportInv, ReportTypeOK
<1>2. \A name : Tally(rows, name) \in Nat
  BY <1>1, TallyIsNat
<1>3. \A name : Figure(name) \in Nat /\ Figure(name) <= Tally(rows, name)
  BY FigureIsLess
<1>4. Tally(rows, "total_attempts") <= Figure("total_attempts") + writes
  BY FigureIsLess
<1>5. Tally(rows, "no_answer") + Tally(rows, "dropped") + Tally(rows, "dtmf_fallback")
        + Tally(rows, "otp_lockouts") + Tally(rows, "silent_call_failures")
        + Tally(rows, "rejected") + Tally(rows, "unreachable")
      <= Tally(rows, "total_attempts")
  BY <1>1, OutcomesSumUp
<1>6. Figure("total_attempts") + writes \in Nat
  BY <1>1, <1>3
<1> HIDE DEF ReportInv
<1>7. QED
  BY <1>2, <1>3, <1>4, <1>5, <1>6, SumsCompare

\* reporting/service.py counts in one statement after the other, while calls are being
\* written: no part exceeds a whole read later, nor one read earlier by more than the
\* commits in between, and no call is counted under two outcomes.
THEOREM FiguresAgree == ReportSpec => [](ReportTypeOK /\ ReportsAgree)
BY ReportInitStep, ReportStep, ReportGives, PTL DEF ReportSpec

---------------------------------------------------------------------------
(* All the desks.                                                          *)

BackOfficeInv ==
    /\ desk \in Desks
    /\ sheet \in [text: Text, language: {"en", "ar"}] /\ Findable(sheet.text)
    /\ SlaIInv /\ DefectInv /\ ReportInv /\ OtpInv

LEMMA BackOfficeInit == Init => BackOfficeInv
<1> SUFFICES ASSUME Init PROVE BackOfficeInv
  OBVIOUS
<1>1. sheet \in [text: Text, language: {"en", "ar"}] /\ Findable(sheet.text)
  <2>1. NoSheet \in [text: Text, language: {"en", "ar"}]
    BY DEF NoSheet, Text
  <2>2. Findable(NoSheet.text)
    BY DEF NoSheet, Findable, Range, DeterministicOrder, EntitiesOnce
  <2>3. QED
    BY <2>1, <2>2, SheetsAssumption DEF Init
<1>2. ReportInit
  BY DEF Init
<1>3. QED
  BY <1>1, <1>2, InitStep, DefectInitStep, ReportInitStep, OtpInitStep DEF Init, BackOfficeInv

LEMMA BackOfficeStep == BackOfficeInv /\ [Next]_vars => BackOfficeInv'
<1> SUFFICES ASSUME BackOfficeInv, [Next]_vars PROVE BackOfficeInv'
  OBVIOUS
<1>1. UNCHANGED deskVars
  BY DEF Next, vars
<1>2. /\ [SlaNext]_slaVars /\ [DefectNext]_defectVars /\ [ReportNext]_reportVars
      /\ [OtpNext]_otpVars
  BY DEF Next, vars
<1>3. QED
  BY <1>1, <1>2, SlaStep, DefectStep, ReportStep, OtpStep DEF BackOfficeInv, deskVars

\* Every table of the back office keeps its shape, whatever is repeated, lost,
\* abandoned or interleaved.
THEOREM BackOfficeTyped == Spec => []TypeOK
<1>1. BackOfficeInv => TypeOK
  BY SlaGives DEF BackOfficeInv, TypeOK, DefectInv, ReportInv, OtpInv
<1>2. QED
  BY <1>1, BackOfficeInit, BackOfficeStep, PTL DEF Spec

\* ComplaintSlaMonitorWorkflow, among the other desks: at most one action for each deadline
\* and its event, and alarms that match the deadlines.
THEOREM ComplaintsAreWatched == Spec => [](OneEscalationPerDeadline /\ AlarmsMatchDeadlines)
<1>1. BackOfficeInv => OneEscalationPerDeadline /\ AlarmsMatchDeadlines
  BY SlaGives DEF BackOfficeInv
<1>2. QED
  BY <1>1, BackOfficeInit, BackOfficeStep, PTL DEF Spec

\* verification/service.py, among the other desks: its guesses and codes are limited.
THEOREM PasswordsAreLimited == Spec => []OtpLimitsHold
<1>1. BackOfficeInv => OtpLimitsHold
  BY OtpGives DEF BackOfficeInv
<1>2. QED
  BY <1>1, BackOfficeInit, BackOfficeStep, PTL DEF Spec

\* reporting/service.py, among the other desks: its figures agree.
THEOREM ReportsAreSound == Spec => []ReportsAgree
<1>1. BackOfficeInv => ReportsAgree
  BY ReportGives DEF BackOfficeInv
<1>2. QED
  BY <1>1, BackOfficeInit, BackOfficeStep, PTL DEF Spec

\* privacy/service.py: of every text that is redacted, whatever overlaps whatever, the
\* right matches are masked, the rest is kept, and what is reported is what was masked.
THEOREM MaskingIsAlwaysExact == Spec => []MaskingIsExact
<1>1. BackOfficeInv => MaskingIsExact
  <2>1. SUFFICES ASSUME BackOfficeInv
                 PROVE  /\ MasksExactly(sheet.text, sheet.language)
                        /\ ReportsItsMarkers(sheet.text, sheet.language)
    BY DEF MaskingIsExact
  <2>2. sheet.text \in Text /\ Findable(sheet.text)
    BY <2>1 DEF BackOfficeInv
  <2>3. QED
    BY <2>2, RedactionIsExact, RedactionReports
<1>2. QED
  BY <1>1, BackOfficeInit, BackOfficeStep, PTL DEF Spec

\* qa/service.py, among the other desks: a second strike blocks the gate, and the
\* governance figures are borne out.
THEOREM GovernanceHolds == Spec => []GovernanceIsHonest
<1>1. BackOfficeInv => GovernanceIsHonest
  BY DefectGives, LatestDecides
     DEF BackOfficeInv, DefectInv, DefectTypeOK, GovernanceIsHonest
<1>2. QED
  BY <1>1, BackOfficeInit, BackOfficeStep, PTL DEF Spec
=============================================================================
