--------------------------- MODULE CustomerLine ---------------------------
(***************************************************************************)
(* What the schedulers of backend/src/campaigns and the ad-hoc calls       *)
(* promise a customer, with no word about workflows, ids or eligibility:   *)
(* he is in one call at a time, each job calls him MaxAttempts times at    *)
(* most, and never again once it reached him.  How long a call lasts is    *)
(* not promised.  RetryScheduler.tla implements this module.               *)
(***************************************************************************)
EXTENDS Naturals

CONSTANTS Jobs, MaxAttempts

VARIABLES
    ringing,    \* the jobs whose call he is in
    adhocCall,  \* is he in an ad-hoc call?
    placed,     \* job -> how many calls it has placed
    reached     \* jobs a call of which he took, or did not end in time

vars == <<ringing, adhocCall, placed, reached>>

Init ==
    /\ ringing = {}
    /\ adhocCall = FALSE
    /\ placed = [j \in Jobs |-> 0]
    /\ reached = {}

Idle == ringing = {} /\ ~adhocCall

Ring(j) ==
    /\ Idle
    /\ j \notin reached
    /\ placed[j] < MaxAttempts
    /\ ringing' = {j}
    /\ placed' = [placed EXCEPT ![j] = @ + 1]
    /\ UNCHANGED <<adhocCall, reached>>

HangUp(j) ==
    /\ j \in ringing
    /\ ringing' = ringing \ {j}
    /\ reached' \in {reached, reached \union {j}}
    /\ UNCHANGED <<adhocCall, placed>>

RingAdhoc ==
    /\ Idle
    /\ adhocCall' = TRUE
    /\ UNCHANGED <<ringing, placed, reached>>

HangUpAdhoc ==
    /\ adhocCall
    /\ adhocCall' = FALSE
    /\ UNCHANGED <<ringing, placed, reached>>

Next ==
    \/ \E j \in Jobs : Ring(j) \/ HangUp(j)
    \/ RingAdhoc \/ HangUpAdhoc

Spec == Init /\ [][Next]_vars
===========================================================================
