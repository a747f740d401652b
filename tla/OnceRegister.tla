--------------------------- MODULE OnceRegister ---------------------------
(***************************************************************************)
(* What a caller of backend/src/idempotency.py may rely on, with no word   *)
(* about records, statuses or polling.  A register per idempotency key is  *)
(* performed at most once, on behalf of one payload; a key may also be     *)
(* refused for good.  A caller is told "done" only when the register holds *)
(* the payload it asked for.  Idempotency.tla implements this module.      *)
(***************************************************************************)
EXTENDS Sequences

CONSTANTS Callers, Keys, Payloads, KeyOf, PayloadOf

VARIABLES
    effects,  \* key -> the payloads performed in its name, oldest first
    refused,  \* keys whose operation was recorded as failed
    told      \* callers that hold a successful answer

vars == <<effects, refused, told>>

Init ==
    /\ effects = [k \in Keys |-> <<>>]
    /\ refused = {}
    /\ told = {}

\* The one performance of a key, for the caller's own payload; the caller
\* may or may not live to hear of it.
Perform(c) ==
    /\ effects[KeyOf[c]] = <<>>
    /\ KeyOf[c] \notin refused
    /\ effects' = [effects EXCEPT ![KeyOf[c]] = <<PayloadOf[c]>>]
    /\ told' \in {told, told \union {c}}
    /\ UNCHANGED refused

Refuse(c) ==
    /\ effects[KeyOf[c]] = <<>>
    /\ KeyOf[c] \notin refused
    /\ refused' = refused \union {KeyOf[c]}
    /\ UNCHANGED <<effects, told>>

\* A replay: the answer is the performance that already happened.
Tell(c) ==
    /\ effects[KeyOf[c]] = <<PayloadOf[c]>>
    /\ told' = told \union {c}
    /\ UNCHANGED <<effects, refused>>

Next == \E c \in Callers : Perform(c) \/ Refuse(c) \/ Tell(c)

Spec == Init /\ [][Next]_vars
===========================================================================
