---------------------------- MODULE Idempotency ----------------------------
(***************************************************************************)
(* backend/src/idempotency.py: idempotent(), _finalize(),                  *)
(* _replay_or_poll().                                                      *)
(*                                                                         *)
(* A caller is one execution of idempotent(key, payload, operation): a     *)
(* Temporal activity attempt, or a request handler.  Callers that share a  *)
(* key are a call and its retries, possibly overlapping (an activity       *)
(* attempt that outlived its start_to_close timeout still runs), or a key  *)
(* reused for something else.  Every step below is one committed database  *)
(* transaction or one local decision; a caller may die between any two.    *)
(***************************************************************************)
EXTENDS Naturals, Sequences

CONSTANTS
    Callers,
    Keys,
    Payloads,
    KeyOf,         \* caller -> its idempotency key
    PayloadOf,     \* caller -> what it asks for (compared by fingerprint)
    PollAttempts   \* settings.IDEMPOTENCY_POLL_ATTEMPTS

ASSUME KeyOfAssumption == KeyOf \in [Callers -> Keys]
ASSUME PayloadOfAssumption == PayloadOf \in [Callers -> Payloads]
ASSUME PollAttemptsAssumption == PollAttempts \in Nat \ {0}

VARIABLES
    record,   \* key -> its idempotency_record row; status ABSENT: no row
    effects,  \* key -> business rows committed by its operation, oldest first
    pc,       \* caller -> where its execution of idempotent() stands
    polls,    \* caller -> PENDING reads of _replay_or_poll so far
    answer    \* caller -> the response it returned (<<>>: none)

vars == <<record, effects, pc, polls, answer>>

Statuses == {"ABSENT", "PENDING", "COMPLETED", "FAILED"}

\* A nullable column is a sequence of at most one value.
Nullable(S) == {<<>>} \union {<<x>> : x \in S}

Record == [status: Statuses, fingerprint: Nullable(Payloads),
           response: Nullable(Payloads)]

NoRecord == [status |-> "ABSENT", fingerprint |-> <<>>, response |-> <<>>]

Owning == {"operate", "commit", "fail"}         \* holds the claim on its key
Ended == {"returned", "raised"}
Locations == {"idle", "claim", "poll"} \union Owning \union Ended

Rec(c) == record[KeyOf[c]]

TypeOK ==
    /\ record \in [Keys -> Record]
    /\ effects \in [Keys -> Seq(Payloads)]
    /\ pc \in [Callers -> Locations]
    /\ polls \in [Callers -> 0 .. PollAttempts - 1]
    /\ answer \in [Callers -> Nullable(Payloads)]

Init ==
    /\ record = [k \in Keys |-> NoRecord]
    /\ effects = [k \in Keys |-> <<>>]
    /\ pc = [c \in Callers |-> "idle"]
    /\ polls = [c \in Callers |-> 0]
    /\ answer = [c \in Callers |-> <<>>]

Goto(c, from, to) ==
    /\ pc[c] = from
    /\ pc' = [pc EXCEPT ![c] = to]

---------------------------------------------------------------------------
(* Phase A: claim.                                                         *)

\* Begins a call, or repeats one that raised: Temporal retries an activity
\* without limit, with the same key and the same payload.
Call(c) ==
    /\ pc[c] \in {"idle", "raised"}
    /\ pc' = [pc EXCEPT ![c] = "claim"]
    /\ polls' = [polls EXCEPT ![c] = 0]
    /\ UNCHANGED <<record, effects, answer>>

ClaimWhen(c, S) ==
    /\ Rec(c).status \in S
    /\ Goto(c, "claim", "operate")
    /\ record' = [record EXCEPT ![KeyOf[c]] =
            [status |-> "PENDING", fingerprint |-> <<PayloadOf[c]>>,
             response |-> <<>>]]
    /\ UNCHANGED <<effects, polls, answer>>

\* Mutant: a PENDING row is taken for an abandoned one and claimed again.
ClaimStealsPending(c) == ClaimWhen(c, {"ABSENT", "PENDING"})

\* Mutant: a FAILED row is claimed again.
ClaimRetriesFailed(c) == ClaimWhen(c, {"ABSENT", "FAILED"})

\* The SAVEPOINT insert and its commit: the primary key lets one caller in.
Claim(c) == ClaimWhen(c, {"ABSENT"})

\* IntegrityError: roll back and go to replay-or-poll.
ClaimConflict(c) ==
    /\ Rec(c).status # "ABSENT"
    /\ Goto(c, "claim", "poll")
    /\ UNCHANGED <<record, effects, polls, answer>>

---------------------------------------------------------------------------
(* Phase B: execute and finalize.                                          *)

\* operation() flushed its row; nothing is visible to others before _finalize.
Operate(c) ==
    /\ Goto(c, "operate", "commit")
    /\ UNCHANGED <<record, effects, polls, answer>>

\* operation() raised before it touched the session.
OperationRaises(c) ==
    /\ Goto(c, "operate", "fail")
    /\ UNCHANGED <<record, effects, polls, answer>>

\* operation()'s flush failed (a constraint, a lost connection).  The session
\* then refuses every further use, _finalize's own session.get included, so
\* FAILED is never written and the claim stays PENDING.
FlushFails(c) ==
    /\ Goto(c, "operate", "raised")
    /\ UNCHANGED <<record, effects, polls, answer>>

\* Mutant: _finalize writes COMPLETED but leaves the business row uncommitted.
CompleteWithoutRow(c) ==
    /\ Goto(c, "commit", "returned")
    /\ record' = [record EXCEPT ![KeyOf[c]].status = "COMPLETED",
                                ![KeyOf[c]].response = <<PayloadOf[c]>>]
    /\ answer' = [answer EXCEPT ![c] = <<PayloadOf[c]>>]
    /\ UNCHANGED <<effects, polls>>

\* _finalize COMPLETED: the business row and the record in one commit.  The
\* acknowledgment of that commit may be lost: the caller then sees an error.
Complete(c) ==
    /\ pc[c] = "commit"
    /\ record' = [record EXCEPT ![KeyOf[c]].status = "COMPLETED",
                                ![KeyOf[c]].response = <<PayloadOf[c]>>]
    /\ effects' = [effects EXCEPT ![KeyOf[c]] = Append(@, PayloadOf[c])]
    /\ \/ /\ pc' = [pc EXCEPT ![c] = "returned"]
          /\ answer' = [answer EXCEPT ![c] = <<PayloadOf[c]>>]
       \/ /\ pc' = [pc EXCEPT ![c] = "raised"]
          /\ UNCHANGED answer
    /\ UNCHANGED polls

\* Mutant: operation() raises after its flush, and the FAILED commit keeps
\* the row it had flushed.
FailKeepsRow(c) ==
    /\ Goto(c, "fail", "raised")
    /\ record' = [record EXCEPT ![KeyOf[c]].status = "FAILED"]
    /\ effects' = [effects EXCEPT ![KeyOf[c]] = Append(@, PayloadOf[c])]
    /\ UNCHANGED <<polls, answer>>

\* _finalize FAILED, then the operation's own exception is raised again.
Fail(c) ==
    /\ Goto(c, "fail", "raised")
    /\ record' = [record EXCEPT ![KeyOf[c]].status = "FAILED"]
    /\ UNCHANGED <<effects, polls, answer>>

---------------------------------------------------------------------------
(* Phase C: replay or poll.  Each read is fresh: rollback and expire_all.  *)

\* Mutant: the stored response is served to any payload.
FingerprintIgnored(c) == TRUE

FingerprintMatches(c) == Rec(c).fingerprint = <<PayloadOf[c]>>

Replay(c) ==
    /\ FingerprintMatches(c)
    /\ Rec(c).status = "COMPLETED"
    /\ Goto(c, "poll", "returned")
    /\ answer' = [answer EXCEPT ![c] = Rec(c).response]
    /\ UNCHANGED <<record, effects, polls>>

\* IdempotencyKeyReuseError, or IdempotentOperationFailedError.
ReplayRefused(c) ==
    /\ ~FingerprintMatches(c) \/ Rec(c).status = "FAILED"
    /\ Goto(c, "poll", "raised")
    /\ UNCHANGED <<record, effects, polls, answer>>

\* Another PENDING read: sleep and read again, or give up with
\* IdempotencyConflictError after the read numbered `last`.
PollUntil(c, last) ==
    /\ FingerprintMatches(c)
    /\ Rec(c).status = "PENDING"
    /\ pc[c] = "poll"
    /\ IF polls[c] = last
       THEN /\ pc' = [pc EXCEPT ![c] = "raised"]
            /\ UNCHANGED polls
       ELSE /\ polls' = [polls EXCEPT ![c] = @ + 1]
            /\ UNCHANGED pc
    /\ UNCHANGED <<record, effects, answer>>

\* Mutant: one read too many.
PollOnceMore(c) == PollUntil(c, PollAttempts)

\* Mutant: a PENDING record is re-read, without an end.
PollForever(c) ==
    /\ Rec(c).status = "PENDING"
    /\ pc[c] = "poll"
    /\ polls' = [polls EXCEPT ![c] = (@ + 1) % PollAttempts]
    /\ UNCHANGED <<record, effects, pc, answer>>

\* range(attempts): reads 0 .. PollAttempts - 1.
Poll(c) == PollUntil(c, PollAttempts - 1)

---------------------------------------------------------------------------
\* The process dies, a commit's acknowledgment is lost, or a later statement
\* loses the connection: the database drops the open transaction and keeps
\* what was committed.
Crash(c) ==
    /\ pc[c] \notin {"idle"} \union Ended
    /\ pc' = [pc EXCEPT ![c] = "raised"]
    /\ UNCHANGED <<record, effects, polls, answer>>

\* The steps of an execution that no fault interrupts.
Step(c) ==
    \/ Claim(c) \/ ClaimConflict(c)
    \/ Operate(c) \/ Complete(c) \/ Fail(c)
    \/ Replay(c) \/ ReplayRefused(c) \/ Poll(c)

Next ==
    \E c \in Callers :
        Call(c) \/ Step(c) \/ OperationRaises(c) \/ FlushFails(c) \/ Crash(c)

Spec == Init /\ [][Next]_vars

\* A process that is alive keeps executing; nothing makes a fault happen.
FairSpec == Spec /\ \A c \in Callers : WF_vars(Step(c))

\* ... a caller that raised is retried, as Temporal does for activities, and
\* after some point nothing goes wrong any more.
RetryingSpec ==
    /\ FairSpec
    /\ \A c \in Callers : WF_vars(Call(c))
    /\ <>[][\E c \in Callers : Call(c) \/ Step(c)]_vars

---------------------------------------------------------------------------
(* Properties.                                                             *)

\* However calls with one key overlap, crash and repeat, its operation leaves
\* at most one business row (idempotency.py Phase A).
AtMostOnce == \A k \in Keys : Len(effects[k]) <= 1

\* The business row and COMPLETED appear together: neither is ever visible
\* without the other, and the row is the one the claim's fingerprint names
\* (idempotency.py Phase B commits both at once).
EffectIffCompleted ==
    \A k \in Keys :
        effects[k] = IF record[k].status = "COMPLETED"
                     THEN record[k].fingerprint
                     ELSE <<>>

\* A caller that got an answer got the committed row, and it is a row for the
\* payload that caller sent (the fingerprint check of _replay_or_poll).
AnswerIsTheEffect ==
    \A c \in Callers :
        pc[c] = "returned" =>
            /\ answer[c] = <<PayloadOf[c]>>
            /\ effects[KeyOf[c]] = answer[c]

Settled(k) == record[k].status \in {"COMPLETED", "FAILED"}

\* A settled record never changes again, whatever late or zombie callers do.
SettledIsFinal ==
    [][\A k \in Keys : Settled(k) => record'[k] = record[k]]_vars

\* Every execution ends: the poll loop is bounded even behind a claim that
\* nobody will ever settle.
CallEnds ==
    \A c \in Callers : pc[c] \notin {"idle"} \union Ended ~> pc[c] \in Ended

\* "Run operation() exactly once per key, replay-safe across retries"
\* (idempotency.py:62): a claimed key whose caller is retried for ever is in
\* the end performed, or recorded as failed.
ClaimIsSettled ==
    \A k \in Keys : record[k].status = "PENDING" ~> Settled(k)

Once == INSTANCE OnceRegister WITH
    refused <- {k \in Keys : record[k].status = "FAILED"},
    told <- {c \in Callers : pc[c] = "returned"}

\* idempotent() implements the at-most-once register.
ImplementsOnce == Once!Spec
===========================================================================
