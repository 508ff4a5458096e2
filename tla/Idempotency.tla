----------------------------- MODULE Idempotency -----------------------------
(***************************************************************************)
(* The Idempotency-Key of the API: IdempotencyInterceptor runs the handler *)
(* of a call only after IdempotencyService.begin has claimed its key, and  *)
(* gives a retry the answer the first call stored.                         *)
(*                                                                         *)
(* Every statement is WHERE key = $1, so the calls of one key stand for    *)
(* all.  A call is a chain of single statements, each of them atomic and   *)
(* none in a transaction with another; what the handler commits is one     *)
(* step, after which it may still throw: the total, the revocation or the  *)
(* second read that follows may fail.  A body is its fingerprint, and so   *)
(* is the answer to it.                                                    *)
(***************************************************************************)
EXTENDS Integers, FiniteSets

CONSTANTS Calls,     \* calls that bring the key at the same time
          Hashes,    \* fingerprints of the bodies they bring
          Null,      \* SQL null
          Attempts,  \* IDEMPOTENCY_IN_FLIGHT_ATTEMPTS
          MaxEffects \* bound: how often the handler commits in a behaviour

ASSUME NullAssumption == Null \notin Hashes /\ Hashes # {}
ASSUME AttemptsAssumption == Attempts \in Nat \ {0}
ASSUME EffectsAssumption == MaxEffects \in Nat

VARIABLES
    row,         \* the row of the key
    call,        \* what each call is doing
    ran,         \* how often the handler has taken effect since the key was
                 \* new or last taken over
    lost,        \* how often it has taken effect and then thrown since then
    unprotected  \* whether a call has gone on without a row since then

history == <<ran, lost, unprotected>>
vars == <<row, call, ran, lost, unprotected>>

-----------------------------------------------------------------------------
Row == [present: BOOLEAN, expired: BOOLEAN,
        hash: Hashes \union {Null}, answer: Hashes \union {Null}]

NoRow == [present |-> FALSE, expired |-> FALSE, hash |-> Null, answer |-> Null]

Steps == {"idle", "read", "insert", "takeOver", "reread", "await",
          "run", "complete", "release", "replay"}

\* seen: the answer a retry has read; attempt: its earlier reads of the row in
\* awaitResponse.
Call == [step: Steps, hash: Hashes \union {Null}, seen: Hashes \union {Null},
         attempt: 0 .. Attempts - 1]

Idle == [step |-> "idle", hash |-> Null, seen |-> Null, attempt |-> 0]

TypeOK ==
    /\ row \in Row
    /\ call \in [Calls -> Call]
    /\ ran \in Nat /\ lost \in Nat
    /\ unprotected \in BOOLEAN

Init ==
    /\ row = NoRow
    /\ call = [h \in Calls |-> Idle]
    /\ ran = 0 /\ lost = 0
    /\ unprotected = FALSE

-----------------------------------------------------------------------------
At(h, step)   == call[h].step = step
Goto(h, step) == call' = [call EXCEPT ![h].step = step]
End(h)        == call' = [call EXCEPT ![h] = Idle]

\* The calls between the claim of the key and the end of the interceptor.
Running == {h \in Calls : call[h].step \in {"run", "complete", "release"}}

\* interpret: a row with another fingerprint ends the call with 409.
Interpret(h) ==
    IF row.hash # call[h].hash
    THEN End(h)
    ELSE Goto(h, "await")

\* claimValues: the answer is reset.
KeptAnswer(hash) == [present |-> TRUE, expired |-> FALSE, hash |-> hash, answer |-> row.answer]
Claimed(hash) == [present |-> TRUE, expired |-> FALSE, hash |-> hash, answer |-> Null]

Arrive(h, hash) ==
    /\ At(h, "idle")
    /\ call' = [call EXCEPT ![h] = [Idle EXCEPT !.step = "read", !.hash = hash]]
    /\ UNCHANGED <<row, history>>

Read(h) ==
    /\ At(h, "read")
    /\ CASE ~row.present -> Goto(h, "insert")
         [] row.present /\ row.expired -> Goto(h, "takeOver")
         [] OTHER -> Interpret(h)
    /\ UNCHANGED <<row, history>>

\* INSERT ... ON CONFLICT DO NOTHING
CanInsert == ~row.present

Insert(h) ==
    /\ At(h, "insert")
    /\ IF CanInsert
       THEN row' = Claimed(call[h].hash) /\ Goto(h, "run")
       ELSE Goto(h, "reread") /\ UNCHANGED row
    /\ UNCHANGED history

\* UPDATE ... WHERE expires_at < now()
AlwaysTakesOver == row.present
CanTakeOver == row.present /\ row.expired

TakeOver(h) ==
    /\ At(h, "takeOver")
    /\ IF CanTakeOver
       THEN /\ row' = Claimed(call[h].hash)
            /\ Goto(h, "run")
            /\ ran' = 0 /\ lost' = 0 /\ unprotected' = FALSE
       ELSE Goto(h, "reread") /\ UNCHANGED <<row, history>>

\* The loser of a race reads the winner's row; when that is gone, the call goes
\* on without one.
Reread(h) ==
    /\ At(h, "reread")
    /\ IF row.present
       THEN Interpret(h) /\ UNCHANGED unprotected
       ELSE Goto(h, "run") /\ unprotected' = TRUE
    /\ UNCHANGED <<row, ran, lost>>

MayReadAgain(attempt) == attempt + 1 < Attempts

\* awaitResponse: reads until the row has an answer, is gone, or the last
\* attempt is made; the latter two are 409.
Await(h) ==
    /\ At(h, "await")
    /\ CASE row.present /\ row.answer # Null ->
              call' = [call EXCEPT ![h].step = "replay", ![h].seen = row.answer]
         [] row.present /\ row.answer = Null /\ MayReadAgain(call[h].attempt) ->
              call' = [call EXCEPT ![h].attempt = @ + 1]
         [] OTHER -> End(h)
    /\ UNCHANGED <<row, history>>

Replay(h) ==
    /\ At(h, "replay")
    /\ End(h)
    /\ UNCHANGED <<row, history>>

\* The handler: it commits and answers, or throws and nothing is left, or throws
\* after it has committed.
Succeed(h) ==
    /\ At(h, "run")
    /\ ran < MaxEffects
    /\ ran' = ran + 1
    /\ Goto(h, "complete")
    /\ UNCHANGED <<row, lost, unprotected>>

Fail(h) ==
    /\ At(h, "run")
    /\ Goto(h, "release")
    /\ UNCHANGED <<row, history>>

\* removeBudgetItem whose updateBudgetTotals fails, update of a profile whose
\* sessions are not revoked, a request whose row is not read again: the interceptor
\* catches it as any other error.
FailAfterCommit(h) ==
    /\ At(h, "run")
    /\ ran < MaxEffects
    /\ ran' = ran + 1 /\ lost' = lost + 1
    /\ Goto(h, "release")
    /\ UNCHANGED <<row, unprotected>>

\* The answer goes to whatever row the key has by then.
Complete(h) ==
    /\ At(h, "complete")
    /\ row' = IF row.present THEN [row EXCEPT !.answer = call[h].hash] ELSE row
    /\ End(h)
    /\ UNCHANGED history

Release(h) ==
    /\ At(h, "release")
    /\ row' = NoRow
    /\ End(h)
    /\ UNCHANGED history

\* The instance dies, or a statement of the service fails: before the handler
\* that is the end of the call, and in complete and release it is swallowed.
Break(h) ==
    /\ call[h].step # "idle"
    /\ End(h)
    /\ UNCHANGED <<row, history>>

\* IDEMPOTENCY_TTL_HOURS pass.  A call is over long before the key it has
\* claimed expires.
Expire ==
    /\ row.present /\ ~row.expired
    /\ Running = {}
    /\ row' = [row EXCEPT !.expired = TRUE]
    /\ UNCHANGED <<call, history>>

Next ==
    \/ \E h \in Calls :
          \/ \E hash \in Hashes : Arrive(h, hash)
          \/ Read(h) \/ Insert(h) \/ TakeOver(h) \/ Reread(h) \/ Await(h) \/ Replay(h)
          \/ Succeed(h) \/ Fail(h) \/ FailAfterCommit(h)
          \/ Complete(h) \/ Release(h)
          \/ Break(h)
    \/ Expire

Spec == Init /\ [][Next]_vars

-----------------------------------------------------------------------------
\* From one claim of the key to the next the handler takes effect once, retries,
\* failures and crashes included, and once more for each time it has thrown after
\* it had committed: then the interceptor has freed the key for a retry.  (Unless a
\* call has gone on without a row, which the service logs.)
EffectAtMostOnce == unprotected \/ ran <= lost + 1

\* Under the same condition the call that runs the handler is alone, and the
\* row is its own and unanswered until it ends: what complete and release
\* do by key alone happens to no other call's row.
RunnerOwnsRow ==
    unprotected \/
    \A h \in Running :
        /\ Running = {h}
        /\ row.present /\ ~row.expired
        /\ row.hash = call[h].hash /\ row.answer = Null

\* And a stored answer is the answer to the body whose fingerprint the row has,
\* from the one run that took effect and did not throw.
AnswerIsTheRuns ==
    unprotected \/ row.answer = Null \/ (row.answer = row.hash /\ ran = lost + 1)

\* A retry is given the answer to its own body: it never gets a document it
\* did not ask for (idempotency.service.ts, interpret).
ReplayIsOwnAnswer ==
    \A h \in Calls : At(h, "replay") => call[h].seen = call[h].hash
=============================================================================
