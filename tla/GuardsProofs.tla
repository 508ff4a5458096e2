---------------------------- MODULE GuardsProofs ----------------------------
(***************************************************************************)
(* What stands between a client and the rows: the keys of                  *)
(* IdempotencyInterceptor, the login's counters, the sessions, and the     *)
(* rules of who may write; for any number of calls, tokens, keys and       *)
(* tries.                                                                  *)
(***************************************************************************)
EXTENDS Idempotency, RateLimits, Sessions, Policies, FiniteSetTheorems, TLAPS

-----------------------------------------------------------------------------
(* The keys of IdempotencyInterceptor. EffectAtMostOnce is not inductive:  *)
(* that a claim follows only runs that have ended is a matter of who owns  *)
(* the row, and that a free key has no effect behind it one of how the row *)
(* went.                                                                   *)

\* Nobody who may run again outlives the row: an expired one has no runner,
\* and one that is gone is blank.
RowStates ==
    /\ row.expired => row.present /\ Running = {}
    /\ ~row.present => row = NoRow

\* What the handler of a call has done, by the step the call is at.
RanMatches ==
    unprotected \/
    /\ ~row.present => ran = lost
    /\ \A h \in Calls : /\ call[h].step \in {"run", "release"} => ran = lost
                        /\ call[h].step = "complete" => ran = lost + 1

IdempotencyInv == /\ TypeOK
        /\ RowStates
        /\ RanMatches
        /\ EffectAtMostOnce
        /\ RunnerOwnsRow
        /\ AnswerIsTheRuns

USE DEF history

\* A call that waits for nothing.
LEMMA IdleTyped == Idle \in Call /\ Idle.step = "idle"
<1>1. 0 \in 0 .. Attempts - 1
    BY AttemptsAssumption
<1>2. QED
    BY <1>1 DEF Idle, Call, Steps

\* The initial state has a free key and nobody under way.
LEMMA IdempotencyStart == Init => IdempotencyInv
<1> SUFFICES ASSUME Init PROVE IdempotencyInv
    OBVIOUS
<1>1. Idle \in Call /\ Idle.step = "idle" /\ NoRow \in Row
    BY IdleTyped DEF NoRow, Row
<1>2. \A h \in Calls : call[h] = Idle
    BY DEF Init
<1>3. TypeOK
  <2>1. call \in [Calls -> Call] /\ row \in Row
    BY <1>1 DEF Init
  <2>2. ran \in Nat /\ lost \in Nat
    BY DEF Init
  <2>3. unprotected \in BOOLEAN
    BY DEF Init
  <2>4. QED
    BY <2>1, <2>2, <2>3 DEF TypeOK
<1>4. Running = {}
    BY <1>1, <1>2 DEF Running
<1>5. RowStates
    BY <1>4 DEF Init, RowStates, NoRow
<1>6. RanMatches
    BY <1>1, <1>2 DEF Init, RanMatches
<1>7. EffectAtMostOnce /\ RunnerOwnsRow /\ AnswerIsTheRuns
    BY <1>4 DEF Init, EffectAtMostOnce, RunnerOwnsRow, AnswerIsTheRuns, NoRow
<1>8. QED
    BY <1>3, <1>5, <1>6, <1>7 DEF IdempotencyInv

\* Ending a call leaves the rest of the invariant as it is.
LEMMA EndInvariant ==
    ASSUME IdempotencyInv, NEW h \in Calls, End(h), UNCHANGED <<row, history>>
    PROVE  IdempotencyInv'
<1>1. call' = [call EXCEPT ![h] = Idle] /\ Idle \in Call /\ Idle.step = "idle"
    BY IdleTyped DEF End
<1>2. call' \in [Calls -> Call] /\ \A g \in Calls : call'[g] = IF g = h THEN Idle ELSE call[g]
    BY <1>1 DEF IdempotencyInv, TypeOK
<1>3. TypeOK'
    BY <1>2 DEF IdempotencyInv, TypeOK
<1>4. Running' = Running \ {h}
    BY <1>1, <1>2 DEF Running
<1>5. RowStates'
    BY <1>4 DEF IdempotencyInv, RowStates
<1>6. RanMatches'
    BY <1>1, <1>2 DEF IdempotencyInv, RanMatches
<1>7. RunnerOwnsRow'
    BY <1>2, <1>4 DEF IdempotencyInv, RunnerOwnsRow, Running
<1>8. QED
    BY <1>3, <1>5, <1>6, <1>7 DEF IdempotencyInv, EffectAtMostOnce, AnswerIsTheRuns

\* So does a step of a call that neither claims the key nor runs the handler.
LEMMA WaitingInvariant ==
    ASSUME IdempotencyInv, NEW h \in Calls, NEW c \in Call,
           c.step \notin {"run", "complete", "release"},
           call' = [call EXCEPT ![h] = c],
           UNCHANGED <<row, history>>
    PROVE  IdempotencyInv'
<1>1. call' \in [Calls -> Call] /\ \A g \in Calls : call'[g] = IF g = h THEN c ELSE call[g]
    BY DEF IdempotencyInv, TypeOK
<1>2. TypeOK'
    BY <1>1 DEF IdempotencyInv, TypeOK
<1>3. Running' = Running \ {h}
    BY <1>1 DEF Running
<1>4. RowStates'
    BY <1>3 DEF IdempotencyInv, RowStates
<1>5. RanMatches'
    BY <1>1 DEF IdempotencyInv, RanMatches
<1>6. RunnerOwnsRow'
    BY <1>1, <1>3 DEF IdempotencyInv, RunnerOwnsRow, Running
<1>7. QED
    BY <1>2, <1>4, <1>5, <1>6 DEF IdempotencyInv, EffectAtMostOnce, AnswerIsTheRuns

\* Where a call goes next, as a record of Call.
LEMMA GotoTyped ==
    ASSUME TypeOK, NEW h \in Calls, NEW step \in Steps, Goto(h, step)
    PROVE  \E c \in Call : /\ call' = [call EXCEPT ![h] = c]
                           /\ c.step = step /\ c.hash = call[h].hash
<1>1. call[h] \in Call
    BY DEF TypeOK
<1>2. PICK c : c = [call[h] EXCEPT !.step = step]
    OBVIOUS
<1>3. c \in Call /\ c.step = step /\ c.hash = call[h].hash
    BY <1>1, <1>2 DEF Call
<1>4. call' = [call EXCEPT ![h] = c]
    BY <1>2 DEF Goto
<1>5. QED
    BY <1>3, <1>4

\* What a call does with the row that another call has claimed.
LEMMA InterpretInvariant ==
    ASSUME IdempotencyInv, NEW h \in Calls, Interpret(h), UNCHANGED <<row, history>>
    PROVE  IdempotencyInv'
<1>1. CASE row.hash # call[h].hash
    BY <1>1, EndInvariant DEF Interpret
<1>2. CASE row.hash = call[h].hash
  <2>1. Goto(h, "await") /\ "await" \in Steps
    BY <1>2 DEF Interpret, Steps
  <2>2. PICK c \in Call : call' = [call EXCEPT ![h] = c] /\ c.step = "await"
    BY <2>1, GotoTyped DEF IdempotencyInv
  <2>3. QED
    BY <2>2, WaitingInvariant
<1>3. QED
    BY <1>1, <1>2

\* The fresh row of a claim.
LEMMA ClaimedTyped ==
    ASSUME NEW hash \in Hashes \union {Null}
    PROVE  /\ Claimed(hash) \in Row
           /\ Claimed(hash).present /\ ~Claimed(hash).expired
           /\ Claimed(hash).hash = hash /\ Claimed(hash).answer = Null
BY DEF Claimed, Row

\* A call that claims the key while nobody runs is the only runner.
LEMMA ClaimInvariant ==
    ASSUME IdempotencyInv, NEW h \in Calls, Goto(h, "run"), row' = Claimed(call[h].hash),
           unprotected' \/ (ran' = lost' /\ Running = {}),
           ran' \in Nat, lost' \in Nat, unprotected' \in BOOLEAN
    PROVE  IdempotencyInv'
<1>1. "run" \in Steps
    BY DEF Steps
<1>2. PICK c \in Call : /\ call' = [call EXCEPT ![h] = c]
                        /\ c.step = "run" /\ c.hash = call[h].hash
    BY <1>1, GotoTyped DEF IdempotencyInv
<1>3. call' \in [Calls -> Call] /\ \A g \in Calls : call'[g] = IF g = h THEN c ELSE call[g]
    BY <1>2 DEF IdempotencyInv, TypeOK
<1>4. call[h].hash \in Hashes \union {Null}
    BY DEF IdempotencyInv, TypeOK, Call
<1>5. /\ row' \in Row /\ row'.present /\ ~row'.expired
      /\ row'.hash = call[h].hash /\ row'.answer = Null
    BY <1>4, ClaimedTyped
<1>6. TypeOK'
    BY <1>3, <1>5 DEF TypeOK
<1>7. RowStates'
    BY <1>5 DEF RowStates
<1>8. Running' = Running \union {h}
    BY <1>2, <1>3 DEF Running
<1>9. RanMatches'
    BY <1>2, <1>3, <1>5 DEF RanMatches, Running
<1>10. RunnerOwnsRow'
    BY <1>2, <1>3, <1>5, <1>8 DEF RunnerOwnsRow
<1>11. EffectAtMostOnce' /\ AnswerIsTheRuns'
    BY <1>5 DEF EffectAtMostOnce, AnswerIsTheRuns
<1>12. QED
    BY <1>6, <1>7, <1>9, <1>10, <1>11 DEF IdempotencyInv

-----------------------------------------------------------------------------
(* One lemma per step that does more than wait.                            *)

\* Insert and TakeOver claim the key, or lose the race for it.
LEMMA InsertInvariant ==
    ASSUME IdempotencyInv, NEW h \in Calls, Insert(h)
    PROVE  IdempotencyInv'
<1>1. CASE CanInsert
  <2>1. unprotected \/ Running = {}
    BY <1>1 DEF IdempotencyInv, RunnerOwnsRow, CanInsert
  <2>2. unprotected' \/ (ran' = lost' /\ Running = {})
    BY <1>1, <2>1 DEF Insert, CanInsert, IdempotencyInv, RanMatches
  <2>3. ran' \in Nat /\ lost' \in Nat /\ unprotected' \in BOOLEAN
    BY DEF Insert, IdempotencyInv, TypeOK
  <2>4. QED
    BY <1>1, <2>2, <2>3, ClaimInvariant DEF Insert
<1>2. CASE ~CanInsert
  <2>1. Goto(h, "reread") /\ UNCHANGED <<row, history>> /\ "reread" \in Steps
    BY <1>2 DEF Insert, Steps
  <2>2. PICK c \in Call : call' = [call EXCEPT ![h] = c] /\ c.step = "reread"
    BY <2>1, GotoTyped DEF IdempotencyInv
  <2>3. QED
    BY <2>1, <2>2, WaitingInvariant
<1>3. QED
    BY <1>1, <1>2

\* The claim of an expired row starts the count anew.
LEMMA TakeOverInvariant ==
    ASSUME IdempotencyInv, NEW h \in Calls, TakeOver(h)
    PROVE  IdempotencyInv'
<1>1. CASE CanTakeOver
  <2>1. Running = {} /\ ran' = 0 /\ lost' = 0 /\ unprotected' = FALSE
    BY <1>1 DEF TakeOver, CanTakeOver, IdempotencyInv, RowStates
  <2>2. ran' \in Nat /\ lost' \in Nat
    BY <2>1
  <2>3. unprotected' \in BOOLEAN
    BY <2>1
  <2>4. row' = Claimed(call[h].hash) /\ Goto(h, "run")
    BY <1>1 DEF TakeOver
  <2>5. QED
    BY <2>1, <2>2, <2>3, <2>4, ClaimInvariant
<1>2. CASE ~CanTakeOver
  <2>1. Goto(h, "reread") /\ UNCHANGED <<row, history>> /\ "reread" \in Steps
    BY <1>2 DEF TakeOver, Steps
  <2>2. PICK c \in Call : call' = [call EXCEPT ![h] = c] /\ c.step = "reread"
    BY <2>1, GotoTyped DEF IdempotencyInv
  <2>3. QED
    BY <2>1, <2>2, WaitingInvariant
<1>3. QED
    BY <1>1, <1>2

\* A call that goes on without a row gives up the protection, and says so.
LEMMA RereadInvariant ==
    ASSUME IdempotencyInv, NEW h \in Calls, Reread(h)
    PROVE  IdempotencyInv'
<1>1. CASE row.present
    BY <1>1, InterpretInvariant DEF Reread
<1>2. CASE ~row.present
  <2>1. Goto(h, "run") /\ unprotected' = TRUE /\ UNCHANGED <<row, ran, lost>> /\ "run" \in Steps
    BY <1>2 DEF Reread, Steps
  <2>2. PICK c \in Call : call' = [call EXCEPT ![h] = c]
    BY <2>1, GotoTyped DEF IdempotencyInv
  <2>3. call' \in [Calls -> Call]
    BY <2>2 DEF IdempotencyInv, TypeOK
  <2>4. TypeOK'
    BY <2>1, <2>3 DEF IdempotencyInv, TypeOK
  <2>5. row = NoRow /\ ~row.present /\ ~row.expired
    BY <1>2 DEF IdempotencyInv, RowStates, NoRow
  <2>6. RowStates'
    BY <2>1, <2>5 DEF RowStates
  <2>7. RanMatches' /\ EffectAtMostOnce' /\ RunnerOwnsRow' /\ AnswerIsTheRuns'
    BY <2>1 DEF RanMatches, EffectAtMostOnce, RunnerOwnsRow, AnswerIsTheRuns
  <2>8. QED
    BY <2>4, <2>6, <2>7 DEF IdempotencyInv
<1>3. QED
    BY <1>1, <1>2

\* Awaiting an answer changes nothing but the call.
LEMMA AwaitInvariant == ASSUME IdempotencyInv, NEW h \in Calls, Await(h) PROVE IdempotencyInv'
<1>1. call[h] \in Call /\ row \in Row
    BY DEF IdempotencyInv, TypeOK
<1>2. UNCHANGED <<row, history>> /\ call[h].step = "await"
    BY DEF Await, At
<1>3. CASE row.present /\ row.answer # Null
  <2>1. PICK c : c = [call[h] EXCEPT !.step = "replay", !.seen = row.answer]
    OBVIOUS
  <2>2. c \in Call /\ c.step = "replay"
    BY <1>1, <2>1 DEF Call, Row, Steps
  <2>3. call' = [call EXCEPT ![h] = c]
    BY <1>3, <2>1 DEF Await
  <2>4. QED
    BY <1>2, <2>2, <2>3, WaitingInvariant
<1>4. CASE row.present /\ row.answer = Null /\ MayReadAgain(call[h].attempt)
  <2>1. PICK next : next = call[h].attempt + 1
    OBVIOUS
  <2>2. next \in 0 .. Attempts - 1
    BY <1>1, <1>4, <2>1, AttemptsAssumption DEF MayReadAgain, Call
  <2>3. PICK c : c = [call[h] EXCEPT !.attempt = next]
    OBVIOUS
  <2>4. c \in Call /\ c.step = "await"
    BY <1>1, <1>2, <2>2, <2>3 DEF Call
  <2>5. call' = [call EXCEPT ![h].attempt = next]
    BY <1>4, <2>1 DEF Await
  <2>6. call' = [call EXCEPT ![h] = c]
    BY <2>3, <2>5
  <2>7. QED
    BY <1>2, <2>4, <2>6, WaitingInvariant
<1>5. CASE ~row.present \/ (row.answer = Null /\ ~MayReadAgain(call[h].attempt))
  <2>1. End(h)
    BY <1>5 DEF Await
  <2>2. QED
    BY <1>2, <2>1, EndInvariant
<1>6. QED
    BY <1>3, <1>4, <1>5

\* The handler takes effect: until then its key had none.
LEMMA SucceedInvariant ==
    ASSUME IdempotencyInv, NEW h \in Calls, Succeed(h)
    PROVE  IdempotencyInv'
<1>1. /\ call[h].step = "run" /\ Goto(h, "complete") /\ "complete" \in Steps
      /\ ran' = ran + 1 /\ UNCHANGED <<row, lost, unprotected>>
      /\ ran \in Nat /\ lost \in Nat
    BY DEF Succeed, At, Steps, IdempotencyInv, TypeOK
<1>2. PICK c \in Call : /\ call' = [call EXCEPT ![h] = c]
                        /\ c.step = "complete" /\ c.hash = call[h].hash
    BY <1>1, GotoTyped DEF IdempotencyInv
<1>3. call' \in [Calls -> Call] /\ \A g \in Calls : call'[g] = IF g = h THEN c ELSE call[g]
    BY <1>2 DEF IdempotencyInv, TypeOK
<1>4. TypeOK'
    BY <1>1, <1>3 DEF IdempotencyInv, TypeOK
<1>5. Running' = Running /\ h \in Running
    BY <1>1, <1>2, <1>3 DEF Running
<1>6. RowStates'
    BY <1>1, <1>5 DEF IdempotencyInv, RowStates
<1>7. unprotected \/ (Running = {h} /\ ran = lost /\ row.present /\ row.answer = Null)
    BY <1>1, <1>5 DEF IdempotencyInv, RunnerOwnsRow, RanMatches
<1>8. RanMatches'
    BY <1>1, <1>2, <1>3, <1>5, <1>7 DEF RanMatches, Running
<1>9. RunnerOwnsRow'
    BY <1>1, <1>2, <1>3, <1>5 DEF IdempotencyInv, RunnerOwnsRow
<1>10. EffectAtMostOnce' /\ AnswerIsTheRuns'
    BY <1>1, <1>7 DEF EffectAtMostOnce, AnswerIsTheRuns
<1>11. QED
    BY <1>4, <1>6, <1>8, <1>9, <1>10 DEF IdempotencyInv

\* A handler that threw still owns its row until it is released.
LEMMA FailInvariant == ASSUME IdempotencyInv, NEW h \in Calls, Fail(h) PROVE IdempotencyInv'
<1>1. /\ call[h].step = "run" /\ Goto(h, "release") /\ "release" \in Steps
      /\ UNCHANGED <<row, history>>
    BY DEF Fail, At, Steps
<1>2. PICK c \in Call : /\ call' = [call EXCEPT ![h] = c]
                        /\ c.step = "release" /\ c.hash = call[h].hash
    BY <1>1, GotoTyped DEF IdempotencyInv
<1>3. call' \in [Calls -> Call] /\ \A g \in Calls : call'[g] = IF g = h THEN c ELSE call[g]
    BY <1>2 DEF IdempotencyInv, TypeOK
<1>4. TypeOK'
    BY <1>1, <1>3 DEF IdempotencyInv, TypeOK
<1>5. Running' = Running
    BY <1>1, <1>2, <1>3 DEF Running
<1>6. RowStates'
    BY <1>1, <1>5 DEF IdempotencyInv, RowStates
<1>7. RanMatches'
    BY <1>1, <1>2, <1>3 DEF IdempotencyInv, RanMatches
<1>8. RunnerOwnsRow'
    BY <1>1, <1>2, <1>3, <1>5 DEF IdempotencyInv, RunnerOwnsRow
<1>9. QED
    BY <1>1, <1>4, <1>6, <1>7, <1>8 DEF IdempotencyInv, EffectAtMostOnce, AnswerIsTheRuns

\* Nor is one that threw after it had committed followed by another before that.
LEMMA FailAfterCommitInvariant ==
    ASSUME IdempotencyInv, NEW h \in Calls, FailAfterCommit(h)
    PROVE  IdempotencyInv'
<1>1. /\ call[h].step = "run" /\ Goto(h, "release") /\ "release" \in Steps
      /\ ran' = ran + 1 /\ lost' = lost + 1 /\ UNCHANGED <<row, unprotected>>
      /\ ran \in Nat /\ lost \in Nat
    BY DEF FailAfterCommit, At, Steps, IdempotencyInv, TypeOK
<1>2. PICK c \in Call : /\ call' = [call EXCEPT ![h] = c]
                        /\ c.step = "release" /\ c.hash = call[h].hash
    BY <1>1, GotoTyped DEF IdempotencyInv
<1>3. call' \in [Calls -> Call] /\ \A g \in Calls : call'[g] = IF g = h THEN c ELSE call[g]
    BY <1>2 DEF IdempotencyInv, TypeOK
<1>4. TypeOK'
    BY <1>1, <1>3 DEF IdempotencyInv, TypeOK
<1>5. Running' = Running /\ h \in Running
    BY <1>1, <1>2, <1>3 DEF Running
<1>6. RowStates'
    BY <1>1, <1>5 DEF IdempotencyInv, RowStates
<1>7. unprotected \/ (Running = {h} /\ ran = lost /\ row.present /\ row.answer = Null)
    BY <1>1, <1>5 DEF IdempotencyInv, RunnerOwnsRow, RanMatches
<1>8. RanMatches'
    BY <1>1, <1>2, <1>3, <1>5, <1>7 DEF RanMatches, Running
<1>9. RunnerOwnsRow'
    BY <1>1, <1>2, <1>3, <1>5 DEF IdempotencyInv, RunnerOwnsRow
<1>10. EffectAtMostOnce' /\ AnswerIsTheRuns'
    BY <1>1, <1>7 DEF EffectAtMostOnce, AnswerIsTheRuns
<1>11. QED
    BY <1>4, <1>6, <1>8, <1>9, <1>10 DEF IdempotencyInv

\* The end of the one runner, whatever it does to its row.
LEMMA RunnerEndInvariant ==
    ASSUME IdempotencyInv, NEW h \in Calls, h \in Running, End(h), row' \in Row,
           UNCHANGED history,
           row'.expired => row.expired,
           ~row'.present => row' = NoRow,
           unprotected \/ (~row'.present => ran = lost),
           unprotected \/ row'.answer = Null \/ (row'.answer = row'.hash /\ ran = lost + 1)
    PROVE  IdempotencyInv'
<1>1. call' = [call EXCEPT ![h] = Idle] /\ Idle \in Call /\ Idle.step = "idle"
    BY IdleTyped DEF End
<1>2. call' \in [Calls -> Call] /\ \A g \in Calls : call'[g] = IF g = h THEN Idle ELSE call[g]
    BY <1>1 DEF IdempotencyInv, TypeOK
<1>3. TypeOK'
    BY <1>2 DEF IdempotencyInv, TypeOK
<1>4. Running' = Running \ {h}
    BY <1>1, <1>2 DEF Running
<1>5. ~row'.expired
    BY DEF IdempotencyInv, RowStates
<1>6. RowStates'
    BY <1>5 DEF RowStates
<1>7. RanMatches'
    BY <1>1, <1>2 DEF IdempotencyInv, RanMatches
<1>8. unprotected \/ Running' = {}
    BY <1>4 DEF IdempotencyInv, RunnerOwnsRow
<1>9. RunnerOwnsRow'
    BY <1>8 DEF RunnerOwnsRow
<1>10. EffectAtMostOnce' /\ AnswerIsTheRuns'
    BY DEF IdempotencyInv, EffectAtMostOnce, AnswerIsTheRuns
<1>11. QED
    BY <1>3, <1>6, <1>7, <1>9, <1>10 DEF IdempotencyInv

\* The stored answer is that of the runner, whose row it is.
LEMMA CompleteInvariant ==
    ASSUME IdempotencyInv, NEW h \in Calls, Complete(h)
    PROVE  IdempotencyInv'
<1>1. /\ call[h].step = "complete" /\ End(h) /\ UNCHANGED history
      /\ row \in Row /\ call[h].hash \in Hashes \union {Null}
    BY DEF Complete, At, IdempotencyInv, TypeOK, Call
<1>2. h \in Running
    BY <1>1 DEF Running
<1>3. unprotected \/ (row.present /\ row.hash = call[h].hash /\ ran = lost + 1)
    BY <1>1, <1>2 DEF IdempotencyInv, RunnerOwnsRow, RanMatches
<1>4. CASE row.present
  <2>1. row' = [row EXCEPT !.answer = call[h].hash]
    BY <1>4 DEF Complete
  <2>2. /\ row' \in Row /\ row'.present /\ row'.expired = row.expired
        /\ row'.hash = row.hash /\ row'.answer = call[h].hash
    BY <1>1, <1>4, <2>1 DEF Row
  <2>3. QED
    BY <1>1, <1>2, <1>3, <2>2, RunnerEndInvariant
<1>5. CASE ~row.present
  <2>1. row' = row /\ row = NoRow /\ unprotected
    BY <1>3, <1>5 DEF Complete, IdempotencyInv, RowStates
  <2>2. QED
    BY <1>1, <1>2, <2>1, RunnerEndInvariant
<1>6. QED
    BY <1>4, <1>5

\* A key is freed by a runner that had no effect, or threw after it had.
LEMMA ReleaseInvariant ==
    ASSUME IdempotencyInv, NEW h \in Calls, Release(h)
    PROVE  IdempotencyInv'
<1>1. /\ call[h].step = "release" /\ End(h) /\ UNCHANGED history
      /\ row' = NoRow
    BY DEF Release, At
<1>2. h \in Running
    BY <1>1 DEF Running
<1>3. row' \in Row /\ ~row'.present /\ ~row'.expired /\ row'.answer = Null
    BY <1>1 DEF NoRow, Row
<1>4. unprotected \/ ran = lost
    BY <1>1 DEF IdempotencyInv, RanMatches
<1>5. QED
    BY <1>1, <1>2, <1>3, <1>4, RunnerEndInvariant

\* Time passes for the row of a call that has ended.
LEMMA ExpireInvariant == ASSUME IdempotencyInv, Expire PROVE IdempotencyInv'
<1>1. /\ row.present /\ Running = {} /\ row' = [row EXCEPT !.expired = TRUE]
      /\ UNCHANGED <<call, history>> /\ row \in Row
    BY DEF Expire, IdempotencyInv, TypeOK
<1>2. /\ row' \in Row /\ row'.present /\ row'.expired
      /\ row'.hash = row.hash /\ row'.answer = row.answer
    BY <1>1 DEF Row
<1>3. Running' = {}
    BY <1>1 DEF Running
<1>4. TypeOK'
    BY <1>1, <1>2 DEF IdempotencyInv, TypeOK
<1>5. RowStates'
    BY <1>2, <1>3 DEF RowStates
<1>6. RanMatches'
    BY <1>1, <1>2 DEF IdempotencyInv, RanMatches
<1>7. RunnerOwnsRow'
    BY <1>3 DEF RunnerOwnsRow
<1>8. EffectAtMostOnce' /\ AnswerIsTheRuns'
    BY <1>1, <1>2 DEF IdempotencyInv, EffectAtMostOnce, AnswerIsTheRuns
<1>9. QED
    BY <1>4, <1>5, <1>6, <1>7, <1>8 DEF IdempotencyInv

\* A call arrives with a body.
LEMMA ArriveInvariant ==
    ASSUME IdempotencyInv, NEW h \in Calls, NEW hash \in Hashes, Arrive(h, hash)
    PROVE  IdempotencyInv'
<1>1. PICK c : c = [Idle EXCEPT !.step = "read", !.hash = hash]
    OBVIOUS
<1>2. c \in Call /\ c.step = "read"
    BY <1>1, IdleTyped DEF Call, Steps
<1>3. call' = [call EXCEPT ![h] = c] /\ UNCHANGED <<row, history>>
    BY <1>1 DEF Arrive
<1>4. QED
    BY <1>2, <1>3, WaitingInvariant

\* The first read decides where a call goes, and writes nothing.
LEMMA ReadInvariant == ASSUME IdempotencyInv, NEW h \in Calls, Read(h) PROVE IdempotencyInv'
<1>1. UNCHANGED <<row, history>>
    BY DEF Read
<1>2. ASSUME NEW step \in {"insert", "takeOver"}, Goto(h, step) PROVE IdempotencyInv'
  <2>1. step \in Steps
    BY DEF Steps
  <2>2. PICK c \in Call : call' = [call EXCEPT ![h] = c] /\ c.step = step
    BY <1>2, <2>1, GotoTyped DEF IdempotencyInv
  <2>3. QED
    BY <1>1, <2>2, WaitingInvariant
<1>3. CASE Interpret(h)
    BY <1>1, <1>3, InterpretInvariant
<1>4. QED
    BY <1>2, <1>3 DEF Read

-----------------------------------------------------------------------------
\* Every step keeps the invariant.
LEMMA IdempotencyStep == IdempotencyInv /\ [Next]_vars => IdempotencyInv'
<1> SUFFICES ASSUME IdempotencyInv, [Next]_vars PROVE IdempotencyInv'
    OBVIOUS
<1>1. CASE UNCHANGED vars
    BY <1>1 DEF vars, IdempotencyInv, TypeOK, RowStates, RanMatches, EffectAtMostOnce,
       RunnerOwnsRow,
                AnswerIsTheRuns, Running
<1>2. CASE Expire
    BY <1>2, ExpireInvariant
<1>3. ASSUME NEW h \in Calls, NEW hash \in Hashes, Arrive(h, hash) PROVE IdempotencyInv'
    BY <1>3, ArriveInvariant
<1>4. ASSUME NEW h \in Calls,
             \/ Read(h) \/ Insert(h) \/ TakeOver(h) \/ Reread(h) \/ Await(h)
             \/ Succeed(h) \/ Fail(h) \/ FailAfterCommit(h)
             \/ Complete(h) \/ Release(h)
      PROVE  IdempotencyInv'
    BY <1>4, ReadInvariant, InsertInvariant, TakeOverInvariant, RereadInvariant,
       AwaitInvariant, SucceedInvariant, FailInvariant, FailAfterCommitInvariant,
       CompleteInvariant, ReleaseInvariant
<1>5. ASSUME NEW h \in Calls, Replay(h) \/ Break(h) PROVE IdempotencyInv'
    BY <1>5, EndInvariant DEF Replay, Break
<1>6. QED
    BY <1>1, <1>2, <1>3, <1>4, <1>5 DEF Next

\* The invariant holds in every reachable state.
THEOREM IdempotencyInvariant == Spec => []IdempotencyInv
<1>1. Init => IdempotencyInv
    BY IdempotencyStart
<1>2. IdempotencyInv /\ [Next]_vars => IdempotencyInv'
    BY IdempotencyStep
<1>3. QED
    BY <1>1, <1>2, PTL DEF Spec

\* However many calls bring a key, and whichever of them fail or crash, its handler
\* takes effect at most once more than it has thrown after it had committed, until
\* the key is taken over, unless the service has logged that a call went on without
\* a row.
THEOREM AtMostOnce == Spec => []EffectAtMostOnce
<1>1. IdempotencyInv => EffectAtMostOnce
    BY DEF IdempotencyInv
<1>2. QED
    BY <1>1, IdempotencyInvariant, PTL

\* The call that runs the handler is alone with a row that is its own, so that
\* complete and release, which go by the key, reach no other call's row.
THEOREM RunnerAlone == Spec => []RunnerOwnsRow
<1>1. IdempotencyInv => RunnerOwnsRow
    BY DEF IdempotencyInv
<1>2. QED
    BY <1>1, IdempotencyInvariant, PTL

\* A stored answer belongs to the fingerprint in its row and to the one run that took
\* effect without throwing.
THEOREM StoredAnswer == Spec => []AnswerIsTheRuns
<1>1. IdempotencyInv => AnswerIsTheRuns
    BY DEF IdempotencyInv
<1>2. QED
    BY <1>1, IdempotencyInvariant, PTL

HIDE DEF history

-----------------------------------------------------------------------------
(* The counters of the login's throttler.                                  *)

\* The buckets of a try that are not counted yet, and those that are to be
\* emptied, which are all that hold it.
TriesAreOrdered ==
    \A v \in Visitors :
        /\ visiting[v].step = "count" => visiting[v].left \intersect visiting[v].counted = {}
        /\ visiting[v].step = "forget" => visiting[v].left = visiting[v].counted

FewAreUnderway == \A b \in Buckets : IsFiniteSet(Underway(b))

RateLimitsInv ==
    RateLimitsTypeOK /\ TriesAreOrdered /\ FewAreUnderway /\ OnlyFailuresStayCounted

-----------------------------------------------------------------------------
\* Nothing is counted and no try is under way.
LEMMA RateLimitsStart == RateLimitsInit => RateLimitsInv
<1> SUFFICES ASSUME RateLimitsInit PROVE RateLimitsInv
    OBVIOUS
<1>1. RateLimitsTypeOK /\ TriesAreOrdered
  BY DEF RateLimitsInit, RateLimitsTypeOK, TriesAreOrdered, NotVisiting, Visiting
<1>2. \A b \in Buckets : Underway(b) = {}
  BY DEF RateLimitsInit, Underway, NotVisiting
<1>3. FewAreUnderway
  BY <1>2, FS_EmptySet DEF FewAreUnderway
<1>4. OnlyFailuresStayCounted
  <2> SUFFICES ASSUME NEW b \in Buckets
               PROVE  counter[b] <= unforgiven[b] + Cardinality(Underway(b))
      BY DEF OnlyFailuresStayCounted
  <2>1. counter[b] = 0 /\ unforgiven[b] = 0 /\ Cardinality(Underway(b)) = 0
    BY <1>2, FS_EmptySet DEF RateLimitsInit
  <2> QED BY <2>1
<1> QED BY <1>1, <1>3, <1>4 DEF RateLimitsInv

\* A call that is replaced by another one is in a bucket's tries, or is not, by
\* what the new one counts.
LEMMA UnderwayThen ==
    ASSUME RateLimitsInv, NEW v \in Visitors, NEW t \in Visiting,
           visiting' = [visiting EXCEPT ![v] = t], NEW b \in Buckets
    PROVE  /\ Underway(b)' = IF b \in t.counted THEN Underway(b) \union {v}
                                                ELSE Underway(b) \ {v}
           /\ IsFiniteSet(Underway(b)')
           /\ Cardinality(Underway(b)') \in Nat /\ Cardinality(Underway(b)) \in Nat
           /\ Cardinality(Underway(b)') = Cardinality(Underway(b))
                + (IF b \in t.counted THEN 1 ELSE 0)
                - (IF b \in visiting[v].counted THEN 1 ELSE 0)
<1>1. visiting \in [Visitors -> Visiting] /\ IsFiniteSet(Underway(b))
  BY DEF RateLimitsInv, RateLimitsTypeOK, FewAreUnderway
<1>2. Underway(b)' = IF b \in t.counted THEN Underway(b) \union {v} ELSE Underway(b) \ {v}
  BY <1>1 DEF Underway
<1>3. v \in Underway(b) <=> b \in visiting[v].counted
  BY DEF Underway
<1>4. /\ IsFiniteSet(Underway(b) \union {v})
      /\ Cardinality(Underway(b) \union {v}) =
            IF v \in Underway(b) THEN Cardinality(Underway(b)) ELSE Cardinality(Underway(b)) + 1
  BY <1>1, FS_AddElement
<1>5. /\ IsFiniteSet(Underway(b) \ {v})
      /\ Cardinality(Underway(b) \ {v}) =
            IF v \in Underway(b) THEN Cardinality(Underway(b)) - 1 ELSE Cardinality(Underway(b))
  BY <1>1, FS_RemoveElement
<1>6. IsFiniteSet(Underway(b)')
  BY <1>2, <1>4, <1>5
<1>7. Cardinality(Underway(b)') \in Nat /\ Cardinality(Underway(b)) \in Nat
  BY <1>1, <1>6, FS_CardinalityType
<1>8. CASE b \in t.counted
  BY <1>2, <1>3, <1>4, <1>6, <1>7, <1>8
<1>9. CASE b \notin t.counted
  BY <1>2, <1>3, <1>5, <1>6, <1>7, <1>9
<1> QED BY <1>8, <1>9

\* A step of one call keeps the invariant if each counter grows by no more than
\* the tries that are held, failed or under way.
LEMMA VisitKeeps ==
    ASSUME RateLimitsInv, NEW v \in Visitors, NEW t \in Visiting,
           visiting' = [visiting EXCEPT ![v] = t],
           t.step = "count" => t.left \intersect t.counted = {},
           t.step = "forget" => t.left = t.counted,
           counter' \in [Buckets -> Nat], unforgiven' \in [Buckets -> Nat],
           \A b \in Buckets :
              \/ counter'[b] = 0
              \/ counter'[b] - counter[b] <= unforgiven'[b] - unforgiven[b]
                    + (IF b \in t.counted THEN 1 ELSE 0)
                    - (IF b \in visiting[v].counted THEN 1 ELSE 0)
    PROVE  RateLimitsInv'
<1>1. RateLimitsTypeOK' /\ TriesAreOrdered'
  BY DEF RateLimitsInv, RateLimitsTypeOK, TriesAreOrdered
<1>2. FewAreUnderway'
  BY UnderwayThen DEF FewAreUnderway
<1>3. OnlyFailuresStayCounted'
  <2> SUFFICES ASSUME NEW b \in Buckets
               PROVE  counter'[b] <= unforgiven'[b] + Cardinality(Underway(b)')
      BY DEF OnlyFailuresStayCounted
  <2>1. /\ counter[b] \in Nat /\ unforgiven[b] \in Nat
        /\ counter'[b] \in Nat /\ unforgiven'[b] \in Nat
        /\ counter[b] <= unforgiven[b] + Cardinality(Underway(b))
    BY DEF RateLimitsInv, RateLimitsTypeOK, OnlyFailuresStayCounted
  <2>2. /\ Cardinality(Underway(b)') \in Nat /\ Cardinality(Underway(b)) \in Nat
        /\ Cardinality(Underway(b)') = Cardinality(Underway(b))
              + (IF b \in t.counted THEN 1 ELSE 0)
              - (IF b \in visiting[v].counted THEN 1 ELSE 0)
    BY UnderwayThen
  <2> QED BY <2>1, <2>2
<1> QED BY <1>1, <1>2, <1>3 DEF RateLimitsInv

\* What every step starts from.
LEMMA VisitTyped ==
    ASSUME RateLimitsInv, NEW v \in Visitors
    PROVE  /\ visiting[v] \in Visiting /\ NotVisiting \in Visiting
           /\ counter \in [Buckets -> Nat] /\ unforgiven \in [Buckets -> Nat]
BY DEF RateLimitsInv, RateLimitsTypeOK, NotVisiting, Visiting

\* A call that ends leaves its try in the buckets that hold it.
LEMMA EndTryKeeps ==
    ASSUME RateLimitsInv, NEW v \in Visitors, EndTry(v)
    PROVE  RateLimitsInv'
<1>1. NotVisiting \in Visiting /\ NotVisiting.step = "idle" /\ NotVisiting.counted = {}
  BY DEF NotVisiting, Visiting
<1>2. unforgiven' \in [Buckets -> Nat] /\ counter' = counter
  BY VisitTyped DEF EndTry
<1>3. \A b \in Buckets : unforgiven'[b] = IF b \in visiting[v].counted
                                          THEN unforgiven[b] + 1 ELSE unforgiven[b]
  BY DEF EndTry
<1>4. \A b \in Buckets :
         counter'[b] - counter[b] <= unforgiven'[b] - unforgiven[b]
            + (IF b \in NotVisiting.counted THEN 1 ELSE 0)
            - (IF b \in visiting[v].counted THEN 1 ELSE 0)
  BY <1>1, <1>2, <1>3, VisitTyped
<1>5. visiting' = [visiting EXCEPT ![v] = NotVisiting] /\ counter' \in [Buckets -> Nat]
  BY <1>2, VisitTyped DEF EndTry
<1> QED BY <1>1, <1>2, <1>4, <1>5, VisitKeeps

\* A try is counted in one bucket before the password is looked at.
LEMMA CountTryKeeps ==
    ASSUME RateLimitsInv, NEW v \in Visitors, NEW b \in Buckets, CountTry(v, b)
    PROVE  RateLimitsInv'
<1> DEFINE r == visiting[v].refused \/ Full(b)
           t == [visiting[v] EXCEPT !.left = visiting[v].left \ {b},
                                    !.counted = visiting[v].counted \union {b}, !.refused = r]
<1>1. visiting[v] \in Visiting /\ visiting[v].step = "count" /\ b \in visiting[v].left
  BY VisitTyped DEF CountTry
<1>2. visiting[v].left \intersect visiting[v].counted = {}
  BY <1>1 DEF RateLimitsInv, TriesAreOrdered
<1>3. r \in BOOLEAN
  BY <1>1 DEF Visiting, Full
<1>4. visiting' = [visiting EXCEPT ![v] = t]
  BY VisitTyped DEF CountTry
<1> HIDE DEF r
<1>5. /\ t \in Visiting /\ t.step = "count"
      /\ t.left = visiting[v].left \ {b} /\ t.counted = visiting[v].counted \union {b}
  BY <1>1, <1>3 DEF Visiting
<1> HIDE DEF t
<1>6. counter' = [counter EXCEPT ![b] = counter[b] + 1] /\ unforgiven' = unforgiven
  BY DEF CountTry, Consume
<1>7. counter' \in [Buckets -> Nat] /\ unforgiven' \in [Buckets -> Nat]
  BY <1>6, VisitTyped
<1>8. t.left \intersect t.counted = {}
  BY <1>2, <1>5
<1>9. b \notin visiting[v].counted
  BY <1>1, <1>2
<1>10. \A a \in Buckets :
          counter'[a] - counter[a] <= unforgiven'[a] - unforgiven[a]
             + (IF a \in t.counted THEN 1 ELSE 0)
             - (IF a \in visiting[v].counted THEN 1 ELSE 0)
  <2> SUFFICES ASSUME NEW a \in Buckets
               PROVE  counter'[a] - counter[a] <= unforgiven'[a] - unforgiven[a]
                        + (IF a \in t.counted THEN 1 ELSE 0)
                        - (IF a \in visiting[v].counted THEN 1 ELSE 0)
      OBVIOUS
  <2>1. counter[a] \in Nat /\ unforgiven[a] \in Nat
    BY VisitTyped
  <2>2. CASE a = b
    BY <1>5, <1>6, <1>9, <2>1, <2>2, VisitTyped
  <2>3. CASE a # b
    BY <1>5, <1>6, <2>1, <2>3, VisitTyped
  <2> QED BY <2>2, <2>3
<1> QED BY <1>4, <1>5, <1>7, <1>8, <1>10, VisitKeeps

\* A login that has succeeded empties its buckets, or the reset fails.
LEMMA ResetKeeps ==
    ASSUME RateLimitsInv, NEW v \in Visitors, NEW b \in Buckets,
           ResetBucket(v, b) \/ ResetFails(v, b)
    PROVE  RateLimitsInv'
<1> DEFINE t == [visiting[v] EXCEPT !.left = visiting[v].left \ {b},
                                    !.counted = visiting[v].counted \ {b}]
<1>1. visiting[v] \in Visiting /\ visiting[v].step = "forget" /\ b \in visiting[v].left
  BY VisitTyped DEF ResetBucket, ResetFails
<1>2. visiting[v].left = visiting[v].counted
  BY <1>1 DEF RateLimitsInv, TriesAreOrdered
<1>3. visiting' = [visiting EXCEPT ![v] = t]
  BY VisitTyped DEF ResetBucket, ResetFails
<1>4. /\ t \in Visiting /\ t.step = "forget"
      /\ t.left = visiting[v].left \ {b} /\ t.counted = visiting[v].counted \ {b}
  BY <1>1 DEF Visiting
<1> HIDE DEF t
<1>5. t.left = t.counted
  BY <1>2, <1>4
<1>6. /\ counter' \in [Buckets -> Nat] /\ unforgiven' \in [Buckets -> Nat]
      /\ \A a \in Buckets \ {b} : counter'[a] = counter[a] /\ unforgiven'[a] = unforgiven[a]
      /\ \/ counter'[b] = 0
         \/ counter'[b] = counter[b] /\ unforgiven'[b] = unforgiven[b] + 1
  BY VisitTyped DEF ResetBucket, ResetFails
<1>7. \A a \in Buckets :
          \/ counter'[a] = 0
          \/ counter'[a] - counter[a] <= unforgiven'[a] - unforgiven[a]
                + (IF a \in t.counted THEN 1 ELSE 0)
                - (IF a \in visiting[v].counted THEN 1 ELSE 0)
  <2> SUFFICES ASSUME NEW a \in Buckets, counter'[a] # 0
               PROVE  counter'[a] - counter[a] <= unforgiven'[a] - unforgiven[a]
                        + (IF a \in t.counted THEN 1 ELSE 0)
                        - (IF a \in visiting[v].counted THEN 1 ELSE 0)
      OBVIOUS
  <2>1. counter[a] \in Nat /\ unforgiven[a] \in Nat
    BY VisitTyped
  <2>2. CASE a = b
    BY <1>4, <1>6, <2>1, <2>2
  <2>3. CASE a # b
    BY <1>4, <1>6, <2>1, <2>3
  <2> QED BY <2>2, <2>3
<1> QED BY <1>3, <1>4, <1>5, <1>6, <1>7, VisitKeeps

\* The steps that leave the counters as they are.
LEMMA QuietVisitKeeps ==
    ASSUME RateLimitsInv, NEW v \in Visitors, NEW t \in Visiting,
           visiting' = [visiting EXCEPT ![v] = t], t.counted = visiting[v].counted,
           t.step = "count" => t.left \intersect t.counted = {},
           t.step = "forget" => t.left = t.counted,
           UNCHANGED <<counter, unforgiven>>
    PROVE  RateLimitsInv'
<1>1. \A b \in Buckets :
         counter'[b] - counter[b] <= unforgiven'[b] - unforgiven[b]
            + (IF b \in t.counted THEN 1 ELSE 0)
            - (IF b \in visiting[v].counted THEN 1 ELSE 0)
  BY VisitTyped
<1>2. counter' \in [Buckets -> Nat] /\ unforgiven' \in [Buckets -> Nat]
  BY VisitTyped
<1> QED BY <1>1, <1>2, VisitKeeps

\* A try begins, is let through, or goes on; no bucket changes.
LEMMA OtherVisitsKeep ==
    ASSUME RateLimitsInv, NEW v \in Visitors,
           \/ \E bs \in SUBSET Buckets : StartPasswordLogin(v, bs)
           \/ AssertLoginAllowed(v) \/ PasswordMatches(v) \/ LoginSucceeds(v)
    PROVE  RateLimitsInv'
<1>0. /\ visiting[v] \in Visiting /\ NotVisiting \in Visiting
      /\ NotVisiting.step = "idle" /\ NotVisiting.counted = {}
  BY VisitTyped DEF NotVisiting
<1>1. ASSUME NEW bs \in SUBSET Buckets, StartPasswordLogin(v, bs) PROVE RateLimitsInv'
  <2> DEFINE t == [NotVisiting EXCEPT !.step = "count", !.left = bs]
  <2>1. t \in Visiting /\ t.step = "count" /\ t.counted = {}
    BY DEF NotVisiting, Visiting
  <2>2. visiting' = [visiting EXCEPT ![v] = t] /\ visiting[v].counted = {}
    BY <1>0, <1>1 DEF StartPasswordLogin
  <2> HIDE DEF t
  <2> QED BY <1>1, <2>1, <2>2, QuietVisitKeeps DEF StartPasswordLogin
<1>2. CASE AssertLoginAllowed(v)
  <2>1. CASE visiting[v].refused
    BY <1>2, <2>1, EndTryKeeps DEF AssertLoginAllowed
  <2>2. CASE ~visiting[v].refused
    <3> DEFINE t == [visiting[v] EXCEPT !.step = "verify"]
    <3>1. t \in Visiting /\ t.step = "verify" /\ t.counted = visiting[v].counted
      BY <1>0 DEF Visiting
    <3>2. visiting' = [visiting EXCEPT ![v] = t] /\ UNCHANGED <<counter, unforgiven>>
      BY <1>2, <2>2 DEF AssertLoginAllowed
    <3> HIDE DEF t
    <3> QED BY <3>1, <3>2, QuietVisitKeeps
  <2> QED BY <2>1, <2>2
<1>3. CASE PasswordMatches(v)
  <2> DEFINE t == [visiting[v] EXCEPT !.step = "forget", !.left = visiting[v].counted]
  <2>1. /\ t \in Visiting /\ t.step = "forget"
        /\ t.counted = visiting[v].counted /\ t.left = visiting[v].counted
    BY <1>0 DEF Visiting
  <2>2. visiting' = [visiting EXCEPT ![v] = t]
    BY <1>0, <1>3, VisitTyped DEF PasswordMatches, Forgets
  <2> HIDE DEF t
  <2> QED BY <1>3, <2>1, <2>2, QuietVisitKeeps DEF PasswordMatches
<1>4. CASE LoginSucceeds(v)
  <2>1. visiting[v].counted = {}
    BY <1>4 DEF LoginSucceeds, RateLimitsInv, TriesAreOrdered
  <2> QED BY <1>0, <1>4, <2>1, QuietVisitKeeps DEF LoginSucceeds
<1> QED BY <1>1, <1>2, <1>3, <1>4

\* A window passes: the counts of the one before are forgotten.
LEMMA NextQuarterKeeps == ASSUME RateLimitsInv, NextQuarter PROVE RateLimitsInv'
<1>1. RateLimitsTypeOK' /\ TriesAreOrdered'
  BY DEF NextQuarter, RateLimitsInv, RateLimitsTypeOK, TriesAreOrdered
<1>2. \A b \in Buckets : Underway(b)' = Underway(b) /\ counter'[b] = 0 /\ unforgiven'[b] = 0
  BY DEF NextQuarter, Underway
<1>3. FewAreUnderway'
  BY <1>2 DEF RateLimitsInv, FewAreUnderway
<1>4. \A b \in Buckets : Cardinality(Underway(b)') \in Nat
  BY <1>3, FS_CardinalityType DEF FewAreUnderway
<1>5. OnlyFailuresStayCounted'
  BY <1>2, <1>4 DEF OnlyFailuresStayCounted
<1> QED BY <1>1, <1>3, <1>5 DEF RateLimitsInv

\* Every step keeps the invariant.
LEMMA RateLimitsStep == RateLimitsInv /\ [RateLimitsNext]_rateVars => RateLimitsInv'
<1> SUFFICES ASSUME RateLimitsInv, [RateLimitsNext]_rateVars PROVE RateLimitsInv'
    OBVIOUS
<1>1. CASE NextQuarter
  BY <1>1, NextQuarterKeeps
<1>2. ASSUME NEW v \in Visitors, NEW bs \in SUBSET Buckets, StartPasswordLogin(v, bs)
      PROVE  RateLimitsInv'
  BY <1>2, OtherVisitsKeep
<1>3. ASSUME NEW v \in Visitors, NEW b \in Buckets, CountTry(v, b)
      PROVE  RateLimitsInv'
  BY <1>3, CountTryKeeps
<1>4. ASSUME NEW v \in Visitors, NEW b \in Buckets, ResetBucket(v, b) \/ ResetFails(v, b)
      PROVE  RateLimitsInv'
  BY <1>4, ResetKeeps
<1>5. ASSUME NEW v \in Visitors, AssertLoginAllowed(v) \/ PasswordMatches(v) \/ LoginSucceeds(v)
      PROVE  RateLimitsInv'
  BY <1>5, OtherVisitsKeep
<1>6. ASSUME NEW v \in Visitors, FailLogin(v) \/ StopVisiting(v) PROVE RateLimitsInv'
  BY <1>6, EndTryKeeps DEF FailLogin, StopVisiting
<1>7. CASE UNCHANGED rateVars
  BY <1>7 DEF rateVars, RateLimitsInv, RateLimitsTypeOK, TriesAreOrdered, FewAreUnderway,
              OnlyFailuresStayCounted, Underway
<1> QED BY <1>1, <1>2, <1>3, <1>4, <1>5, <1>6, <1>7 DEF RateLimitsNext

\* A try is counted once in a bucket and forgotten in all that hold it
\* (RateLimitService as loginWithPassword uses it).
THEOREM RateLimitsInvariant == RateLimitsSpec => []RateLimitsInv
<1>1. RateLimitsInit => RateLimitsInv
  BY RateLimitsStart
<1>2. RateLimitsInv /\ [RateLimitsNext]_rateVars => RateLimitsInv'
  BY RateLimitsStep
<1> QED BY <1>1, <1>2, PTL DEF RateLimitsSpec

\* Only tries that failed stay counted: what a bucket counts beyond them is no more
\* than the tries under way, however many overlap and whichever resets fail.
THEOREM FailuresStayCounted == RateLimitsSpec => []OnlyFailuresStayCounted
<1>1. RateLimitsInv => OnlyFailuresStayCounted
  BY DEF RateLimitsInv
<1> QED BY <1>1, RateLimitsInvariant, PTL

-----------------------------------------------------------------------------
(* The refresh tokens and their families.                                  *)

\* A family bears the name of its first token, which there is as long as the family.
FamiliesBegin ==
    \A t \in Tokens :
        IF token[t].state = "none" THEN token[t].family = Unissued
        ELSE token[t].family \in Tokens /\ token[token[t].family].state # "none"

\* A login has found the member active; a rotation, its token live.
CallsWereValid ==
    \A u \in Users :
        /\ using[u].step = "issue" => using[u].valid
        /\ using[u].step = "rotate" =>
              /\ using[u].valid /\ using[u].token \in Tokens
              /\ token[using[u].token].state # "none"

\* OneLiveTokenPerFamily without Cardinality.
OneIsLive ==
    \A f \in Tokens \ forked : \A s, t \in LiveOf(f) : s = t

\* A call that is still to revoke takes away what an inactive member has.
SomebodyRevokes ==
    ~active /\ ~stray => \/ \A t \in Tokens : token[t].state # "live"
                         \/ \E u \in Users : using[u].step \in {"revokeAll", "profile"}

SessionsInv == SessionsTypeOK /\ FamiliesBegin /\ CallsWereValid /\ OneIsLive /\ SomebodyRevokes

-----------------------------------------------------------------------------
\* No token has been issued.
LEMMA SessionsStart == SessionsInit => SessionsInv
<1> SUFFICES ASSUME SessionsInit PROVE SessionsInv
    OBVIOUS
<1> USE UnissuedAssumption DEF SessionsInit
<1>1. SessionsTypeOK
    BY DEF SessionsTypeOK, Token, NoToken, Using, NotUsing
<1>2. FamiliesBegin
    BY DEF FamiliesBegin, NoToken
<1>3. CallsWereValid
    BY DEF CallsWereValid, NotUsing
<1>4. OneIsLive
    BY DEF OneIsLive, LiveOf, NoToken
<1>5. SomebodyRevokes
    BY DEF SomebodyRevokes
<1>6. QED
    BY <1>1, <1>2, <1>3, <1>4, <1>5 DEF SessionsInv

\* What Revoked does to one token.
LEMMA RevokedToken ==
    ASSUME NEW ts, NEW t \in Tokens, SessionsTypeOK
    PROVE  /\ Revoked(ts)[t] \in Token
           /\ Revoked(ts)[t].family = token[t].family
           /\ Revoked(ts)[t].state = "none" <=> token[t].state = "none"
           /\ Revoked(ts)[t].state = "live" => token[t].state = "live" /\ t \notin ts
    BY DEF Revoked, Token, SessionsTypeOK

\* A step that revokes tokens and leaves no call at "issue" or "rotate" that was
\* not there keeps the parts about tokens.
LEMMA RevokingKeeps ==
    ASSUME SessionsTypeOK, FamiliesBegin, OneIsLive, NEW ts,
           token' = Revoked(ts), forked' = forked
    PROVE  token' \in [Tokens -> Token] /\ FamiliesBegin' /\ OneIsLive'
<1>1. token' \in [Tokens -> Token]
    BY RevokedToken DEF Revoked
<1>2. \A t \in Tokens : /\ token'[t].family = token[t].family
                        /\ token'[t].state = "none" <=> token[t].state = "none"
                        /\ token'[t].state = "live" => token[t].state = "live"
    BY RevokedToken
<1>3. FamiliesBegin'
    BY <1>2 DEF FamiliesBegin
<1>4. OneIsLive'
    BY <1>2 DEF OneIsLive, LiveOf
<1>5. QED
    BY <1>1, <1>3, <1>4

\* A step that leaves the tokens and forked alone keeps the parts about tokens.
LEMMA SameTokensKeep ==
    ASSUME SessionsTypeOK, FamiliesBegin, OneIsLive, token' = token, forked' = forked
    PROVE  token' \in [Tokens -> Token] /\ FamiliesBegin' /\ OneIsLive'
    BY DEF SessionsTypeOK, FamiliesBegin, OneIsLive, LiveOf

\* A call that goes on is a call.
LEMMA SessionGoOnTyped ==
    ASSUME SessionsTypeOK, NEW u \in Users, NEW step \in {"profile", "revokeAll"},
           using' = [using EXCEPT ![u].step = step]
    PROVE  using' \in [Users -> Using]
<1>1. [using[u] EXCEPT !.step = step] \in Using
    BY DEF SessionsTypeOK, Using
<1>2. QED
    BY <1>1 DEF SessionsTypeOK

-----------------------------------------------------------------------------
(* One lemma per action that issues tokens or touches many parts.          *)

\* A login issues the first token of a family of its own.
LEMMA IssueKeeps ==
    ASSUME SessionsInv, NEW u \in Users, NEW t \in Tokens, IssueRefreshToken(u, t)
    PROVE  SessionsInv'
<1> USE UnissuedAssumption DEF SessionsInv
<1> DEFINE n == [state |-> "live", family |-> t, next |-> Unissued]
<1>1. /\ token[t].state = "none" /\ token' = [token EXCEPT ![t] = n]
      /\ using' = [using EXCEPT ![u] = NotUsing] /\ using[u].step = "issue"
      /\ stray' = (stray \/ (using[u].valid /\ ~active))
      /\ active' = active /\ forked' = forked
    BY DEF IssueRefreshToken, EndUsing, UsingAt
<1>2. SessionsTypeOK'
    BY <1>1 DEF SessionsTypeOK, Token, Using, NotUsing
<1>3. FamiliesBegin'
    BY <1>1 DEF FamiliesBegin, SessionsTypeOK, Token
<1>4. CallsWereValid'
    BY <1>1 DEF CallsWereValid, SessionsTypeOK, Using, NotUsing
<1>5. OneIsLive'
  <2> SUFFICES ASSUME NEW f \in Tokens \ forked, NEW p \in LiveOf(f)', NEW q \in LiveOf(f)'
               PROVE  p = q
      BY <1>1 DEF OneIsLive
  <2>1. \A o \in Tokens \ {t} : o \in LiveOf(f)' <=> o \in LiveOf(f)
      BY <1>1 DEF LiveOf, SessionsTypeOK
  <2>2. CASE f = t
      BY <2>2, <1>1 DEF LiveOf, FamiliesBegin, SessionsTypeOK
  <2>3. CASE f # t
      BY <2>3, <2>1, <1>1 DEF LiveOf, OneIsLive, SessionsTypeOK
  <2>4. QED
      BY <2>2, <2>3
<1>6. SomebodyRevokes'
    BY <1>1 DEF SomebodyRevokes, CallsWereValid
<1>7. QED
    BY <1>2, <1>3, <1>4, <1>5, <1>6

\* A rotation revokes the token it was given and issues the next of its family.
LEMMA RotateKeeps ==
    ASSUME SessionsInv, NEW u \in Users, NEW n \in Tokens, Rotate(u, n)
    PROVE  SessionsInv'
<1> USE UnissuedAssumption DEF SessionsInv
<1> DEFINE t == using[u].token
           f == token[t].family
           new == [state |-> "live", family |-> f, next |-> Unissued]
<1>1. /\ using[u].step = "rotate" /\ token[n].state = "none"
      /\ token' = [token EXCEPT ![t] = Replaced(t, n), ![n] = new]
      /\ forked' = IF using[u].valid /\ token[t].state # "live"
                   THEN forked \union {f} ELSE forked
      /\ using' = [using EXCEPT ![u].step = "profile"]
      /\ active' = active /\ stray' = stray
    BY DEF Rotate, GoOnUsing, UsingAt
<1>2. /\ using[u].valid /\ t \in Tokens /\ token[t].state # "none" /\ t # n /\ f \in Tokens
    BY <1>1 DEF CallsWereValid, FamiliesBegin, SessionsTypeOK
<1>3. /\ token'[n] = new
      /\ token'[t].state = "recent" /\ token'[t].family = f
      /\ \A o \in Tokens \ {t, n} : token'[o] = token[o]
    BY <1>1, <1>2 DEF Replaced, SessionsTypeOK, Token
<1>4. SessionsTypeOK'
  <2>1. using' \in [Users -> Using]
      BY <1>1, SessionGoOnTyped DEF SessionsTypeOK
  <2>2. Replaced(t, n) \in Token /\ new \in Token
      BY <1>2 DEF Replaced, SessionsTypeOK, Token
  <2>3. token' \in [Tokens -> Token]
      BY <1>1, <1>2, <2>2 DEF SessionsTypeOK
  <2>4. forked' \subseteq Tokens
      BY <1>1, <1>2 DEF SessionsTypeOK
  <2>5. QED
      BY <1>1, <2>1, <2>3, <2>4 DEF SessionsTypeOK
<1>5. FamiliesBegin'
    BY <1>2, <1>3 DEF FamiliesBegin
<1>6. CallsWereValid'
    BY <1>1, <1>2, <1>3 DEF CallsWereValid, SessionsTypeOK, Using
<1>7. OneIsLive'
  <2> SUFFICES ASSUME NEW g \in Tokens \ forked', NEW p \in LiveOf(g)', NEW q \in LiveOf(g)'
               PROVE  p = q
      BY DEF OneIsLive
  <2>1. g \notin forked
      BY <1>1
  <2>2. \A o \in Tokens \ {n} : o \in LiveOf(g)' => o \in LiveOf(g) /\ o # t
      BY <1>2, <1>3 DEF LiveOf
  <2>3. CASE g = f
    <3>1. t \in LiveOf(g)
        BY <2>3, <1>1, <1>2 DEF LiveOf
    <3>2. \A o \in Tokens \ {n} : o \notin LiveOf(g)'
        BY <3>1, <2>1, <2>2 DEF OneIsLive, LiveOf
    <3>3. QED
        BY <3>2 DEF LiveOf
  <2>4. CASE g # f
    <3>1. n \notin LiveOf(g)'
        BY <2>4, <1>3 DEF LiveOf
    <3>2. QED
        BY <3>1, <2>1, <2>2 DEF OneIsLive, LiveOf
  <2>5. QED
      BY <2>3, <2>4
<1>8. SomebodyRevokes'
    BY <1>1 DEF SomebodyRevokes, SessionsTypeOK
<1>9. QED
    BY <1>4, <1>5, <1>6, <1>7, <1>8

\* A call begins: an idle one, which revokes nothing.
LEMMA SessionBeginKeeps ==
    ASSUME SessionsInv, NEW u \in Users, NEW step, NEW t \in Tokens \union {Unissued}, NEW valid \in BOOLEAN,
           BeginUsing(u, step, t, valid), UNCHANGED <<active, token, forked, stray>>,
           step \in {"issue", "rotate", "cut", "revokeAll"},
           step = "issue" => valid,
           step = "rotate" => valid /\ t \in Tokens /\ token[t].state # "none"
    PROVE  SessionsInv'
<1> USE DEF SessionsInv
<1>1. /\ using' = [using EXCEPT ![u] = [step |-> step, token |-> t, valid |-> valid]]
      /\ using[u].step = "idle"
    BY DEF BeginUsing, UsingAt
<1>2. token' \in [Tokens -> Token] /\ FamiliesBegin' /\ OneIsLive'
    BY SameTokensKeep
<1>3. SessionsTypeOK'
    BY <1>1, <1>2 DEF SessionsTypeOK, Using
<1>4. CallsWereValid'
    BY <1>1 DEF CallsWereValid, SessionsTypeOK, Using
<1>5. SomebodyRevokes'
    BY <1>1 DEF SomebodyRevokes, SessionsTypeOK
<1>6. QED
    BY <1>2, <1>3, <1>4, <1>5

\* An action that revokes (cut, or revokeAll), expires or ends a token.
LEMMA LoadProfileKeeps ==
    ASSUME SessionsInv, NEW u \in Users, LoadProfile(u)
    PROVE  SessionsInv'
<1> USE DEF SessionsInv
<1>1. using[u].step = "profile" /\ UNCHANGED <<active, token, forked, stray>>
    BY DEF LoadProfile, UsingAt
<1>2. token' \in [Tokens -> Token] /\ FamiliesBegin' /\ OneIsLive'
    BY <1>1, SameTokensKeep
<1>3. CASE active
  <2>1. using' = [using EXCEPT ![u] = NotUsing]
      BY <1>3 DEF LoadProfile, MayRefresh, EndUsing
  <2>2. SessionsTypeOK'
      BY <1>1, <1>2, <2>1 DEF SessionsTypeOK, Using, NotUsing
  <2>3. CallsWereValid'
      BY <1>1, <2>1 DEF CallsWereValid, SessionsTypeOK, NotUsing
  <2>4. SomebodyRevokes'
      BY <1>1, <1>3 DEF SomebodyRevokes
  <2>5. QED
      BY <1>2, <2>2, <2>3, <2>4
<1>4. CASE ~active
  <2>1. using' = [using EXCEPT ![u].step = "revokeAll"]
      BY <1>4 DEF LoadProfile, MayRefresh, GoOnUsing
  <2>2. using' \in [Users -> Using]
      BY <2>1, SessionGoOnTyped
  <2>3. SessionsTypeOK'
      BY <1>1, <1>2, <2>2 DEF SessionsTypeOK
  <2>4. using'[u].step = "revokeAll" /\ \A v \in Users \ {u} : using'[v] = using[v]
      BY <2>1 DEF SessionsTypeOK, Using
  <2>5. CallsWereValid'
      BY <1>1, <2>4 DEF CallsWereValid
  <2>6. SomebodyRevokes'
      BY <2>4 DEF SomebodyRevokes
  <2>7. QED
      BY <1>2, <2>3, <2>5, <2>6
<1>5. QED
    BY <1>3, <1>4

\* A call that has found a token to end revokes the token's family.
LEMMA RevokeFamilyKeeps ==
    ASSUME SessionsInv, NEW u \in Users, RevokeFamilyOf(u)
    PROVE  SessionsInv'
<1> USE DEF SessionsInv
<1> DEFINE ts == FamilyOf(using[u].token)
<1>1. /\ token' = Revoked(ts) /\ using[u].step = "cut"
      /\ using' = [using EXCEPT ![u] = NotUsing]
      /\ UNCHANGED <<active, forked, stray>>
    BY DEF RevokeFamilyOf, EndUsing, UsingAt
<1> HIDE DEF ts
<1>2. token' \in [Tokens -> Token] /\ FamiliesBegin' /\ OneIsLive'
    BY <1>1, RevokingKeeps
<1>3. \A t \in Tokens : /\ token'[t].state = "none" <=> token[t].state = "none"
                        /\ token'[t].state = "live" => token[t].state = "live"
    BY <1>1, RevokedToken
<1>4. SessionsTypeOK'
    BY <1>1, <1>2 DEF SessionsTypeOK, Using, NotUsing
<1>5. CallsWereValid'
    BY <1>1, <1>3 DEF CallsWereValid, SessionsTypeOK, Using, NotUsing
<1>6. SomebodyRevokes'
    BY <1>1, <1>3 DEF SomebodyRevokes, SessionsTypeOK
<1>7. QED
    BY <1>2, <1>4, <1>5, <1>6

\* A deactivation or a new password ends every family of the member.
LEMMA RevokeAllKeeps ==
    ASSUME SessionsInv, NEW u \in Users, RevokeAllForProfile(u)
    PROVE  SessionsInv'
<1> USE DEF SessionsInv
<1>1. /\ token' = Revoked(Tokens)
      /\ using' = [using EXCEPT ![u] = NotUsing]
      /\ stray' = FALSE
      /\ UNCHANGED <<active, forked>>
    BY DEF RevokeAllForProfile, EndUsing, UsingAt
<1>2. token' \in [Tokens -> Token] /\ FamiliesBegin' /\ OneIsLive'
    BY <1>1, RevokingKeeps
<1>3. \A t \in Tokens : /\ token'[t].state = "none" <=> token[t].state = "none"
                        /\ token'[t].state # "live"
    BY <1>1, RevokedToken
<1>4. SessionsTypeOK'
    BY <1>1, <1>2 DEF SessionsTypeOK, Using, NotUsing
<1>5. CallsWereValid'
    BY <1>1, <1>3 DEF CallsWereValid, SessionsTypeOK, Using, NotUsing
<1>6. SomebodyRevokes'
    BY <1>3 DEF SomebodyRevokes
<1>7. QED
    BY <1>2, <1>4, <1>5, <1>6

\* A token that was revoked before is presented again.
LEMMA DetectReuseKeeps ==
    ASSUME SessionsInv, NEW u \in Users, NEW o \in Tokens, DetectReuse(u, o)
    PROVE  SessionsInv'
<1> USE DEF SessionsInv
<1> DEFINE ts == FamilyOf(o)
<1>1. token' = Revoked(ts) /\ UNCHANGED <<active, using, forked, stray>>
    BY DEF DetectReuse
<1> HIDE DEF ts
<1>2. token' \in [Tokens -> Token] /\ FamiliesBegin' /\ OneIsLive'
    BY <1>1, RevokingKeeps
<1>3. \A t \in Tokens : /\ token'[t].state = "none" <=> token[t].state = "none"
                        /\ token'[t].state = "live" => token[t].state = "live"
    BY <1>1, RevokedToken
<1>4. SessionsTypeOK'
    BY <1>1, <1>2 DEF SessionsTypeOK
<1>5. CallsWereValid'
    BY <1>1, <1>3 DEF CallsWereValid
<1>6. SomebodyRevokes'
    BY <1>1, <1>3 DEF SomebodyRevokes
<1>7. QED
    BY <1>2, <1>4, <1>5, <1>6

\* A member is deactivated; the sessions are ended by a statement of its own.
LEMMA DeactivateKeeps ==
    ASSUME SessionsInv, NEW u \in Users, Deactivate(u)
    PROVE  SessionsInv'
<1> USE DEF SessionsInv
<1>1. /\ using' = [using EXCEPT ![u] = [step |-> "revokeAll", token |-> Unissued, valid |-> TRUE]]
      /\ active' = FALSE
      /\ UNCHANGED <<token, forked, stray>>
    BY DEF Deactivate, BeginUsing
<1>2. token' \in [Tokens -> Token] /\ FamiliesBegin' /\ OneIsLive'
    BY <1>1, SameTokensKeep
<1>3. SessionsTypeOK'
    BY <1>1, <1>2 DEF SessionsTypeOK, Using
<1>4. CallsWereValid'
    BY <1>1 DEF CallsWereValid, SessionsTypeOK, Using
<1>5. SomebodyRevokes'
    BY <1>1 DEF SomebodyRevokes, SessionsTypeOK
<1>6. QED
    BY <1>2, <1>3, <1>4, <1>5

\* A call stops before its next statement, perhaps with sessions left to end.
LEMMA SessionStopKeeps ==
    ASSUME SessionsInv, NEW u \in Users, StopUsing(u)
    PROVE  SessionsInv'
<1> USE DEF SessionsInv
<1>1. /\ using' = [using EXCEPT ![u] = NotUsing]
      /\ stray' = (stray \/ using[u].step = "revokeAll" \/ (using[u].step = "profile" /\ ~active))
      /\ UNCHANGED <<active, token, forked>>
    BY DEF StopUsing, EndUsing, UsingAt
<1>2. token' \in [Tokens -> Token] /\ FamiliesBegin' /\ OneIsLive'
    BY <1>1, SameTokensKeep
<1>3. SessionsTypeOK'
    BY <1>1, <1>2 DEF SessionsTypeOK, Using, NotUsing
<1>4. CallsWereValid'
    BY <1>1 DEF CallsWereValid, SessionsTypeOK, Using, NotUsing
<1>5. SomebodyRevokes'
    BY <1>1 DEF SomebodyRevokes, SessionsTypeOK
<1>6. QED
    BY <1>2, <1>3, <1>4, <1>5

\* The token's time, or the leeway's, is over.
LEMMA TimeKeeps ==
    ASSUME SessionsInv, NEW o \in Tokens, TokenExpires(o) \/ LeewayEnds(o)
    PROVE  SessionsInv'
<1> USE DEF SessionsInv
<1>1. /\ token' \in [Tokens -> Token]
      /\ UNCHANGED <<active, using, forked, stray>>
      /\ \A t \in Tokens : /\ token'[t].family = token[t].family
                           /\ token'[t].state = "none" <=> token[t].state = "none"
                           /\ token'[t].state = "live" => token[t].state = "live"
    BY DEF TokenExpires, LeewayEnds, SessionsTypeOK, Token
<1>2. SessionsTypeOK'
    BY <1>1 DEF SessionsTypeOK
<1>3. FamiliesBegin'
    BY <1>1 DEF FamiliesBegin
<1>4. CallsWereValid'
    BY <1>1 DEF CallsWereValid
<1>5. OneIsLive'
    BY <1>1 DEF OneIsLive, LiveOf
<1>6. SomebodyRevokes'
    BY <1>1 DEF SomebodyRevokes
<1>7. QED
    BY <1>2, <1>3, <1>4, <1>5, <1>6

-----------------------------------------------------------------------------
\* Every step keeps the invariant.
LEMMA SessionStepKeeps == SessionsInv /\ [SessionsNext]_sessionVars => SessionsInv'
<1> SUFFICES ASSUME SessionsInv, [SessionsNext]_sessionVars PROVE SessionsInv'
    OBVIOUS
<1>1. ASSUME NEW u \in Users, StartLogin(u) PROVE SessionsInv'
    BY <1>1, SessionBeginKeeps DEF StartLogin, CanAuthenticate, SessionsInv, SessionsTypeOK
<1>2. ASSUME NEW u \in Users, NEW t \in Tokens, StartLogout(u, t) PROVE SessionsInv'
    BY <1>2, SessionBeginKeeps DEF StartLogout
<1>3. ASSUME NEW u \in Users, NEW t \in Tokens, StartRotate(u, t) PROVE SessionsInv'
    BY <1>3, SessionBeginKeeps DEF StartRotate, MayRotate
<1>4. ASSUME NEW u \in Users,
             LogoutEverywhere(u) \/ ChangePassword(u) \/ ResetPassword(u)
      PROVE  SessionsInv'
    BY <1>4, SessionBeginKeeps DEF LogoutEverywhere, ChangePassword, ResetPassword
<1>5. CASE Reactivate
  <2>1. active' = TRUE /\ UNCHANGED <<token, using, forked, stray>>
      BY <1>5 DEF Reactivate
  <2>2. QED
      BY <2>1 DEF SessionsInv, SessionsTypeOK, FamiliesBegin, CallsWereValid, OneIsLive,
         LiveOf, SomebodyRevokes
<1>6. CASE UNCHANGED sessionVars
    BY <1>6 DEF sessionVars, SessionsInv, SessionsTypeOK, FamiliesBegin, CallsWereValid,
       OneIsLive, LiveOf,
                SomebodyRevokes
<1>7. QED
    BY <1>1, <1>2, <1>3, <1>4, <1>5, <1>6, IssueKeeps, RotateKeeps, LoadProfileKeeps,
       RevokeFamilyKeeps, RevokeAllKeeps, DetectReuseKeeps, DeactivateKeeps,
       SessionStopKeeps, TimeKeeps
       DEF SessionsNext

\* The invariant of the sessions: the types, where families begin, what the calls
\* under way have found, one live token, and who is still to revoke.
THEOREM SessionsInvariant == SessionsSpec => []SessionsInv
<1>1. SessionsInit => SessionsInv
    BY SessionsStart
<1>2. SessionsInv /\ [SessionsNext]_sessionVars => SessionsInv'
    BY SessionStepKeeps
<1>3. QED
    BY <1>1, <1>2, PTL DEF SessionsSpec

\* A session has one live token at most, unless a rotation has replaced a token that
\* another call had replaced or revoked since it was read (rotateRefreshToken).
THEOREM OneSession == SessionsSpec => []OneLiveTokenPerFamily
<1>1. SessionsInv => OneLiveTokenPerFamily
  <2> SUFFICES ASSUME SessionsInv, NEW f \in Tokens, f \notin forked
               PROVE  Cardinality(LiveOf(f)) <= 1
      BY DEF OneLiveTokenPerFamily
  <2>1. CASE LiveOf(f) = {}
      BY <2>1, FS_EmptySet
  <2>2. CASE LiveOf(f) # {}
    <3>1. PICK t \in LiveOf(f) : TRUE
        BY <2>2
    <3>2. LiveOf(f) = {t}
        BY <3>1 DEF SessionsInv, OneIsLive
    <3>3. QED
        BY <3>2, FS_Singleton
  <2>3. QED
      BY <2>1, <2>2
<1>2. QED
    BY <1>1, SessionsInvariant, PTL

\* An inactive member has no live token once the calls that rotate and revoke are
\* through (profiles.update, "berhenti berarti sekarang").
THEOREM InactiveIsOut == SessionsSpec => []InactiveMeansNoSession
<1>1. SessionsInv => InactiveMeansNoSession
    BY DEF SessionsInv, SomebodyRevokes, InactiveMeansNoSession
<1>2. QED
    BY <1>1, SessionsInvariant, PTL

\* A session that has ended comes back only by a rotation that had read its token.
THEOREM EndedIsEnded == SessionsSpec => EndedSessionsStayEnded
<1> DEFINE A == \A f \in Tokens :
                   token[f].family = f /\ LiveOf(f) = {} /\ LiveOf(f)' # {} => f \in forked'
<1>1. SessionsInv /\ [SessionsNext]_sessionVars => A
  <2> SUFFICES ASSUME SessionsInv, [SessionsNext]_sessionVars, NEW f \in Tokens,
                      token[f].family = f, LiveOf(f) = {}, LiveOf(f)' # {}
               PROVE  f \in forked'
      OBVIOUS
  <2>1. PICK n \in Tokens : token'[n].state = "live" /\ token'[n].family = f
      BY DEF LiveOf
  <2>2. ~(token[n].state = "live" /\ token[n].family = f)
      BY DEF LiveOf
  <2>3. ASSUME NEW u \in Users, NEW t \in Tokens, IssueRefreshToken(u, t) PROVE FALSE
    <3>1. token[t].state = "none"
          /\ token' = [token EXCEPT ![t] = [state |-> "live", family |-> t, next |-> Unissued]]
        BY <2>3 DEF IssueRefreshToken
    <3>2. f # t
        BY <3>1, UnissuedAssumption DEF SessionsInv, FamiliesBegin
    <3>3. QED
        BY <3>1, <3>2, <2>1, <2>2 DEF SessionsInv, SessionsTypeOK
  <2>4. ASSUME NEW u \in Users, NEW m \in Tokens, Rotate(u, m) PROVE f \in forked'
    <3> DEFINE t == using[u].token
    <3>1. /\ using[u].valid /\ t \in Tokens
        BY <2>4 DEF Rotate, UsingAt, SessionsInv, CallsWereValid
    <3>2. /\ token' = [token EXCEPT ![t] = Replaced(t, m),
                                    ![m] = [state |-> "live", family |-> token[t].family,
                                            next |-> Unissued]]
          /\ forked' = IF using[u].valid /\ token[t].state # "live"
                       THEN forked \union {token[t].family} ELSE forked
        BY <2>4 DEF Rotate
    <3>3. n = m /\ token[t].family = f
      <4>1. CASE n = m
          BY <4>1, <3>1, <3>2, <2>1 DEF SessionsInv, SessionsTypeOK
      <4>2. CASE n = t /\ n # m
        <5>1. token'[n] = Replaced(t, m)
            BY <4>2, <3>1, <3>2 DEF SessionsInv, SessionsTypeOK
        <5>2. Replaced(t, m).state = "recent"
            BY <3>1 DEF Replaced, SessionsInv, SessionsTypeOK, Token
        <5>3. QED
            BY <5>1, <5>2, <2>1
      <4>3. CASE n # t /\ n # m
          BY <4>3, <3>2, <2>1, <2>2 DEF SessionsInv, SessionsTypeOK
      <4>4. QED
          BY <4>1, <4>2, <4>3
    <3>4. token[t].state # "live"
        BY <3>1, <3>3 DEF LiveOf
    <3>5. QED
        BY <3>1, <3>2, <3>3, <3>4
  <2>5. CASE token' = token
      BY <2>5, <2>1, <2>2
  <2>6. ASSUME NEW ts, token' = Revoked(ts) PROVE FALSE
      BY <2>6, <2>1, <2>2, RevokedToken DEF SessionsInv
  <2>7. ASSUME NEW o \in Tokens, TokenExpires(o) \/ LeewayEnds(o) PROVE FALSE
      BY <2>7, <2>1, <2>2 DEF TokenExpires, LeewayEnds, SessionsInv, SessionsTypeOK, Token
  <2>8. QED
      BY <2>3, <2>4, <2>5, <2>6, <2>7
         DEF SessionsNext, sessionVars, StartLogin, StartLogout, StartRotate, DetectReuse,
             LoadProfile,
             RevokeFamilyOf, LogoutEverywhere, ChangePassword, ResetPassword, Deactivate,
             RevokeAllForProfile, StopUsing, Reactivate
<1>2. QED
    BY <1>1, SessionsInvariant, PTL DEF SessionsSpec, EndedSessionsStayEnded

-----------------------------------------------------------------------------
(* The rules of who may write.                                             *)

\* A call that is still to write has asked the rules, and assertTargetDivisionUnlocked,
\* of the row and the member as they are, as long as neither has changed.
AskedOfThese ==
    deciding # NotDeciding =>
        /\ deciding.step = "write"
        /\ deciding.op \in Operations
        /\ target # NoRowYet => deciding.op.kind = target.kind
        /\ deciding.fresh /\ deciding.sameMember => MayCall(deciding.op)
        /\ deciding.fresh => TargetDivisionUnlocked(deciding.op, deciding.division)

PoliciesInv == PoliciesTypeOK /\ AskedOfThese

-----------------------------------------------------------------------------
\* The rules depend on the roles, the division and the row; and a password that
\* need not be changed any more takes no right away.
LEMMA RightsStay ==
    ASSUME NEW op, MayCall(op),
           actor'.roles = actor.roles, actor'.division = actor.division,
           actor'.pending => actor.pending, target' = target
    PROVE  MayCall(op)'
<1>1. PassesGuard(op.kind, op.policy)'
    BY DEF MayCall, PassesGuard, PasswordIsSettled, IsAllowed
<1>2. /\ IsOwnerOrCoOwner' <=> IsOwnerOrCoOwner
      /\ IsDivisionLead' <=> IsDivisionLead
      /\ DivisionCodes' = DivisionCodes
    BY DEF IsOwnerOrCoOwner, IsDivisionLead, DivisionCodes
<1>3. Permits(op)' <=> Permits(op)
    BY <1>2 DEF Permits, LeadsDivisionOf, CanEditWorkItem, CanTransitionWorkItem,
         CanChangePic, CanDeleteWorkItem, CanEditRequest, CanTransitionRequest,
         CanDeleteRequest, CanReadFinance, CanEditLetter, CanEditContent, CanEditCreative,
         CanEditPartner, CanEditInventoryItem, CanEditLogistics
<1>4. QED
    BY <1>1, <1>3 DEF MayCall

\* No row bears the kind of NoRowYet.
LEMMA RowKinds ==
    ASSUME NEW entry \in PolicyRows
    PROVE  /\ entry.kind \in {"work_item", "request"} \union OtherKinds \union GuardedKinds
           /\ entry # NoRowYet
<1>1. entry.kind \in {"work_item", "request"} \union OtherKinds \union GuardedKinds
    BY DEF PolicyRows, WorkItemRows, RequestRows, OtherRows, GuardedRows, PolicyRow
<1>2. entry.kind # "none"
    BY <1>1 DEF OtherKinds, GuardedKinds, RemovedKinds
<1>3. QED
    BY <1>1, <1>2 DEF NoRowYet

\* The rows of a kind are rows of that kind.
LEMMA RowsOfKind ==
    ASSUME NEW entry \in PolicyRows, NEW new \in RowsOf[entry.kind]
    PROVE  new \in PolicyRows /\ new.kind = entry.kind
BY RowKinds DEF RowsOf

\* The updates of work items and requests compare the version.
LEMMA RequestsAreVersioned ==
    ASSUME NEW op \in Operations, op.kind = "request" PROVE op.versioned
BY DEF Operations, Operation, OtherKinds, GuardedKinds, RemovedKinds

-----------------------------------------------------------------------------
\* There is no row yet and nobody has asked.
LEMMA PoliciesStart == PoliciesInit => PoliciesInv
<1> SUFFICES ASSUME PoliciesInit PROVE PoliciesInv
    OBVIOUS
<1>1. actor \in Actor
    BY RoleAssumption DEF PoliciesInit, NewActor, Actor
<1>2. QED
    BY <1>1 DEF PoliciesInit, PoliciesInv, PoliciesTypeOK, AskedOfThese

\* A row that is created has been asked about by nobody.
LEMMA PolicyCreateKeeps ==
    ASSUME PoliciesInv, NEW new \in PolicyRows, CreateRow(new) PROVE PoliciesInv'
BY DEF PoliciesInv, CreateRow, PoliciesTypeOK, AskedOfThese

\* The guard and the rules of the row let a call through.
LEMMA DecideKeeps ==
    ASSUME PoliciesInv, NEW op \in Operations, op.kind = target.kind,
           NEW division \in DivisionIds \union {NoDivision}, Decide(op, division)
    PROVE  PoliciesInv'
<1> DEFINE job == [step |-> "write", op |-> op, division |-> division,
                    fresh |-> TRUE, sameMember |-> TRUE]
<1>1. /\ deciding' = job /\ actor' = actor /\ target' = target
      /\ MayCall(op) /\ TargetDivisionUnlocked(op, division)
    BY DEF Decide
<1>2. PoliciesTypeOK'
    BY <1>1 DEF PoliciesInv, PoliciesTypeOK, Deciding
<1>3. MayCall(op)' /\ TargetDivisionUnlocked(op, division)'
    BY <1>1, RightsStay DEF TargetDivisionUnlocked
<1>4. AskedOfThese'
    BY <1>1, <1>3 DEF AskedOfThese, MayCall, PassesGuard, PasswordIsSettled, IsAllowed
<1>5. QED
    BY <1>2, <1>4 DEF PoliciesInv

\* A call has ended, so nobody relies on a row or a right.
LEMMA PolicyEndKeeps ==
    ASSUME PoliciesInv, deciding' = NotDeciding, actor' = actor,
           target' \in PolicyRows \union {NoRowYet}
    PROVE  PoliciesInv'
BY DEF PoliciesInv, PoliciesTypeOK, AskedOfThese

\* What a write leaves is a row of the same kind, or none.
LEMMA WriteLeaves ==
    ASSUME PoliciesInv, Write
    PROVE  /\ deciding' = NotDeciding /\ actor' = actor
           /\ target' \in PolicyRows \union {NoRowYet}
<1>1. deciding' = NotDeciding /\ actor' = actor
    BY DEF Write
<1>2. CASE ~LandsWrite
    BY <1>2 DEF Write, PoliciesInv, PoliciesTypeOK
<1>3. CASE LandsWrite
  <2>1. target \in PolicyRows
      BY <1>3 DEF LandsWrite, PoliciesInv, PoliciesTypeOK
  <2>2. target' = NoRowYet \/ target' \in RowsOf[target.kind]
      BY <1>3 DEF Write, RowsLeft
  <2>3. QED
      BY <1>1, <2>1, <2>2, RowsOfKind
<1>4. QED
    BY <1>1, <1>2, <1>3

\* The row, or the member, changes under the call.
LEMMA OthersWriteKeeps == ASSUME PoliciesInv, OthersWrite PROVE PoliciesInv'
<1>1. target \in PolicyRows
    BY DEF OthersWrite, PoliciesInv, PoliciesTypeOK
<1>2. target' = NoRowYet \/ target' \in RowsOf[target.kind]
    BY DEF OthersWrite
<1>3. /\ target' \in PolicyRows \union {NoRowYet}
      /\ target' # NoRowYet => target'.kind = target.kind
      /\ target # NoRowYet
    BY <1>1, <1>2, RowsOfKind, RowKinds
<1>4. CASE deciding = NotDeciding
  <2>1. deciding' = NotDeciding /\ actor' = actor
      BY <1>4 DEF OthersWrite, Overtake
  <2>2. QED
      BY <1>3, <2>1, PolicyEndKeeps
<1>5. CASE deciding # NotDeciding
  <2>1. deciding' = [deciding EXCEPT !["fresh"] = FALSE] /\ actor' = actor
      BY <1>5 DEF OthersWrite, Overtake
  <2>2. /\ deciding' \in Deciding /\ deciding'.fresh = FALSE
        /\ deciding'.op = deciding.op /\ deciding'.step = deciding.step
      BY <1>5, <2>1 DEF PoliciesInv, PoliciesTypeOK, Deciding
  <2>3. PoliciesTypeOK'
      BY <1>3, <2>1, <2>2 DEF PoliciesInv, PoliciesTypeOK
  <2>4. AskedOfThese'
      BY <1>3, <1>5, <2>2 DEF PoliciesInv, AskedOfThese
  <2>5. QED
      BY <2>3, <2>4 DEF PoliciesInv
<1>6. QED
    BY <1>4, <1>5

\* The member's own row changes; a call under way is marked as overtaken.
LEMMA MemberKeeps ==
    ASSUME PoliciesInv, actor' \in Actor, Overtake("sameMember"), target' = target
    PROVE  PoliciesInv'
<1>1. CASE deciding = NotDeciding
    BY <1>1 DEF Overtake, PoliciesInv, PoliciesTypeOK, AskedOfThese
<1>2. CASE deciding # NotDeciding
  <2>1. deciding' = [deciding EXCEPT !["sameMember"] = FALSE]
      BY <1>2 DEF Overtake
  <2>2. /\ deciding' \in Deciding /\ deciding'.sameMember = FALSE
        /\ deciding'.op = deciding.op /\ deciding'.step = deciding.step
        /\ deciding'.fresh = deciding.fresh /\ deciding'.division = deciding.division
      BY <1>2, <2>1 DEF PoliciesInv, PoliciesTypeOK, Deciding
  <2>3. PoliciesTypeOK'
      BY <2>2 DEF PoliciesInv, PoliciesTypeOK
  <2>4. AskedOfThese'
      BY <1>2, <2>2 DEF PoliciesInv, AskedOfThese, TargetDivisionUnlocked
  <2>5. QED
      BY <2>3, <2>4 DEF PoliciesInv
<1>3. QED
    BY <1>1, <1>2

\* A member whose password need not be changed any more loses no right.
LEMMA OwnPasswordKeeps == ASSUME PoliciesInv, ChangeOwnPassword PROVE PoliciesInv'
<1>1. /\ actor' = [actor EXCEPT !.pending = FALSE]
      /\ target' = target /\ deciding' = deciding
    BY DEF ChangeOwnPassword
<1>2. /\ actor' \in Actor /\ actor'.pending = FALSE
      /\ actor'.roles = actor.roles /\ actor'.division = actor.division
    BY <1>1 DEF PoliciesInv, PoliciesTypeOK, Actor
<1>3. PoliciesTypeOK'
    BY <1>1, <1>2 DEF PoliciesInv, PoliciesTypeOK
<1>4. MayCall(deciding.op) => MayCall(deciding.op)'
    BY <1>1, <1>2, RightsStay
<1>5. AskedOfThese'
    BY <1>1, <1>4 DEF PoliciesInv, AskedOfThese, TargetDivisionUnlocked
<1>6. QED
    BY <1>3, <1>5 DEF PoliciesInv

\* Nothing happens.
LEMMA UnchangedKeeps == ASSUME PoliciesInv, UNCHANGED policyVars PROVE PoliciesInv'
<1>1. actor' = actor /\ target' = target /\ deciding' = deciding
    BY DEF policyVars
<1>2. MayCall(deciding.op) => MayCall(deciding.op)'
    BY <1>1, RightsStay
<1>3. QED
    BY <1>1, <1>2 DEF PoliciesInv, PoliciesTypeOK, AskedOfThese, TargetDivisionUnlocked

\* Every step keeps the invariant.
LEMMA PolicyStepKeeps == PoliciesInv /\ [PoliciesNext]_policyVars => PoliciesInv'
<1> SUFFICES ASSUME PoliciesInv, [PoliciesNext]_policyVars PROVE PoliciesInv'
    OBVIOUS
<1>1. ASSUME NEW new \in PolicyRows, CreateRow(new) PROVE PoliciesInv'
    BY <1>1, PolicyCreateKeeps
<1>2. ASSUME NEW op \in {op \in Operations : op.kind = target.kind},
             NEW division \in DivisionIds \union {NoDivision}, Decide(op, division)
      PROVE  PoliciesInv'
    BY <1>2, DecideKeeps
<1>3. CASE Write
    BY <1>3, WriteLeaves, PolicyEndKeeps
<1>4. CASE StopDeciding
    BY <1>4, PolicyEndKeeps DEF StopDeciding, PoliciesInv, PoliciesTypeOK
<1>5. CASE OthersWrite
    BY <1>5, OthersWriteKeeps
<1>6. ASSUME NEW roles \in RoleSets, NEW division \in DivisionIds \union {NoDivision},
             ChangeMember(roles, division)
      PROVE  PoliciesInv'
  <2>1. actor' \in Actor
      BY <1>6 DEF ChangeMember, PoliciesInv, PoliciesTypeOK, Actor
  <2>2. QED
      BY <1>6, <2>1, MemberKeeps DEF ChangeMember
<1>7. CASE GiveOutPassword
  <2>1. actor' \in Actor
      BY <1>7 DEF GiveOutPassword, PoliciesInv, PoliciesTypeOK, Actor
  <2>2. QED
      BY <1>7, <2>1, MemberKeeps DEF GiveOutPassword
<1>8. CASE ChangeOwnPassword
    BY <1>8, OwnPasswordKeeps
<1>9. CASE UNCHANGED policyVars
    BY <1>9, UnchangedKeeps
<1>10. QED
    BY <1>1, <1>2, <1>3, <1>4, <1>5, <1>6, <1>7, <1>8, <1>9 DEF PoliciesNext

\* What a call under way has asked still stands, as long as neither the member nor
\* the row has changed.
THEOREM PoliciesInvariant == PoliciesSpec => []PoliciesInv
<1>1. PoliciesInit => PoliciesInv
    BY PoliciesStart
<1>2. PoliciesInv /\ [PoliciesNext]_policyVars => PoliciesInv'
    BY PolicyStepKeeps
<1>3. QED
    BY <1>1, <1>2, PTL DEF PoliciesSpec

\* A write lands with the right it was allowed by, unless the member changed under
\* way or the UPDATE does not compare the version and the row changed.
THEOREM RightsHold == PoliciesSpec => []RightsHoldAtTheWrite
<1>1. PoliciesInv => RightsHoldAtTheWrite
  <2> SUFFICES ASSUME PoliciesInv, deciding # NotDeciding, LandsWrite,
                      deciding.sameMember, deciding.op.versioned \/ deciding.fresh
               PROVE  MayCall(deciding.op)
      BY DEF RightsHoldAtTheWrite
  <2>1. deciding.fresh
      BY DEF LandsWrite
  <2>2. QED
      BY <2>1 DEF PoliciesInv, AskedOfThese
<1>2. QED
    BY <1>1, PoliciesInvariant, PTL

\* A request keeps its target division once it is submitted.
THEOREM TargetsStay == PoliciesSpec => SubmittedRequestsStay
<1> DEFINE A == target.kind = "request" /\ target'.kind = "request" /\ ~target.draft
                  => target'.division = target.division
<1>1. PoliciesInv /\ [PoliciesNext]_policyVars => A
  <2> SUFFICES ASSUME PoliciesInv, [PoliciesNext]_policyVars,
                      target.kind = "request", target'.kind = "request", ~target.draft
               PROVE  target'.division = target.division
      OBVIOUS
  <2>1. target # NoRowYet /\ target' # NoRowYet
      BY DEF NoRowYet
  <2>2. CASE Write
    <3>1. CASE ~LandsWrite
        BY <2>2, <3>1 DEF Write
    <3>2. CASE LandsWrite
      <4>1. deciding # NotDeciding /\ target' \in RowsLeft(deciding.op, deciding.division)
          BY <2>2, <3>2 DEF Write
      <4>2. deciding.op \in Operations /\ deciding.op.kind = "request"
          BY <4>1, <2>1 DEF PoliciesInv, AskedOfThese
      <4>3. deciding.op.versioned
          BY <4>2, RequestsAreVersioned
      <4>4. deciding.fresh
          BY <3>2, <4>3 DEF LandsWrite
      <4>5. deciding.division = target.division
          BY <4>1, <4>2, <4>4 DEF PoliciesInv, AskedOfThese, TargetDivisionUnlocked
      <4>6. target'.division = deciding.division
          BY <4>1, <2>1 DEF RowsLeft
      <4>7. QED
          BY <4>5, <4>6
    <3>3. QED
        BY <3>1, <3>2
  <2>3. CASE OthersWrite
      BY <2>1, <2>3 DEF OthersWrite
  <2>4. CASE target' = target
      BY <2>4
  <2>5. QED
      BY <2>1, <2>2, <2>3, <2>4
         DEF PoliciesNext, CreateRow, Decide, StopDeciding, ChangeMember, GiveOutPassword,
             ChangeOwnPassword, policyVars
<1>2. QED
    BY <1>1, PoliciesInvariant, PTL DEF PoliciesSpec, SubmittedRequestsStay
=============================================================================
