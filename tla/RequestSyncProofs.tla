-------------------------- MODULE RequestSyncProofs --------------------------
(***************************************************************************)
(* Type correctness of RequestSync, that a transition writes the very row  *)
(* it was checked on, and that every committed change raises a version:    *)
(* for any sets of requests, work items and concurrent calls, and for any  *)
(* contents of status_transitions.                                         *)
(***************************************************************************)
EXTENDS RequestSync, TLAPS

\* The arguments a call carries, by the step it is at.
CallOK(c) ==
    /\ c.step \in {"ownRequest", "readWork", "writeWork", "resolveNotes",
                   "resolveLoad", "resolveRequest", "resolveWork"}
          => c.r \in Requests /\ c.to \in RequestStatuses
    /\ c.step \in {"ownWork", "readRequest", "writeRequest"}
          => c.w \in Works /\ c.to \in WorkStatuses
    /\ c.step \in {"writeRequest", "flagRequest", "flagWork"} => c.r \in Requests
    /\ c.step \in {"writeWork", "flagRequest", "flagWork", "resolveWork"} => c.w \in Works

CallsOK == \A h \in Handlers : CallOK(call[h])

\* A row nobody has locked has no uncommitted version.  A locked one is there
\* and has a higher version, except for a request whose notes
\* resolveSyncConflict has written and whose status it has not.
Noted(r) == /\ call[reqLock[r]].step \in {"resolveLoad", "resolveRequest"}
            /\ call[reqLock[r]].r = r

RowsOK ==
    /\ \A r \in Requests :
          IF reqLock[r] = None THEN dirtyReq[r] = req[r]
          ELSE /\ req[r] # GoneRequest /\ dirtyReq[r].version > 0
               /\ \/ dirtyReq[r].version > req[r].version
                  \/ Noted(r) /\ dirtyReq[r].version = req[r].version
    /\ \A w \in Works :
          IF workLock[w] = None THEN dirtyWork[w] = work[w]
          ELSE work[w] # GoneWork /\ dirtyWork[w].version > work[w].version

\* The row a call goes by is an earlier state of the committed row, or that
\* row itself, unless the row is gone; and once the call has locked it, that
\* row.  Under the same version a request may have lost its link only because
\* the work item that the call would link it to again is gone, and a work item
\* its source.
SeenOK(h) ==
    LET c == call[h] IN
    /\ c.step = "ownRequest" =>
          /\ c.w = c.seenReq.linked /\ c.seenReq.version > 0
          /\ req[c.r] = GoneRequest \/ c.seenReq.version <= req[c.r].version
          /\ c.seenReq.version = req[c.r].version =>
                c.seenReq = req[c.r] \/ (c.w # None /\ work[c.w] = GoneWork)
    /\ c.step = "ownWork" =>
          /\ c.seenWork.version > 0
          /\ work[c.w] = GoneWork \/ c.seenWork.version <= work[c.w].version
          /\ c.seenWork.version = work[c.w].version =>
                work[c.w] \in {c.seenWork, WithoutItsSource(c.seenWork)}
    /\ c.step = "readWork" => reqLock[c.r] = h /\ c.seenReq = req[c.r]
    /\ c.step = "readRequest" =>
          /\ workLock[c.w] = h
          /\ work[c.w] \in {c.seenWork, WithoutItsSource(c.seenWork)}

AllSeenOK == \A h \in Handlers : SeenOK(h)

IInv == TypeOK /\ CallsOK /\ RowsOK /\ AllSeenOK

-----------------------------------------------------------------------------
(* Rows and calls stay of their types.                                     *)

\* The two maps of the synchronisation send statuses to statuses.
LEMMA MapsTyped ==
    /\ \A s \in RequestStatuses : WorkStatusFor[s] \in WorkStatuses
    /\ \A s \in WorkStatuses : RequestStatusFor[s] \in RequestStatuses
BY DEF WorkStatusFor, RequestStatusFor, RequestStatuses, WorkStatuses

\* Before anything is created, no row is locked or dirty and no call runs.
LEMMA InitInvariant == Init => IInv
<1> SUFFICES ASSUME Init PROVE IInv
    OBVIOUS
<1>1. NoRequest \in RequestRow /\ NoWork \in WorkRow
    BY DEF NoRequest, NoWork, RequestRow, WorkRow, RequestStatuses, WorkStatuses
<1>2. Idle \in Call
    BY <1>1 DEF Idle, Call, NoBody, Steps, RequestStatuses
<1>3. TypeOK
    BY <1>1, <1>2 DEF Init, TypeOK
<1>4. CallsOK
    BY DEF Init, CallsOK, CallOK, Idle
<1>5. RowsOK
    BY DEF Init, RowsOK
<1>6. AllSeenOK
    BY DEF Init, AllSeenOK, SeenOK, Idle
<1>7. QED
    BY <1>3, <1>4, <1>5, <1>6 DEF IInv

\* A statement that writes the lock and the new version of one request.
LEMMA WriteReqTyped ==
    ASSUME TypeOK, NEW h \in Handlers, NEW r \in Requests, NEW row \in RequestRow,
           WriteReq(h, r, row)
    PROVE  /\ dirtyReq' \in [Requests -> RequestRow]
           /\ reqLock' \in [Requests -> Handlers \union {None}]
BY DEF TypeOK, WriteReq

\* And one that writes those of one work item.
LEMMA WriteWorkTyped ==
    ASSUME TypeOK, NEW h \in Handlers, NEW w \in Works, NEW row \in WorkRow,
           WriteWork(h, w, row)
    PROVE  /\ dirtyWork' \in [Works -> WorkRow]
           /\ workLock' \in [Works -> Handlers \union {None}]
BY DEF TypeOK, WriteWork

\* What a transaction sees of a row, its own write or the committed row, is a row.
LEMMA VisibleTyped ==
    ASSUME TypeOK, NEW h \in Handlers
    PROVE  /\ \A r \in Requests : VisibleReq(h, r) \in RequestRow
           /\ \A w \in Works : VisibleWork(h, w) \in WorkRow
BY DEF TypeOK, VisibleReq, VisibleWork

\* Rollback leaves committed rows alone and gives its locks back.
LEMMA RollbackInvariant ==
    ASSUME IInv, NEW h \in Handlers, Rollback(h)
    PROVE  IInv'
<1>1. TypeOK'
  <2>1. Idle \in Call
    BY DEF Idle, Call, NoBody, NoRequest, NoWork, RequestRow, WorkRow, Steps,
           RequestStatuses, WorkStatuses
  <2>2. call' \in [Handlers -> Call]
    BY <2>1 DEF IInv, TypeOK, Rollback, ReleaseLocks
  <2>3. QED
    BY <2>2 DEF IInv, TypeOK, Rollback, ReleaseLocks, NothingCommitted
<1>2. CallsOK'
    BY DEF IInv, TypeOK, CallsOK, CallOK, Rollback, ReleaseLocks, Idle
<1>3. RowsOK'
    BY IdsAssumption DEF IInv, TypeOK, RowsOK, Noted, Rollback, ReleaseLocks,
       NothingCommitted
<1>4. AllSeenOK'
    BY DEF IInv, TypeOK, AllSeenOK, SeenOK, CallsOK, CallOK, Rollback, ReleaseLocks, Idle,
           NothingCommitted
<1>5. QED
    BY <1>1, <1>2, <1>3, <1>4 DEF IInv

\* Commit makes the rows the handler has locked the committed ones.
LEMMA CommitInvariant ==
    ASSUME IInv, NEW h \in Handlers, Commit(h)
    PROVE  IInv'
<1>1. TypeOK'
  <2>1. Idle \in Call
    BY DEF Idle, Call, NoBody, NoRequest, NoWork, RequestRow, WorkRow, Steps,
           RequestStatuses, WorkStatuses
  <2>2. call' \in [Handlers -> Call]
    BY <2>1 DEF IInv, TypeOK, Commit, ReleaseLocks
  <2>3. QED
    BY <2>2 DEF IInv, TypeOK, Commit, ReleaseLocks, VisibleReq, VisibleWork
<1>2. CallsOK'
    BY DEF IInv, TypeOK, CallsOK, CallOK, Commit, ReleaseLocks, Idle
<1>3. RowsOK'
    BY IdsAssumption DEF IInv, TypeOK, RowsOK, Noted, Commit, ReleaseLocks, VisibleReq,
       VisibleWork
<1>4. AllSeenOK'
  <2>1. \A r \in Requests :
           IF reqLock[r] = h
           THEN req'[r].version > req[r].version /\ req[r] # GoneRequest
           ELSE req'[r] = req[r]
    BY IdsAssumption DEF IInv, TypeOK, RowsOK, Noted, Commit, VisibleReq
  <2>2. \A w \in Works :
           IF workLock[w] = h
           THEN work'[w].version > work[w].version /\ work[w] # GoneWork
           ELSE work'[w] = work[w]
    BY IdsAssumption DEF IInv, TypeOK, RowsOK, Commit, VisibleWork
  <2>3. SUFFICES ASSUME NEW g \in Handlers PROVE SeenOK(g)'
    BY DEF AllSeenOK
  <2>4. CASE g = h
    BY <2>4 DEF IInv, TypeOK, SeenOK, Commit, ReleaseLocks, Idle
  <2>5. CASE g # h
    <3>1. call'[g] = call[g]
      BY <2>5 DEF IInv, TypeOK, Commit, ReleaseLocks
    <3>2. SeenOK(g) /\ CallOK(call[g]) /\ call[g] \in Call
      BY DEF IInv, TypeOK, AllSeenOK, CallsOK
    <3>3. call[g].seenReq.version \in Nat /\ call[g].seenWork.version \in Nat
      BY <3>2 DEF Call, RequestRow, WorkRow
    <3>4. /\ \A r \in Requests : req[r].version \in Nat /\ req'[r].version \in Nat
          /\ \A w \in Works : work[w].version \in Nat /\ work'[w].version \in Nat
      BY <1>1 DEF IInv, TypeOK, RequestRow, WorkRow
    <3>5. /\ \A r \in Requests : reqLock[r] = g => reqLock'[r] = g
          /\ \A w \in Works : workLock[w] = g => workLock'[w] = g
      BY <2>5 DEF Commit, ReleaseLocks
    <3>6. call[g].w # None => call[g].w \in Works
      BY <3>2 DEF Call
    <3>7. CASE call[g].step = "ownRequest"
      BY <2>1, <2>2, <3>1, <3>2, <3>3, <3>4, <3>6, <3>7 DEF SeenOK, CallOK
    <3>8. CASE call[g].step = "ownWork"
      BY <2>2, <3>1, <3>2, <3>3, <3>4, <3>8 DEF SeenOK, CallOK
    <3>9. CASE call[g].step = "readWork"
      BY <2>1, <2>5, <3>1, <3>2, <3>5, <3>9 DEF SeenOK, CallOK
    <3>10. CASE call[g].step = "readRequest"
      BY <2>2, <2>5, <3>1, <3>2, <3>5, <3>10 DEF SeenOK, CallOK
    <3>11. QED
      BY <3>1, <3>7, <3>8, <3>9, <3>10 DEF SeenOK
  <2>6. QED
    BY <2>4, <2>5
<1>5. QED
    BY <1>1, <1>2, <1>3, <1>4 DEF IInv

-----------------------------------------------------------------------------
(* The steps of a running transaction: each changes its own call and at    *)
(* most one lock and dirty row of either table, and commits nothing.       *)

\* The version a step gives the request it writes, if it writes one: above
\* the committed one, or equal to it when only the notes are written.
ReqStep(h) ==
    \/ ReqUntouched
    \/ \E r \in Requests, row \in RequestRow :
          /\ CanLockReq(h, r)
          /\ req[r] # GoneRequest /\ row.version > 0
          /\ WriteReq(h, r, row)
          /\ \/ row.version > req[r].version
             \/ /\ call'[h].step = "resolveLoad" /\ call'[h].r = r
                /\ row.version = req[r].version

WorkStep(h) ==
    \/ WorkUntouched
    \/ \E w \in Works, row \in WorkRow :
          /\ CanLockWork(h, w)
          /\ work[w] # GoneWork
          /\ WriteWork(h, w, row)
          /\ row.version > work[w].version

\* A handler that has written only the notes of a request stays on it until
\* it has written its status as well.
StaysNoted(h) ==
    call[h].step \in {"resolveLoad", "resolveRequest"} /\ reqLock[call[h].r] = h =>
        \/ /\ call'[h].step \in {"resolveLoad", "resolveRequest"}
           /\ call'[h].r = call[h].r
        \/ dirtyReq'[call[h].r].version > req[call[h].r].version

\* A step that commits nothing.
Quiet == req' = req /\ work' = work /\ loose' \subseteq Requests \union Works

\* Such a step leaves the history alone, but for WriteResolvedRequest.
LEMMA CommitsNothing ==
    ASSUME IInv, NothingCommitted
    PROVE  Quiet
BY DEF IInv, TypeOK, NothingCommitted, Quiet

\* A step that gives the call h the new state c, and writes at most one request
\* and one work item on which no other transaction has the lock.
LEMMA StepInvariant ==
    ASSUME IInv, NEW h \in Handlers, NEW c \in Call,
           call' = [call EXCEPT ![h] = c], CallOK(c),
           ReqStep(h), WorkStep(h), StaysNoted(h), SeenOK(h)',
           Quiet
    PROVE  IInv'
<1>1. TypeOK'
  <2>1. /\ dirtyReq' \in [Requests -> RequestRow]
        /\ reqLock' \in [Requests -> Handlers \union {None}]
    BY WriteReqTyped DEF IInv, ReqStep, ReqUntouched, TypeOK
  <2>2. /\ dirtyWork' \in [Works -> WorkRow]
        /\ workLock' \in [Works -> Handlers \union {None}]
    BY WriteWorkTyped DEF IInv, WorkStep, WorkUntouched, TypeOK
  <2>3. QED
    BY <2>1, <2>2 DEF IInv, TypeOK, Quiet
<1>2. CallsOK'
    BY DEF IInv, TypeOK, CallsOK
<1>3. RowsOK'
  <2>1. SUFFICES ASSUME NEW r \in Requests
                 PROVE  (IF reqLock[r] = None THEN dirtyReq[r] = req[r]
                         ELSE /\ req[r] # GoneRequest /\ dirtyReq[r].version > 0
                              /\ \/ dirtyReq[r].version > req[r].version
                                 \/ Noted(r) /\ dirtyReq[r].version = req[r].version)'
    <3>1. \A w \in Works :
             (IF workLock[w] = None THEN dirtyWork[w] = work[w]
              ELSE work[w] # GoneWork /\ dirtyWork[w].version > work[w].version)'
      BY IdsAssumption DEF IInv, TypeOK, RowsOK, WorkStep, WorkUntouched, WriteWork,
         CanLockWork, Quiet, GoneWork
    <3>2. QED
      BY <3>1 DEF RowsOK
  <2>2. CASE reqLock'[r] = reqLock[r] /\ dirtyReq'[r] = dirtyReq[r]
    BY <2>2, IdsAssumption DEF IInv, TypeOK, RowsOK, Noted, StaysNoted, Quiet, GoneRequest
  <2>3. CASE ~(reqLock'[r] = reqLock[r] /\ dirtyReq'[r] = dirtyReq[r])
    <3>1. PICK row \in RequestRow :
             /\ WriteReq(h, r, row)
             /\ req[r] # GoneRequest /\ row.version > 0
             /\ \/ row.version > req[r].version
                \/ /\ call'[h].step = "resolveLoad" /\ call'[h].r = r
                   /\ row.version = req[r].version
      BY <2>3 DEF IInv, TypeOK, ReqStep, ReqUntouched, WriteReq
    <3>2. reqLock'[r] = h /\ dirtyReq'[r] = row
      BY <3>1 DEF IInv, TypeOK, WriteReq
    <3>3. QED
      BY <3>1, <3>2, IdsAssumption DEF Noted, Quiet, GoneRequest
  <2>4. QED
    BY <2>2, <2>3
<1>4. AllSeenOK'
  <2>1. SUFFICES ASSUME NEW g \in Handlers, g # h PROVE SeenOK(g)'
    BY DEF AllSeenOK
  <2>2. call'[g] = call[g] /\ SeenOK(g) /\ CallOK(call[g])
    BY <2>1 DEF IInv, TypeOK, AllSeenOK, CallsOK
  <2>3. \A r \in Requests : reqLock[r] = g => reqLock'[r] = g
    BY <2>1, IdsAssumption DEF IInv, TypeOK, ReqStep, ReqUntouched, WriteReq, CanLockReq
  <2>4. \A w \in Works : workLock[w] = g => workLock'[w] = g
    BY <2>1, IdsAssumption DEF IInv, TypeOK, WorkStep, WorkUntouched, WriteWork, CanLockWork
  <2>5. QED
    BY <2>2, <2>3, <2>4 DEF SeenOK, CallOK, Quiet, GoneRequest, GoneWork, WithoutItsSource
<1>5. QED
    BY <1>1, <1>2, <1>3, <1>4 DEF IInv

\* Whatever starts a call carries rows and arguments of the right types.
LEMMA StartInvariant ==
    ASSUME IInv, NEW h \in Handlers, Start(h)
    PROVE  IInv'
<1>1. PICK body \in Bodies :
         \/ \E r \in Requests, to \in RequestStatuses :
               StartRequestTransition(h, r, to, body) \/ StartResolve(h, r, to, body)
         \/ \E w \in Works, to \in WorkStatuses : StartWorkTransition(h, w, to, body)
    BY DEF Start
<1> DEFINE Body == [fill: SUBSET Columns, clear: SUBSET Columns]
<1>2. body \in Body /\ NoBody \in Body
    BY BodiesAssumption DEF NoBody
<1>3. NoRequest \in RequestRow /\ NoWork \in WorkRow
    BY DEF NoRequest, NoWork, RequestRow, WorkRow, RequestStatuses, WorkStatuses
<1>4. ASSUME NEW r \in Requests, NEW to \in RequestStatuses,
             StartRequestTransition(h, r, to, body)
      PROVE  IInv'
  <2>0. PICK c : c = [Idle EXCEPT !.step = "ownRequest", !.r = r, !.w = req[r].linked,
                                  !.to = to, !.body = body, !.seenReq = req[r]]
    OBVIOUS
  <2>1. c = [step |-> "ownRequest", r |-> r, w |-> req[r].linked, to |-> to,
             body |-> body, seenReq |-> req[r], seenWork |-> NoWork]
    BY <2>0 DEF Idle
  <2>2. req[r] \in RequestRow /\ req[r].linked \in Works \union {None}
    BY DEF IInv, TypeOK, RequestRow
  <2>3. c \in Call /\ CallOK(c)
    BY <1>2, <1>3, <2>1, <2>2 DEF Call, CallOK, Steps
  <2>4. call' = [call EXCEPT ![h] = c] /\ call'[h] = c /\ Quiet
    BY CommitsNothing, <1>4, <2>0 DEF StartRequestTransition, Begin, IInv, TypeOK
  <2>5. SeenOK(h)'
    BY <1>4, <2>1, <2>2, <2>4 DEF SeenOK, RequestRow, Quiet, StartRequestTransition, Live
  <2>6. ReqStep(h) /\ WorkStep(h) /\ StaysNoted(h)
    BY <1>4 DEF StartRequestTransition, Begin, NothingWritten, ReqStep, WorkStep, StaysNoted
  <2>7. QED
    BY <2>3, <2>4, <2>5, <2>6, StepInvariant
<1>5. ASSUME NEW r \in Requests, NEW to \in RequestStatuses, StartResolve(h, r, to, body)
      PROVE  IInv'
  <2>0. PICK c : c = [Idle EXCEPT !.step = "resolveNotes", !.r = r, !.w = req[r].linked,
                                  !.to = to, !.body = body]
    OBVIOUS
  <2>1. c = [step |-> "resolveNotes", r |-> r, w |-> req[r].linked, to |-> to,
             body |-> body, seenReq |-> NoRequest, seenWork |-> NoWork]
    BY <2>0 DEF Idle
  <2>2. req[r].linked \in Works \union {None}
    BY DEF IInv, TypeOK, RequestRow
  <2>3. c \in Call /\ CallOK(c)
    BY <1>2, <1>3, <2>1, <2>2 DEF Call, CallOK, Steps
  <2>4. call' = [call EXCEPT ![h] = c] /\ call'[h] = c /\ Quiet
    BY CommitsNothing, <1>5, <2>0 DEF StartResolve, Begin, IInv, TypeOK
  <2>5. SeenOK(h)'
    BY <2>1, <2>4 DEF SeenOK
  <2>6. ReqStep(h) /\ WorkStep(h) /\ StaysNoted(h)
    BY <1>5 DEF StartResolve, Begin, NothingWritten, ReqStep, WorkStep, StaysNoted
  <2>7. QED
    BY <2>3, <2>4, <2>5, <2>6, StepInvariant
<1>6. ASSUME NEW w \in Works, NEW to \in WorkStatuses, StartWorkTransition(h, w, to, body)
      PROVE  IInv'
  <2>0. PICK c : c = [Idle EXCEPT !.step = "ownWork", !.w = w, !.to = to,
                                  !.body = body, !.seenWork = work[w]]
    OBVIOUS
  <2>1. c = [step |-> "ownWork", r |-> None, w |-> w, to |-> to,
             body |-> body, seenReq |-> NoRequest, seenWork |-> work[w]]
    BY <2>0 DEF Idle
  <2>2. work[w] \in WorkRow
    BY DEF IInv, TypeOK
  <2>3. c \in Call /\ CallOK(c)
    BY <1>2, <1>3, <2>1, <2>2 DEF Call, CallOK, Steps
  <2>4. call' = [call EXCEPT ![h] = c] /\ call'[h] = c /\ Quiet
    BY CommitsNothing, <1>6, <2>0 DEF StartWorkTransition, Begin, IInv, TypeOK
  <2>5. SeenOK(h)'
    BY <1>6, <2>1, <2>2, <2>4 DEF SeenOK, WorkRow, Quiet, StartWorkTransition, Live
  <2>6. ReqStep(h) /\ WorkStep(h) /\ StaysNoted(h)
    BY <1>6 DEF StartWorkTransition, Begin, NothingWritten, ReqStep, WorkStep, StaysNoted
  <2>7. QED
    BY <2>3, <2>4, <2>5, <2>6, StepInvariant
<1>7. QED
    BY <1>1, <1>4, <1>5, <1>6

-----------------------------------------------------------------------------
(* What the steps of a transaction have in common.                         *)

\* The steps that go by a row read before.
Checked == {"ownRequest", "readWork", "ownWork", "readRequest"}

\* A step after which the call no longer goes by the row it has checked.
LEMMA MoveInvariant ==
    ASSUME IInv, NEW h \in Handlers, NEW c \in Call,
           call' = [call EXCEPT ![h] = c], CallOK(c), c.step \notin Checked,
           ReqStep(h), WorkStep(h), StaysNoted(h), Quiet
    PROVE  IInv'
<1>1. call'[h] = c
    BY DEF IInv, TypeOK
<1>2. SeenOK(h)'
    BY <1>1 DEF SeenOK, Checked
<1>3. QED
    BY <1>2, StepInvariant

\* The last statement of a transaction: what is left is to commit.
LEMMA ToCommitInvariant ==
    ASSUME IInv, NEW h \in Handlers, GotoCommit(h),
           ReqStep(h), WorkStep(h), StaysNoted(h), Quiet
    PROVE  IInv'
<1>1. PICK c : c = [Idle EXCEPT !.step = "commit"]
    OBVIOUS
<1>2. c = [step |-> "commit", r |-> None, w |-> None, to |-> "draft",
           body |-> NoBody, seenReq |-> NoRequest, seenWork |-> NoWork]
    BY <1>1 DEF Idle
<1>3. c \in Call
    BY <1>2 DEF Call, NoBody, NoRequest, NoWork, RequestRow, WorkRow, Steps,
                RequestStatuses, WorkStatuses
<1>4. CallOK(c) /\ c.step \notin Checked
    BY <1>2 DEF CallOK, Checked
<1>5. call' = [call EXCEPT ![h] = c]
    BY <1>1 DEF GotoCommit
<1>6. QED
    BY <1>3, <1>4, <1>5, MoveInvariant

\* A statement after which only the step of the call has changed.
LEMMA GotoInvariant ==
    ASSUME IInv, NEW h \in Handlers, NEW s \in Steps \ Checked, Goto(h, s),
           CallOK([call[h] EXCEPT !.step = s]),
           ReqStep(h), WorkStep(h), StaysNoted(h), Quiet
    PROVE  IInv'
<1>1. PICK c : c = [call[h] EXCEPT !.step = s]
    OBVIOUS
<1>2. c \in Call /\ c.step \notin Checked
    BY <1>1 DEF IInv, TypeOK, Call
<1>3. call' = [call EXCEPT ![h] = c]
    BY <1>1 DEF Goto
<1>4. QED
    BY <1>1, <1>2, <1>3, MoveInvariant

\* What a transaction sees of a row is never older than the committed row.
LEMMA VisibleVersions ==
    ASSUME IInv, NEW h \in Handlers
    PROVE  /\ \A r \in Requests : /\ req[r].version \in Nat
                                  /\ VisibleReq(h, r).version \in Nat
                                  /\ VisibleReq(h, r).version >= req[r].version
           /\ \A w \in Works : /\ work[w].version \in Nat
                               /\ VisibleWork(h, w).version \in Nat
                               /\ VisibleWork(h, w).version >= work[w].version
<1>1. \A r \in Requests : req[r].version \in Nat /\ dirtyReq[r].version \in Nat
    BY DEF IInv, TypeOK, RequestRow
<1>2. \A w \in Works : work[w].version \in Nat /\ dirtyWork[w].version \in Nat
    BY DEF IInv, TypeOK, WorkRow
<1>3. QED
    BY <1>1, <1>2, IdsAssumption DEF IInv, RowsOK, VisibleReq, VisibleWork

\* A row a transaction sees is there, or at least was inserted and not deleted.
LEMMA ThereIsNotGone ==
    ASSUME IInv, NEW h \in Handlers
    PROVE  /\ \A r \in Requests : CanLockReq(h, r) /\ RequestThere(h, r) => req[r] # GoneRequest
           /\ \A w \in Works : CanLockWork(h, w) /\ WorkThere(h, w) => work[w] # GoneWork
           /\ \A r \in Requests : reqLock[r] = h => RequestThere(h, r)
<1>1. GoneRequest.version = 0 /\ GoneWork.version = 0
    BY DEF GoneRequest, NoRequest, GoneWork, NoWork
<1>2. QED
    BY <1>1, IdsAssumption DEF IInv, RowsOK, CanLockReq, CanLockWork, RequestThere, WorkThere,
       VisibleReq, VisibleWork

\* An UPDATE by id that counts the version of the row it sees up by one.
LEMMA RaiseReq ==
    ASSUME IInv, NEW h \in Handlers, NEW r \in Requests, NEW row \in RequestRow,
           CanLockReq(h, r), UpdateReqById(h, r, row),
           row.version = VisibleReq(h, r).version + 1
    PROVE  ReqStep(h)
<1>1. CASE RequestThere(h, r)
  <2>1. WriteReq(h, r, row) /\ req[r] # GoneRequest
    BY <1>1, ThereIsNotGone DEF UpdateReqById
  <2>2. row.version > 0 /\ row.version > req[r].version
    BY VisibleVersions
  <2>3. QED
    BY <2>1, <2>2 DEF ReqStep
<1>2. CASE ~RequestThere(h, r)
    BY <1>2 DEF UpdateReqById, ReqStep
<1>3. QED
    BY <1>1, <1>2

\* The same of a work item.
LEMMA RaiseWork ==
    ASSUME IInv, NEW h \in Handlers, NEW w \in Works, NEW row \in WorkRow,
           CanLockWork(h, w), UpdateWorkById(h, w, row),
           row.version = VisibleWork(h, w).version + 1
    PROVE  WorkStep(h)
<1>1. CASE WorkThere(h, w)
  <2>1. WriteWork(h, w, row) /\ work[w] # GoneWork
    BY <1>1, ThereIsNotGone DEF UpdateWorkById
  <2>2. row.version > work[w].version
    BY VisibleVersions
  <2>3. QED
    BY <2>1, <2>2 DEF WorkStep
<1>2. CASE ~WorkThere(h, w)
    BY <1>2 DEF UpdateWorkById, WorkStep
<1>3. QED
    BY <1>1, <1>2

\* A call is well formed, by its type and by the step it is at.
LEMMA CallTyped ==
    ASSUME IInv, NEW h \in Handlers
    PROVE  call[h] \in Call /\ CallOK(call[h])
BY DEF IInv, TypeOK, CallsOK

-----------------------------------------------------------------------------
(* One lemma per action of a running transaction.                          *)

\* Clearing or filling columns, and copying one, leaves a set of columns.
LEMMA FilledTyped ==
    /\ \A filled \in SUBSET Columns, column \in Columns, isFilled \in BOOLEAN :
          Copied(filled, column, isFilled) \in SUBSET Columns
    /\ \A row \in RequestRow \union WorkRow,
          body \in [fill: SUBSET Columns, clear: SUBSET Columns] :
          FilledBy(row, body) \in SUBSET Columns
    /\ {"hold_reason", "completion_summary", "result_summary"} \subseteq Columns
<1>1. \A filled \in SUBSET Columns, column \in Columns, isFilled \in BOOLEAN :
          Copied(filled, column, isFilled) \in SUBSET Columns
    BY DEF Copied
<1>2. \A row \in RequestRow \union WorkRow,
         body \in [fill: SUBSET Columns, clear: SUBSET Columns] :
          FilledBy(row, body) \in SUBSET Columns
    BY DEF FilledBy, RequestRow, WorkRow
<1>3. {"hold_reason", "completion_summary", "result_summary"} \subseteq Columns
    BY DEF Columns, RequestColumns, WorkColumns
<1>4. QED
    BY <1>1, <1>2, <1>3

\* The guarded UPDATE of RequestsService.transition finds the row it checked.
LEMMA WriteOwnRequestInvariant ==
    ASSUME IInv, NEW h \in Handlers, WriteOwnRequest(h)
    PROVE  IInv'
<1> DEFINE r == call[h].r
<1>1. /\ call[h].step = "ownRequest" /\ r \in Requests /\ call[h].to \in RequestStatuses
      /\ CanLockReq(h, r) /\ Quiet
      /\ call[h] \in Call
    BY CommitsNothing, CallTyped DEF CallOK, WriteOwnRequest, AtOwnRequest
<1>2. call[h].seenReq = req[r]
    BY <1>1 DEF WriteOwnRequest, IfMatch, LinkStands, IInv, AllSeenOK, SeenOK, GoneWork, NoWork
<1>3. req[r] \in RequestRow /\ req[r].version \in Nat
    BY <1>1 DEF IInv, TypeOK, RequestRow
<1>4. MovedRequest(h) \in RequestRow /\ MovedRequest(h).version = req[r].version + 1
  <2>1. call[h].body \in [fill: SUBSET Columns, clear: SUBSET Columns]
    BY <1>1 DEF Call
  <2>2. FilledBy(req[r], call[h].body) \in SUBSET Columns
    BY <1>3, <2>1, FilledTyped
  <2>3. PICK to, filled, version, completed :
           /\ to = call[h].to /\ filled = FilledBy(req[r], call[h].body)
           /\ version = req[r].version + 1
           /\ completed = Completed(req[r].completed, call[h].seenReq.status, to)
    OBVIOUS
  <2>4. /\ to \in RequestStatuses /\ filled \in SUBSET Columns
        /\ version \in Nat /\ completed \in BOOLEAN
    BY <1>1, <1>3, <2>2, <2>3 DEF Completed
  <2>5. MovedRequest(h) = [req[r] EXCEPT !.status = to, !.filled = filled,
                                         !.completed = completed, !.version = version]
    BY <1>3, <2>3 DEF MovedRequest, RequestRow
  <2>6. QED
    BY <1>3, <2>3, <2>4, <2>5 DEF RequestRow
<1>10. req[r] # GoneRequest
    BY <1>1, <1>2 DEF IInv, AllSeenOK, SeenOK, GoneRequest, NoRequest
<1>5. StaysNoted(h)
    BY <1>1 DEF StaysNoted
<1>6. CASE CreatesWork(call[h])
  <2>1. PICK w \in Works, pic \in BOOLEAN :
           /\ work[w] = NoWork /\ workLock[w] = None
           /\ WriteWork(h, w, NewWork(r, pic))
           /\ WriteReq(h, r, [MovedRequest(h) EXCEPT !.linked = w])
           /\ call' = [call EXCEPT ![h].step = "readWork", ![h].w = w]
    BY <1>6 DEF WriteOwnRequest
  <2>2. PICK row : row = [MovedRequest(h) EXCEPT !.linked = w]
    OBVIOUS
  <2>3. row \in RequestRow /\ row.version > req[r].version
    BY <1>3, <1>4, <2>2 DEF RequestRow
  <2>4. ReqStep(h)
    BY <1>1, <1>3, <1>4, <1>10, <2>1, <2>2, <2>3 DEF ReqStep, RequestRow
  <2>5. NewWork(r, pic) \in WorkRow /\ NewWork(r, pic).version = 1
    BY <1>1 DEF NewWork, NoWork, WorkRow, WorkStatuses
  <2>6. WorkStep(h)
    BY <2>1, <2>5 DEF WorkStep, CanLockWork, GoneWork, NoWork
  <2>7. PICK c : c = [call[h] EXCEPT !.step = "readWork", !.w = w]
    OBVIOUS
  <2>8. c \in Call /\ CallOK(c) /\ call' = [call EXCEPT ![h] = c] /\ call'[h] = c
    BY <1>1, <2>1, <2>7 DEF IInv, TypeOK, Call, CallOK, Steps
  <2>9. reqLock'[r] = h
    BY <1>1, <2>1 DEF WriteReq, IInv, TypeOK
  <2>10. SeenOK(h)'
    <3>1. c.step = "readWork" /\ c.r = r /\ c.seenReq = req[r]
      BY <1>1, <1>2, <2>7 DEF Call
    <3>2. QED
      BY <1>1, <2>8, <2>9, <3>1 DEF SeenOK, Quiet
  <2>11. QED
    BY <1>1, <1>5, <2>4, <2>6, <2>8, <2>10, StepInvariant
<1>7. CASE ~CreatesWork(call[h])
  <2>1. WriteReq(h, r, MovedRequest(h)) /\ WorkUntouched /\ Goto(h, "readWork")
    BY <1>7 DEF WriteOwnRequest
  <2>2. ReqStep(h) /\ WorkStep(h)
    BY <1>10, <1>1, <1>3, <1>4, <2>1 DEF ReqStep, WorkStep
  <2>3. PICK c : c = [call[h] EXCEPT !.step = "readWork"]
    OBVIOUS
  <2>4. c \in Call /\ CallOK(c) /\ call' = [call EXCEPT ![h] = c] /\ call'[h] = c
    BY <1>1, <2>1, <2>3 DEF IInv, TypeOK, Call, CallOK, Steps, Goto
  <2>5. reqLock'[r] = h
    BY <1>1, <2>1 DEF WriteReq, IInv, TypeOK
  <2>6. SeenOK(h)'
    <3>1. c.step = "readWork" /\ c.r = r /\ c.seenReq = req[r]
      BY <1>1, <1>2, <2>3 DEF Call
    <3>2. QED
      BY <1>1, <2>4, <2>5, <3>1 DEF SeenOK, Quiet
  <2>7. QED
    BY <1>1, <1>5, <2>2, <2>4, <2>6, StepInvariant
<1>8. QED
    BY <1>6, <1>7

\* The guarded UPDATE of WorkItemsService.transition likewise.
LEMMA WriteOwnWorkInvariant ==
    ASSUME IInv, NEW h \in Handlers, WriteOwnWork(h)
    PROVE  IInv'
<1> DEFINE w == call[h].w
<1>1. /\ call[h].step = "ownWork" /\ w \in Works /\ call[h].to \in WorkStatuses
      /\ CanLockWork(h, w) /\ Quiet
      /\ call[h] \in Call
    BY CommitsNothing, CallTyped DEF CallOK, WriteOwnWork, AtOwnWork
<1>2. /\ work[w] \in {call[h].seenWork, WithoutItsSource(call[h].seenWork)}
      /\ work[w] # GoneWork
    BY <1>1 DEF WriteOwnWork, IfMatch, IInv, AllSeenOK, SeenOK, GoneWork, NoWork
<1>3. work[w] \in WorkRow /\ work[w].version \in Nat
    BY <1>1 DEF IInv, TypeOK, WorkRow
<1>4. MovedWork(h) \in WorkRow /\ MovedWork(h).version = work[w].version + 1
  <2>1. call[h].body \in [fill: SUBSET Columns, clear: SUBSET Columns]
    BY <1>1 DEF Call
  <2>2. FilledBy(work[w], call[h].body) \in SUBSET Columns
    BY <1>3, <2>1, FilledTyped
  <2>3. PICK to, filled, version, completed :
           /\ to = call[h].to /\ filled = FilledBy(work[w], call[h].body)
           /\ version = work[w].version + 1
           /\ completed = Completed(work[w].completed, call[h].seenWork.status, to)
    OBVIOUS
  <2>4. /\ to \in WorkStatuses /\ filled \in SUBSET Columns
        /\ version \in Nat /\ completed \in BOOLEAN
    BY <1>1, <1>3, <2>2, <2>3 DEF Completed
  <2>5. MovedWork(h) = [work[w] EXCEPT !.status = to, !.filled = filled,
                                       !.completed = completed, !.version = version]
    BY <1>3, <2>3 DEF MovedWork, WorkRow
  <2>6. QED
    BY <1>3, <2>3, <2>4, <2>5 DEF WorkRow
<1>5. WriteWork(h, w, MovedWork(h)) /\ ReqUntouched
    BY DEF WriteOwnWork
<1>6. ReqStep(h) /\ WorkStep(h) /\ StaysNoted(h)
    BY <1>1, <1>2, <1>3, <1>4, <1>5 DEF ReqStep, WorkStep, StaysNoted
<1>7. PICK c : c = [call[h] EXCEPT !.step = "readRequest", !.r = work[w].source]
    OBVIOUS
<1>8. call' = [call EXCEPT ![h] = c] /\ call'[h] = c
    BY <1>7 DEF WriteOwnWork, IInv, TypeOK
<1>9. c \in Call /\ CallOK(c)
    BY <1>1, <1>2, <1>3, <1>7 DEF Call, CallOK, Steps, WorkRow
<1>10. workLock'[w] = h
    BY <1>1, <1>5 DEF WriteWork, IInv, TypeOK
<1>11. SeenOK(h)'
  <2>1. c.step = "readRequest" /\ c.w = w /\ c.seenWork = call[h].seenWork
    BY <1>1, <1>7 DEF Call
  <2>2. QED
    BY <1>1, <1>2, <1>8, <1>10, <2>1 DEF SeenOK, Quiet
<1>12. QED
    BY <1>1, <1>6, <1>8, <1>9, <1>11, StepInvariant

\* A transition that is refused, and a transaction Postgres aborts.
LEMMA RefusalInvariant ==
    ASSUME IInv, NEW h \in Handlers,
           RefuseRequest(h) \/ RefuseWork(h) \/ AbortDeadlocked(h) \/ Stop(h)
    PROVE  IInv'
BY RollbackInvariant DEF RefuseRequest, RefuseWork, AbortDeadlocked, Stop

\* The synchronisation has read the linked work item.
LEMMA ReadLinkedWorkInvariant ==
    ASSUME IInv, NEW h \in Handlers, ReadLinkedWork(h)
    PROVE  IInv'
<1> DEFINE row == VisibleWork(h, call[h].w)
           target == WorkStatusFor[call[h].to]
           step == SyncStep(WorkEdges, row.status, target, "writeWork")
<1>1. /\ call[h].step = "readWork" /\ call[h].r \in Requests
      /\ call[h].to \in RequestStatuses /\ Quiet
    BY CommitsNothing, CallTyped DEF CallOK, ReadLinkedWork
<1>2. StaysNoted(h)
    BY <1>1 DEF StaysNoted
<1>3. ASSUME NothingWritten PROVE ReqStep(h) /\ WorkStep(h)
    BY <1>3 DEF NothingWritten, ReqStep, WorkStep
<1>4. CASE GotoCommit(h) /\ NothingWritten
    BY <1>1, <1>2, <1>3, <1>4, ToCommitInvariant
<1>5. CASE Rollback(h)
    BY <1>5, RollbackInvariant
<1>6. CASE /\ call[h].w # None /\ NothingWritten
           /\ call' = [call EXCEPT ![h].seenWork = row, ![h].step = step]
  <2>1. PICK c : c = [call[h] EXCEPT !.seenWork = row, !.step = step]
    OBVIOUS
  <2>2. call[h] \in Call /\ call[h].w \in Works
    BY <1>6, CallTyped DEF Call
  <2>3. row \in WorkRow /\ step \in {"writeWork", "flagRequest"}
    BY <2>2, VisibleTyped DEF IInv, SyncStep
  <2>4. c \in Call /\ CallOK(c) /\ c.step \notin Checked
    BY <1>1, <2>1, <2>2, <2>3 DEF Call, CallOK, Checked, Steps
  <2>5. call' = [call EXCEPT ![h] = c]
    BY <1>6, <2>1 DEF IInv, TypeOK
  <2>6. QED
    BY <1>1, <1>2, <1>3, <1>6, <2>4, <2>5, MoveInvariant
<1>7. QED
    BY <1>4, <1>5, <1>6 DEF ReadLinkedWork, LoadsWork

\* It moves the work item, or a CHECK refuses the row.
LEMMA WriteLinkedWorkInvariant ==
    ASSUME IInv, NEW h \in Handlers, WriteLinkedWork(h)
    PROVE  IInv'
<1> DEFINE c == call[h]
           row == VisibleWork(h, c.w)
<1>1. /\ c.step = "writeWork" /\ c.w \in Works /\ c.to \in RequestStatuses
      /\ CanLockWork(h, c.w)
    BY CallTyped DEF CallOK, WriteLinkedWork
<1>2. row \in WorkRow /\ row.version \in Nat /\ row.filled \in SUBSET Columns
    BY <1>1, VisibleTyped DEF IInv, WorkRow
<1>3. PICK status \in WorkStatuses : status = WorkStatusFor[c.to]
    BY <1>1, MapsTyped
<1>4. PICK filled \in SUBSET Columns, version \in Nat, completed \in BOOLEAN :
         /\ version = row.version + 1
         /\ SyncedWork(h) = [row EXCEPT !.status = status, !.flagged = FALSE,
                                       !.version = version, !.completed = completed,
                                       !.filled = filled]
  <2>1. PICK filled : filled =
               CASE status = "blocked" ->
                        Copied(row.filled, "hold_reason", "hold_reason" \in c.seenWork.filled)
                 [] status = "done" ->
                        Copied(row.filled, "completion_summary", "completion_summary" \in c.seenWork.filled)
                 [] OTHER -> row.filled
    OBVIOUS
  <2>2. filled \in SUBSET Columns
    BY <1>2, <2>1, FilledTyped DEF Copied
  <2>3. SyncedWork(h) = [row EXCEPT !.status = status, !.flagged = FALSE,
                                   !.version = row.version + 1,
                                   !.completed = Completed(row.completed, c.seenWork.status, status),
                                   !.filled = filled]
    BY <1>2, <1>3, <2>1 DEF SyncedWork, WorkRow
  <2>4. PICK version \in Nat : version = row.version + 1
    BY <1>2
  <2>5. PICK completed \in BOOLEAN : completed = Completed(row.completed, c.seenWork.status, status)
    BY DEF Completed
  <2>6. WITNESS filled \in SUBSET Columns, version \in Nat, completed \in BOOLEAN
  <2>7. QED
    BY <2>3, <2>4, <2>5
<1>5. PICK new : new = SyncedWork(h)
    OBVIOUS
<1>6. new \in WorkRow /\ new.version = row.version + 1
    BY <1>2, <1>4, <1>5 DEF WorkRow
<1>7. StaysNoted(h)
    BY <1>1 DEF StaysNoted
<1>8. CASE ~WorkRefused(h, c.w, new)
  <2>1. /\ UpdateWorkById(h, c.w, new) /\ ReqUntouched /\ GotoCommit(h)
        /\ Quiet
    BY CommitsNothing, <1>5, <1>8 DEF WriteLinkedWork
  <2>2. ReqStep(h) /\ WorkStep(h)
    BY <1>1, <1>6, <2>1, RaiseWork DEF ReqStep, WorkStep
  <2>3. QED
    BY <1>7, <2>1, <2>2, ToCommitInvariant
<1>9. CASE WorkRefused(h, c.w, new)
    BY <1>5, <1>9, RollbackInvariant DEF WriteLinkedWork
<1>10. QED
    BY <1>8, <1>9

\* The synchronisation has read the request a work item came from.
LEMMA ReadSourceRequestInvariant ==
    ASSUME IInv, NEW h \in Handlers, ReadSourceRequest(h)
    PROVE  IInv'
<1> DEFINE row == VisibleReq(h, call[h].r)
           target == RequestStatusFor[call[h].to]
           step == SyncStep(RequestEdges, row.status, target, "writeRequest")
<1>1. /\ call[h].step = "readRequest" /\ call[h].w \in Works
      /\ call[h].to \in WorkStatuses /\ Quiet
    BY CommitsNothing, CallTyped DEF CallOK, ReadSourceRequest
<1>2. ReqStep(h) /\ WorkStep(h) /\ StaysNoted(h)
    BY <1>1 DEF ReadSourceRequest, NothingWritten, ReqStep, WorkStep, StaysNoted
<1>3. CASE GotoCommit(h)
    BY <1>1, <1>2, <1>3, ToCommitInvariant
<1>4. CASE /\ call[h].r # None
           /\ call' = [call EXCEPT ![h].seenReq = row, ![h].step = step]
  <2>1. PICK c : c = [call[h] EXCEPT !.seenReq = row, !.step = step]
    OBVIOUS
  <2>2. call[h] \in Call /\ call[h].r \in Requests
    BY <1>4, CallTyped DEF Call
  <2>3. row \in RequestRow /\ step \in {"writeRequest", "flagRequest"}
    BY <2>2, VisibleTyped DEF IInv, SyncStep
  <2>4. c \in Call /\ CallOK(c) /\ c.step \notin Checked
    BY <1>1, <2>1, <2>2, <2>3 DEF Call, CallOK, Checked, Steps
  <2>5. call' = [call EXCEPT ![h] = c]
    BY <1>4, <2>1 DEF IInv, TypeOK
  <2>6. QED
    BY <1>1, <1>2, <2>4, <2>5, MoveInvariant
<1>5. QED
    BY <1>3, <1>4 DEF ReadSourceRequest

\* It moves the request, or a CHECK refuses the row.
LEMMA WriteSourceRequestInvariant ==
    ASSUME IInv, NEW h \in Handlers, WriteSourceRequest(h)
    PROVE  IInv'
<1> DEFINE c == call[h]
           row == VisibleReq(h, c.r)
<1>1. /\ c.step = "writeRequest" /\ c.r \in Requests /\ c.to \in WorkStatuses
      /\ CanLockReq(h, c.r)
    BY CallTyped DEF CallOK, WriteSourceRequest
<1>2. row \in RequestRow /\ row.version \in Nat /\ row.filled \in SUBSET Columns
    BY <1>1, VisibleTyped DEF IInv, RequestRow
<1>3. PICK status \in RequestStatuses : status = RequestStatusFor[c.to]
    BY <1>1, MapsTyped
<1>4. PICK filled \in SUBSET Columns, version \in Nat, completed \in BOOLEAN :
         /\ version = row.version + 1
         /\ SyncedRequest(h) = [row EXCEPT !.status = status, !.flagged = FALSE,
                                       !.version = version, !.completed = completed,
                                       !.filled = filled]
  <2>1. PICK filled : filled =
               CASE status = "on_hold" ->
                        Copied(row.filled, "hold_reason", "hold_reason" \in c.seenReq.filled)
                 [] status = "done" ->
                        Copied(row.filled, "result_summary", "result_summary" \in c.seenReq.filled)
                 [] OTHER -> row.filled
    OBVIOUS
  <2>2. filled \in SUBSET Columns
    BY <1>2, <2>1, FilledTyped DEF Copied
  <2>3. SyncedRequest(h) = [row EXCEPT !.status = status, !.flagged = FALSE,
                                   !.version = row.version + 1,
                                   !.completed = Completed(row.completed, c.seenReq.status, status),
                                   !.filled = filled]
    BY <1>2, <1>3, <2>1 DEF SyncedRequest, RequestRow
  <2>4. PICK version \in Nat : version = row.version + 1
    BY <1>2
  <2>5. PICK completed \in BOOLEAN : completed = Completed(row.completed, c.seenReq.status, status)
    BY DEF Completed
  <2>6. WITNESS filled \in SUBSET Columns, version \in Nat, completed \in BOOLEAN
  <2>7. QED
    BY <2>3, <2>4, <2>5
<1>5. PICK new : new = SyncedRequest(h)
    OBVIOUS
<1>6. new \in RequestRow /\ new.version = row.version + 1
    BY <1>2, <1>4, <1>5 DEF RequestRow
<1>7. StaysNoted(h)
    BY <1>1 DEF StaysNoted
<1>8. CASE ~RequestRefused(h, c.r, new)
  <2>1. /\ UpdateReqById(h, c.r, new) /\ WorkUntouched /\ GotoCommit(h)
        /\ Quiet
    BY CommitsNothing, <1>5, <1>8 DEF WriteSourceRequest
  <2>2. ReqStep(h) /\ WorkStep(h)
    BY <1>1, <1>6, <2>1, RaiseReq DEF ReqStep, WorkStep
  <2>3. QED
    BY <1>7, <2>1, <2>2, ToCommitInvariant
<1>9. CASE RequestRefused(h, c.r, new)
    BY <1>5, <1>9, RollbackInvariant DEF WriteSourceRequest
<1>10. QED
    BY <1>8, <1>9

\* flagConflict marks the request; the work item is next.
LEMMA FlagRequestInvariant ==
    ASSUME IInv, NEW h \in Handlers, FlagRequest(h)
    PROVE  IInv'
<1> DEFINE c == call[h]
           row == VisibleReq(h, c.r)
<1>1. /\ c.step = "flagRequest" /\ c.r \in Requests /\ c.w \in Works
      /\ CanLockReq(h, c.r) /\ Quiet
    BY CommitsNothing, CallTyped DEF CallOK, FlagRequest
<1>2. row \in RequestRow /\ row.version \in Nat
    BY <1>1, VisibleTyped DEF IInv, RequestRow
<1>3. Flagged(row) \in RequestRow /\ Flagged(row).version = row.version + 1
  <2>1. PICK version \in Nat : version = row.version + 1
    BY <1>2
  <2>2. Flagged(row) = [row EXCEPT !.flagged = TRUE, !.version = version]
    BY <1>2, <2>1 DEF Flagged, RequestRow
  <2>3. QED
    BY <1>2, <2>1, <2>2 DEF RequestRow
<1>4. ReqStep(h)
    BY <1>1, <1>3, RaiseReq DEF FlagRequest
<1>5. WorkStep(h) /\ StaysNoted(h)
    BY <1>1 DEF FlagRequest, WorkStep, StaysNoted
<1>6. Goto(h, "flagWork") /\ "flagWork" \in Steps \ Checked
    BY DEF FlagRequest, Steps, Checked
<1>7. CallOK([c EXCEPT !.step = "flagWork"])
    BY <1>1, CallTyped DEF CallOK, Call
<1>8. QED
    BY <1>1, <1>4, <1>5, <1>6, <1>7, GotoInvariant

\* Then it marks the work item, and that is all.
LEMMA FlagWorkInvariant ==
    ASSUME IInv, NEW h \in Handlers, FlagWork(h)
    PROVE  IInv'
<1> DEFINE c == call[h]
           row == VisibleWork(h, c.w)
<1>1. /\ c.step = "flagWork" /\ c.w \in Works
      /\ CanLockWork(h, c.w) /\ Quiet
    BY CommitsNothing, CallTyped DEF CallOK, FlagWork
<1>2. row \in WorkRow /\ row.version \in Nat
    BY <1>1, VisibleTyped DEF IInv, WorkRow
<1>3. Flagged(row) \in WorkRow /\ Flagged(row).version = row.version + 1
  <2>1. PICK version \in Nat : version = row.version + 1
    BY <1>2
  <2>2. Flagged(row) = [row EXCEPT !.flagged = TRUE, !.version = version]
    BY <1>2, <2>1 DEF Flagged, WorkRow
  <2>3. QED
    BY <1>2, <2>1, <2>2 DEF WorkRow
<1>4. WorkStep(h)
    BY <1>1, <1>3, RaiseWork DEF FlagWork
<1>5. ReqStep(h) /\ StaysNoted(h) /\ GotoCommit(h)
    BY <1>1 DEF FlagWork, ReqStep, StaysNoted
<1>6. QED
    BY <1>1, <1>4, <1>5, ToCommitInvariant

\* The notes of a resolution keep the version of the request, the one write
\* that does, and the call stays on that request.
LEMMA WriteResolveNotesInvariant ==
    ASSUME IInv, NEW h \in Handlers, WriteResolveNotes(h)
    PROVE  IInv'
<1> DEFINE c == call[h]
           row == VisibleReq(h, c.r)
<1>1. c.step = "resolveNotes" /\ c.r \in Requests /\ c \in Call /\ CallOK(c)
    BY CallTyped DEF CallOK, WriteResolveNotes
<1>2. row \in RequestRow /\ row.version \in Nat
    BY <1>1, VisibleTyped DEF IInv, RequestRow
<1>3. CallOK([c EXCEPT !.step = "resolveLoad"]) /\ "resolveLoad" \in Steps \ Checked
  <2>1. PICK d : d = [c EXCEPT !.step = "resolveLoad"]
    OBVIOUS
  <2>2. d.step = "resolveLoad" /\ d.r = c.r /\ d.to = c.to
    BY <1>1, <2>1 DEF Call
  <2>3. QED
    BY <1>1, <2>1, <2>2 DEF CallOK, Steps, Checked
<1>4. StaysNoted(h)
    BY <1>1 DEF StaysNoted
<1>5. CASE c.body = NoBody
  <2>1. Goto(h, "resolveLoad") /\ NothingWritten /\ Quiet
    BY CommitsNothing, <1>5 DEF WriteResolveNotes
  <2>2. ReqStep(h) /\ WorkStep(h)
    BY <2>1 DEF NothingWritten, ReqStep, WorkStep
  <2>3. QED
    BY <1>3, <1>4, <2>1, <2>2, GotoInvariant
<1>6. CASE c.body # NoBody /\ ~RequestRefused(h, c.r, NotedRequest(h))
  <2>1. PICK new : new = NotedRequest(h)
    OBVIOUS
  <2>2. /\ CanLockReq(h, c.r) /\ UpdateReqById(h, c.r, new) /\ WorkUntouched
        /\ Goto(h, "resolveLoad") /\ Quiet
    BY CommitsNothing, <1>6, <2>1 DEF WriteResolveNotes
  <2>3. c.body \in [fill: SUBSET Columns, clear: SUBSET Columns]
    BY <1>1 DEF Call
  <2>4. PICK filled \in SUBSET Columns : filled = FilledBy(row, c.body)
    BY <1>2, <2>3, FilledTyped
  <2>5. new = [row EXCEPT !.filled = filled]
    BY <2>1, <2>4 DEF NotedRequest
  <2>6. new \in RequestRow /\ new.version = row.version
    BY <1>2, <2>4, <2>5 DEF RequestRow
  <2>7. call'[h].step = "resolveLoad" /\ call'[h].r = c.r
    <3>1. PICK d : d = [c EXCEPT !.step = "resolveLoad"]
      OBVIOUS
    <3>2. call'[h] = d
      BY <2>2, <3>1 DEF Goto, IInv, TypeOK
    <3>3. QED
      BY <1>1, <3>1, <3>2 DEF Call
  <2>8. new.version > req[c.r].version \/ new.version = req[c.r].version
    BY <1>1, <2>6, VisibleVersions
  <2>9. ReqStep(h) /\ WorkStep(h)
    <3>1. CASE RequestThere(h, c.r)
      <4>1. WriteReq(h, c.r, new) /\ req[c.r] # GoneRequest /\ new.version > 0
        BY <1>1, <1>2, <2>2, <2>6, <3>1, ThereIsNotGone DEF UpdateReqById, RequestThere
      <4>2. QED
        BY <1>1, <2>2, <2>6, <2>7, <2>8, <4>1 DEF ReqStep, WorkStep
    <3>2. CASE ~RequestThere(h, c.r)
      BY <2>2, <3>2 DEF UpdateReqById, ReqStep, WorkStep
    <3>3. QED
      BY <3>1, <3>2
  <2>10. QED
    BY <1>3, <1>4, <2>2, <2>9, GotoInvariant
<1>7. CASE c.body # NoBody /\ RequestRefused(h, c.r, NotedRequest(h))
    BY <1>7, RollbackInvariant DEF WriteResolveNotes
<1>8. QED
    BY <1>5, <1>6, <1>7

\* The pair a resolution works on is read.
LEMMA LoadPairInvariant ==
    ASSUME IInv, NEW h \in Handlers, LoadPair(h)
    PROVE  IInv'
<1> DEFINE row == IF LoadsWork(h) THEN VisibleWork(h, call[h].w) ELSE NoWork
           w == IF LoadsWork(h) THEN call[h].w ELSE None
           seen == VisibleReq(h, call[h].r)
<1>1. /\ call[h].step = "resolveLoad" /\ call[h].r \in Requests /\ call[h] \in Call
      /\ call[h].to \in RequestStatuses
    BY CallTyped DEF CallOK, LoadPair
<1>2. CASE Rollback(h)
    BY <1>2, RollbackInvariant
<1>3. CASE /\ call' = [call EXCEPT ![h].step = "resolveRequest", ![h].w = w,
                                   ![h].seenReq = seen, ![h].seenWork = row]
           /\ NothingWritten /\ NothingCommitted
  <2>1. PICK c : c = [call[h] EXCEPT !.step = "resolveRequest", !.w = w,
                                     !.seenReq = seen, !.seenWork = row]
    OBVIOUS
  <2>2. seen \in RequestRow
    BY <1>1, VisibleTyped DEF IInv
  <2>3. row \in WorkRow
    BY <1>1, VisibleTyped DEF IInv, Call, NoWork, WorkRow, WorkStatuses, LoadsWork
  <2>4. c \in Call /\ CallOK(c) /\ c.step \notin Checked /\ c.r = call[h].r
    BY <1>1, <2>1, <2>2, <2>3 DEF Call, CallOK, Checked, Steps
  <2>5. call' = [call EXCEPT ![h] = c] /\ call'[h] = c
    BY <1>3, <2>1 DEF IInv, TypeOK
  <2>6. c.step = "resolveRequest"
    BY <1>1, <2>1 DEF Call
  <2>7. ReqStep(h) /\ WorkStep(h) /\ StaysNoted(h)
    BY <1>3, <2>4, <2>5, <2>6 DEF NothingWritten, ReqStep, WorkStep, StaysNoted
  <2>8. QED
    BY <1>3, <2>4, <2>5, <2>7, MoveInvariant, CommitsNothing
<1>4. CASE ~RequestThere(h, call[h].r) /\ GotoCommit(h) /\ NothingWritten /\ NothingCommitted
  <2>1. ReqStep(h) /\ WorkStep(h) /\ StaysNoted(h)
    BY <1>1, <1>4, ThereIsNotGone DEF NothingWritten, ReqStep, WorkStep, StaysNoted
  <2>2. QED
    BY <1>4, <2>1, ToCommitInvariant, CommitsNothing
<1>5. QED
    BY <1>2, <1>3, <1>4 DEF LoadPair

\* The chosen status raises the version of the request again.
LEMMA WriteResolvedRequestInvariant ==
    ASSUME IInv, NEW h \in Handlers, WriteResolvedRequest(h)
    PROVE  IInv'
<1> DEFINE c == call[h]
           row == VisibleReq(h, c.r)
<1>1. /\ c.step = "resolveRequest" /\ c.r \in Requests /\ c.to \in RequestStatuses
      /\ CanLockReq(h, c.r) /\ c \in Call
    BY CallTyped DEF CallOK, WriteResolvedRequest
<1>2. row \in RequestRow /\ row.version \in Nat
    BY <1>1, VisibleTyped DEF IInv, RequestRow
<1>3. PICK new : new = ResolvedRequest(h)
    OBVIOUS
<1>4. new \in RequestRow /\ new.version = row.version + 1
  <2>1. PICK status, version, completed :
           /\ status = c.to /\ version = row.version + 1
           /\ completed = Completed(row.completed, c.seenReq.status, c.to)
    OBVIOUS
  <2>2. status \in RequestStatuses /\ version \in Nat /\ completed \in BOOLEAN
    BY <1>1, <1>2, <2>1 DEF Completed
  <2>3. new = [row EXCEPT !.status = status, !.completed = completed,
                          !.flagged = FALSE, !.version = version]
    BY <1>2, <1>3, <2>1 DEF ResolvedRequest, RequestRow
  <2>4. QED
    BY <1>2, <2>1, <2>2, <2>3 DEF RequestRow
<1>5. CASE ~RequestRefused(h, c.r, new)
  <2>1. /\ UpdateReqById(h, c.r, new) /\ WorkUntouched
        /\ IF c.w = None THEN GotoCommit(h) ELSE Goto(h, "resolveWork")
        /\ Quiet
    <3>1. loose' = loose \/ loose' = loose \union {c.r}
      BY <1>3, <1>5 DEF WriteResolvedRequest
    <3>2. QED
      BY <1>1, <1>3, <1>5, <3>1 DEF WriteResolvedRequest, Quiet, IInv, TypeOK
  <2>2. ReqStep(h) /\ WorkStep(h)
    BY <1>1, <1>4, <2>1, RaiseReq DEF WorkStep
  <2>3. reqLock[c.r] = h => dirtyReq'[c.r] = new
    BY <1>1, <2>1, ThereIsNotGone DEF UpdateReqById, WriteReq, IInv, TypeOK
  <2>4. StaysNoted(h)
    BY <1>1, <1>4, <2>3, VisibleVersions DEF StaysNoted
  <2>5. CASE c.w = None
    BY <2>1, <2>2, <2>4, <2>5, ToCommitInvariant
  <2>6. CASE c.w # None
    <3>1. CallOK([c EXCEPT !.step = "resolveWork"]) /\ "resolveWork" \in Steps \ Checked
      <4>1. PICK d : d = [c EXCEPT !.step = "resolveWork"]
        OBVIOUS
      <4>2. d.step = "resolveWork" /\ d.r = c.r /\ d.to = c.to /\ d.w = c.w /\ c.w \in Works
        BY <1>1, <2>6, <4>1 DEF Call
      <4>3. QED
        BY <1>1, <4>1, <4>2 DEF CallOK, Steps, Checked
    <3>2. QED
      BY <2>1, <2>2, <2>4, <2>6, <3>1, GotoInvariant
  <2>7. QED
    BY <2>5, <2>6
<1>6. CASE RequestRefused(h, c.r, new)
    BY <1>3, <1>6, RollbackInvariant DEF WriteResolvedRequest
<1>7. QED
    BY <1>5, <1>6

\* The work item follows the request that was resolved.
LEMMA WriteResolvedWorkInvariant ==
    ASSUME IInv, NEW h \in Handlers, WriteResolvedWork(h)
    PROVE  IInv'
<1> DEFINE c == call[h]
           row == VisibleWork(h, c.w)
<1>1. /\ c.step = "resolveWork" /\ c.w \in Works /\ c.to \in RequestStatuses
      /\ CanLockWork(h, c.w)
    BY CallTyped DEF CallOK, WriteResolvedWork
<1>2. row \in WorkRow /\ row.version \in Nat /\ row.filled \in SUBSET Columns
    BY <1>1, VisibleTyped DEF IInv, WorkRow
<1>3. PICK status \in WorkStatuses : status = WorkStatusFor[c.to]
    BY <1>1, MapsTyped
<1>4. PICK version \in Nat : version = row.version + 1
    BY <1>2
<1>5. PICK new : new = ResolvedWork(h)
    OBVIOUS
<1>6. PICK filled : filled =
             CASE status = "blocked" ->
                      Copied(row.filled, "hold_reason", "hold_reason" \in c.seenReq.filled)
               [] status = "done" ->
                      Copied(row.filled, "completion_summary",
                             "result_summary" \in c.seenReq.filled)
               [] OTHER -> row.filled
    OBVIOUS
<1>7. filled \in SUBSET Columns
    BY <1>2, <1>6, FilledTyped DEF Copied
<1>8. PICK completed \in BOOLEAN : completed = Completed(row.completed, c.seenWork.status, status)
    BY DEF Completed
<1>9. new \in WorkRow /\ new.version = row.version + 1
  <2>1. new = [row EXCEPT !.status = status, !.filled = filled, !.completed = completed,
                          !.flagged = FALSE, !.version = version]
    BY <1>2, <1>3, <1>4, <1>5, <1>6, <1>8 DEF ResolvedWork, WorkRow
  <2>2. QED
    BY <1>2, <1>4, <1>7, <2>1 DEF WorkRow
<1>10. StaysNoted(h)
    BY <1>1 DEF StaysNoted
<1>11. CASE ~WorkRefused(h, c.w, new)
  <2>1. /\ UpdateWorkById(h, c.w, new) /\ ReqUntouched /\ GotoCommit(h)
        /\ Quiet
    BY CommitsNothing, <1>5, <1>11 DEF WriteResolvedWork
  <2>2. ReqStep(h) /\ WorkStep(h)
    BY <1>1, <1>9, <2>1, RaiseWork DEF ReqStep
  <2>3. QED
    BY <1>10, <2>1, <2>2, ToCommitInvariant
<1>12. CASE WorkRefused(h, c.w, new)
    BY <1>5, <1>12, RollbackInvariant DEF WriteResolvedWork
<1>13. QED
    BY <1>11, <1>12

-----------------------------------------------------------------------------
(* Handlers that are one step, and the invariant as a whole.               *)

\* What a step may do to the committed rows.
Rising ==
    /\ \A r \in Requests : req'[r] # req[r] =>
          \/ req'[r].version > req[r].version
          \/ req'[r] = GoneRequest
          \/ \E w \in Works : /\ req[r].linked = w /\ work'[w] = GoneWork
                              /\ req'[r] = [req[r] EXCEPT !.linked = None]
    /\ \A w \in Works : work'[w] # work[w] =>
          \/ work'[w].version > work[w].version
          \/ work'[w] = GoneWork
          \/ \E r \in Requests : /\ work[w].source = r /\ req'[r] = GoneRequest
                                 /\ work'[w] = WithoutItsSource(work[w])

\* A request nobody has locked is replaced by one of a higher version.
LEMMA PutReqInvariant ==
    ASSUME IInv, NEW r \in Requests, NEW row \in RequestRow, PutReq(r, row),
           row.version = req[r].version + 1, req[r] # GoneRequest
    PROVE  IInv' /\ Rising
<1>1. /\ reqLock[r] = None /\ req[r].version \in Nat
      /\ req' = [req EXCEPT ![r] = row] /\ dirtyReq' = [dirtyReq EXCEPT ![r] = row]
      /\ UNCHANGED <<work, dirtyWork, reqLock, workLock, call, loose>>
    BY DEF PutReq, IInv, TypeOK, RequestRow
<1>2. TypeOK'
    BY <1>1 DEF IInv, TypeOK
<1>3. CallsOK'
    BY <1>1 DEF IInv, CallsOK
<1>4. RowsOK'
    BY <1>1 DEF IInv, TypeOK, RowsOK, Noted, GoneRequest, GoneWork
<1>5. AllSeenOK'
  <2>1. SUFFICES ASSUME NEW h \in Handlers PROVE SeenOK(h)'
    BY DEF AllSeenOK
  <2>2. SeenOK(h) /\ CallOK(call[h]) /\ call[h] \in Call
    BY DEF IInv, TypeOK, CallsOK, AllSeenOK
  <2>3. call[h].seenReq.version \in Nat
    BY <2>2 DEF Call, RequestRow
  <2>4. \A q \in Requests : req'[q] = IF q = r THEN row ELSE req[q]
    BY <1>1 DEF IInv, TypeOK
  <2>5. reqLock[r] # h
    BY <1>1, IdsAssumption
  <2>6. QED
    BY <1>1, <2>2, <2>3, <2>4, <2>5 DEF SeenOK, CallOK, Call, GoneRequest, GoneWork, WithoutItsSource
<1>6. Rising
    BY <1>1 DEF Rising, IInv, TypeOK
<1>7. QED
    BY <1>2, <1>3, <1>4, <1>5, <1>6 DEF IInv

\* The same of a work item.
LEMMA PutWorkInvariant ==
    ASSUME IInv, NEW w \in Works, NEW row \in WorkRow, PutWorkRow(w, row),
           loose' \subseteq Requests \union Works,
           row.version = work[w].version + 1, work[w] # GoneWork
    PROVE  IInv' /\ Rising
<1>1. /\ workLock[w] = None /\ work[w].version \in Nat
      /\ work' = [work EXCEPT ![w] = row] /\ dirtyWork' = [dirtyWork EXCEPT ![w] = row]
      /\ UNCHANGED <<req, dirtyReq, reqLock, workLock, call>>
    BY DEF PutWorkRow, IInv, TypeOK, WorkRow
<1>2. TypeOK'
    BY <1>1 DEF IInv, TypeOK
<1>3. CallsOK'
    BY <1>1 DEF IInv, CallsOK
<1>4. RowsOK'
    BY <1>1 DEF IInv, TypeOK, RowsOK, Noted, GoneRequest, GoneWork
<1>5. AllSeenOK'
  <2>1. SUFFICES ASSUME NEW h \in Handlers PROVE SeenOK(h)'
    BY DEF AllSeenOK
  <2>2. SeenOK(h) /\ CallOK(call[h]) /\ call[h] \in Call
    BY DEF IInv, TypeOK, CallsOK, AllSeenOK
  <2>3. call[h].seenWork.version \in Nat
    BY <2>2 DEF Call, WorkRow
  <2>4. \A v \in Works : work'[v] = IF v = w THEN row ELSE work[v]
    BY <1>1 DEF IInv, TypeOK
  <2>5. workLock[w] # h
    BY <1>1, IdsAssumption
  <2>6. QED
    BY <1>1, <2>2, <2>3, <2>4, <2>5 DEF SeenOK, CallOK, Call, GoneRequest, GoneWork, WithoutItsSource
<1>6. Rising
    BY <1>1 DEF Rising, IInv, TypeOK
<1>7. QED
    BY <1>2, <1>3, <1>4, <1>5, <1>6 DEF IInv

\* The handlers on requests whose effect is one guarded statement.
LEMMA SmallRequestHandlers ==
    ASSUME IInv, NEW r \in Requests,
           \/ CreateRequest(r)
           \/ \E body \in Bodies : UpdateRequest(r, body)
           \/ RemoveRequest(r)
           \/ RestoreRequest(r)
    PROVE  IInv' /\ Rising
<1>1. req[r] \in RequestRow /\ req[r].version \in Nat
    BY DEF IInv, TypeOK, RequestRow
<1>8. GoneRequest.version = 0
    BY DEF GoneRequest, NoRequest
<1>2. PICK version \in Nat : version = req[r].version + 1
    BY <1>1
<1>3. CASE CreateRequest(r)
  <2>1. PICK row : row = [NoRequest EXCEPT !.version = 1]
    OBVIOUS
  <2>2. row \in RequestRow /\ row.version = 1
    BY <2>1 DEF NoRequest, RequestRow, RequestStatuses
  <2>3. req[r].version = 0 /\ req[r] # GoneRequest /\ PutReq(r, row)
    BY <1>3, <2>1 DEF CreateRequest, NoRequest, GoneRequest
  <2>4. QED
    BY <2>2, <2>3, PutReqInvariant
<1>4. ASSUME NEW body \in Bodies, UpdateRequest(r, body) PROVE IInv' /\ Rising
  <2>1. body \in [fill: SUBSET Columns, clear: SUBSET Columns]
    BY BodiesAssumption
  <2>2. PICK filled \in SUBSET Columns : filled = FilledBy(req[r], body)
    BY <1>1, <2>1, FilledTyped
  <2>3. PICK row : row = [req[r] EXCEPT !.filled = filled, !.version = version]
    OBVIOUS
  <2>4. row = [req[r] EXCEPT !.filled = FilledBy(req[r], body), !.version = @ + 1]
    BY <1>1, <1>2, <2>2, <2>3 DEF RequestRow
  <2>5. row \in RequestRow /\ row.version = req[r].version + 1
    BY <1>1, <1>2, <2>3 DEF RequestRow
  <2>6. PutReq(r, row) /\ Live(req[r])
    BY <1>4, <2>4 DEF UpdateRequest
  <2>7. req[r] # GoneRequest
    BY <1>8, <2>6 DEF Live
  <2>8. QED
    BY <2>5, <2>6, <2>7, PutReqInvariant
<1>5. CASE RemoveRequest(r)
  <2>1. PICK row : row = [req[r] EXCEPT !.deleted = TRUE, !.version = version]
    OBVIOUS
  <2>2. row = [req[r] EXCEPT !.deleted = TRUE, !.version = @ + 1]
    BY <1>1, <1>2, <2>1 DEF RequestRow
  <2>3. row \in RequestRow /\ row.version = req[r].version + 1
    BY <1>1, <1>2, <2>1 DEF RequestRow
  <2>4. PutReq(r, row) /\ req[r] # GoneRequest
    BY <1>8, <1>5, <2>2 DEF RemoveRequest, Live
  <2>5. QED
    BY <2>3, <2>4, PutReqInvariant
<1>6. CASE RestoreRequest(r)
  <2>1. PICK row : row = [req[r] EXCEPT !.deleted = FALSE, !.version = version]
    OBVIOUS
  <2>2. row = [req[r] EXCEPT !.deleted = FALSE, !.version = @ + 1]
    BY <1>1, <1>2, <2>1 DEF RequestRow
  <2>3. row \in RequestRow /\ row.version = req[r].version + 1
    BY <1>1, <1>2, <2>1 DEF RequestRow
  <2>4. PutReq(r, row) /\ req[r] # GoneRequest
    BY <1>8, <1>6, <2>2 DEF RestoreRequest, Live
  <2>5. QED
    BY <2>3, <2>4, PutReqInvariant
<1>7. QED
    BY <1>3, <1>4, <1>5, <1>6

\* And those on work items.
LEMMA SmallWorkHandlers ==
    ASSUME IInv, NEW w \in Works,
           \/ \E r \in Requests \union {None}, pic \in BOOLEAN : CreateWork(w, r, pic)
           \/ \E body \in Bodies : UpdateWork(w, body)
           \/ \E pic \in BOOLEAN : SetPic(w, pic)
           \/ RemoveWork(w)
           \/ RestoreWork(w)
    PROVE  IInv' /\ Rising
<1>1. /\ work[w] \in WorkRow /\ work[w].version \in Nat
      /\ loose \subseteq Requests \union Works
    BY DEF IInv, TypeOK, WorkRow
<1>9. GoneWork.version = 0
    BY DEF GoneWork, NoWork
<1>2. PICK version \in Nat : version = work[w].version + 1
    BY <1>1
<1>3. ASSUME NEW r \in Requests \union {None}, NEW pic \in BOOLEAN, CreateWork(w, r, pic)
      PROVE  IInv' /\ Rising
  <2>1. PICK row : row = NewWork(r, pic)
    OBVIOUS
  <2>2. row \in WorkRow /\ row.version = 1
    BY <2>1 DEF NewWork, NoWork, WorkRow, WorkStatuses
  <2>3. /\ work[w].version = 0 /\ work[w] # GoneWork /\ PutWorkRow(w, row)
        /\ loose' \subseteq Requests \union Works
    BY <1>3, <2>1 DEF CreateWork, NoWork, GoneWork, IInv, TypeOK
  <2>4. QED
    BY <2>2, <2>3, PutWorkInvariant
<1>4. ASSUME NEW body \in Bodies, UpdateWork(w, body) PROVE IInv' /\ Rising
  <2>1. body \in [fill: SUBSET Columns, clear: SUBSET Columns]
    BY BodiesAssumption
  <2>2. PICK filled \in SUBSET Columns : filled = FilledBy(work[w], body)
    BY <1>1, <2>1, FilledTyped
  <2>3. PICK row : row = [work[w] EXCEPT !.filled = filled, !.version = version]
    OBVIOUS
  <2>4. row = [work[w] EXCEPT !.filled = FilledBy(work[w], body), !.version = @ + 1]
    BY <1>1, <1>2, <2>2, <2>3 DEF WorkRow
  <2>5. row \in WorkRow /\ row.version = work[w].version + 1
    BY <1>1, <1>2, <2>3 DEF WorkRow
  <2>6. PutWork(w, row) /\ Live(work[w])
    BY <1>4, <2>4 DEF UpdateWork
  <2>7. work[w] # GoneWork
    BY <1>9, <2>6 DEF Live
  <2>8. QED
    BY <1>1, <2>5, <2>6, <2>7, PutWorkInvariant DEF PutWork
<1>5. ASSUME NEW pic \in BOOLEAN, SetPic(w, pic) PROVE IInv' /\ Rising
  <2>1. PICK row : row = [work[w] EXCEPT !.pic = pic, !.version = version]
    OBVIOUS
  <2>2. row = [work[w] EXCEPT !.pic = pic, !.version = @ + 1]
    BY <1>1, <1>2, <2>1 DEF WorkRow
  <2>3. row \in WorkRow /\ row.version = work[w].version + 1
    BY <1>1, <1>2, <2>1 DEF WorkRow
  <2>4. PutWork(w, row) /\ Live(work[w])
    BY <1>5, <2>2 DEF SetPic
  <2>5. work[w] # GoneWork
    BY <1>9, <2>4 DEF Live
  <2>6. QED
    BY <1>1, <2>3, <2>4, <2>5, PutWorkInvariant DEF PutWork
<1>6. CASE RemoveWork(w)
  <2>1. PICK row : row = [work[w] EXCEPT !.deleted = TRUE, !.version = version]
    OBVIOUS
  <2>2. row = [work[w] EXCEPT !.deleted = TRUE, !.version = @ + 1]
    BY <1>1, <1>2, <2>1 DEF WorkRow
  <2>3. row \in WorkRow /\ row.version = work[w].version + 1
    BY <1>1, <1>2, <2>1 DEF WorkRow
  <2>4. PutWork(w, row) /\ work[w] # GoneWork
    BY <1>9, <1>6, <2>2 DEF RemoveWork, Live
  <2>5. QED
    BY <1>1, <2>3, <2>4, PutWorkInvariant DEF PutWork
<1>7. CASE RestoreWork(w)
  <2>1. PICK row : row = [work[w] EXCEPT !.deleted = FALSE, !.version = version]
    OBVIOUS
  <2>2. row = [work[w] EXCEPT !.deleted = FALSE, !.version = @ + 1]
    BY <1>1, <1>2, <2>1 DEF WorkRow
  <2>3. row \in WorkRow /\ row.version = work[w].version + 1
    BY <1>1, <1>2, <2>1 DEF WorkRow
  <2>4. PutWork(w, row) /\ work[w] # GoneWork
    BY <1>9, <1>7, <2>2 DEF RestoreWork, Live
  <2>5. QED
    BY <1>1, <2>3, <2>4, PutWorkInvariant DEF PutWork
<1>8. QED
    BY <1>3, <1>4, <1>5, <1>6, <1>7

\* Deleting a request for good changes it and the sources of work items, none
\* of them locked.
LEMMA PurgeRequestInvariant ==
    ASSUME IInv, NEW r \in Requests, PurgeRequest(r)
    PROVE  IInv' /\ Rising
<1>1. /\ req[r].version > 0 /\ reqLock[r] = None
      /\ \A w \in Works : work[w].source = r => workLock[w] = None
      /\ \A q \in Requests : /\ req'[q] = IF q = r THEN GoneRequest ELSE req[q]
                             /\ dirtyReq'[q] = IF q = r THEN GoneRequest ELSE dirtyReq[q]
      /\ \A w \in Works :
            /\ work'[w] = IF work[w].source = r THEN WithoutItsSource(work[w]) ELSE work[w]
            /\ dirtyWork'[w] = IF dirtyWork[w].source = r THEN WithoutItsSource(dirtyWork[w])
                                ELSE dirtyWork[w]
      /\ UNCHANGED <<reqLock, workLock, call>>
    BY DEF PurgeRequest, WithoutSource, WithoutItsSource, IInv, TypeOK
<1>2. GoneRequest \in RequestRow /\ GoneRequest.version = 0
    BY DEF GoneRequest, NoRequest, RequestRow, RequestStatuses
<1>3. \A row \in WorkRow : /\ WithoutItsSource(row) \in WorkRow
                           /\ WithoutItsSource(row).version = row.version
                           /\ WithoutItsSource(WithoutItsSource(row)) = WithoutItsSource(row)
                           /\ row.source \in Requests => row # GoneWork
                           /\ row.source \in Requests /\ WithoutItsSource(row) = GoneWork
                                 => row.version = 0
    BY IdsAssumption DEF WithoutItsSource, WorkRow, GoneWork, NoWork
<1>4. /\ \A q \in Requests : req[q] \in RequestRow /\ req[q].version \in Nat
      /\ \A w \in Works : work[w] \in WorkRow /\ dirtyWork[w] \in WorkRow
    BY DEF IInv, TypeOK, RequestRow
<1>11. ASSUME NEW w \in Works
       PROVE  /\ work'[w] \in WorkRow /\ dirtyWork'[w] \in WorkRow
              /\ work'[w].version = work[w].version
              /\ dirtyWork'[w].version = dirtyWork[w].version
              /\ work[w] = GoneWork => work'[w] = GoneWork
  <2>1. PICK row \in WorkRow, dirty \in WorkRow : row = work[w] /\ dirty = dirtyWork[w]
    BY <1>4
  <2>2. /\ work'[w] = IF row.source = r THEN WithoutItsSource(row) ELSE row
        /\ dirtyWork'[w] = IF dirty.source = r THEN WithoutItsSource(dirty) ELSE dirty
    BY <1>1, <2>1
  <2>3. /\ WithoutItsSource(row) \in WorkRow /\ WithoutItsSource(dirty) \in WorkRow
        /\ WithoutItsSource(row).version = row.version
        /\ WithoutItsSource(dirty).version = dirty.version
    BY DEF WithoutItsSource, WorkRow
  <2>8. row.source = r => row # GoneWork
    BY IdsAssumption DEF GoneWork, NoWork
  <2>4. work'[w] \in WorkRow /\ dirtyWork'[w] \in WorkRow
    BY <2>2, <2>3
  <2>5. work'[w].version = row.version /\ dirtyWork'[w].version = dirty.version
    BY <2>2, <2>3
  <2>6. row = GoneWork => work'[w] = GoneWork
    BY <2>2, <2>8
  <2>7. QED
    BY <2>1, <2>4, <2>5, <2>6
<1>5. TypeOK'
  <2>1. /\ req' \in [Requests -> RequestRow] /\ dirtyReq' \in [Requests -> RequestRow]
        /\ loose' \subseteq Requests \union Works
    BY <1>2 DEF PurgeRequest, IInv, TypeOK
  <2>2. /\ work' = [w \in Works |-> work'[w]]
        /\ dirtyWork' = [w \in Works |-> dirtyWork'[w]]
    BY DEF PurgeRequest, WithoutSource
  <2>3. work' \in [Works -> WorkRow] /\ dirtyWork' \in [Works -> WorkRow]
    BY <1>11, <2>2
  <2>4. QED
    BY <1>1, <2>1, <2>3 DEF IInv, TypeOK
<1>6. CallsOK'
    BY <1>1 DEF IInv, CallsOK
<1>7. RowsOK'
  <2>1. ASSUME NEW q \in Requests
        PROVE  (IF reqLock[q] = None THEN dirtyReq[q] = req[q]
                ELSE /\ req[q] # GoneRequest /\ dirtyReq[q].version > 0
                     /\ \/ dirtyReq[q].version > req[q].version
                        \/ Noted(q) /\ dirtyReq[q].version = req[q].version)'
    <3>1. IF reqLock[q] = None THEN dirtyReq[q] = req[q]
          ELSE /\ req[q] # GoneRequest /\ dirtyReq[q].version > 0
               /\ \/ dirtyReq[q].version > req[q].version
                  \/ Noted(q) /\ dirtyReq[q].version = req[q].version
      BY DEF IInv, RowsOK
    <3>2. Noted(q)' = Noted(q) /\ GoneRequest' = GoneRequest
      BY <1>1 DEF Noted, GoneRequest, NoRequest
    <3>3. QED
      BY <1>1, <3>1, <3>2
  <2>2. ASSUME NEW w \in Works
        PROVE  (IF workLock[w] = None THEN dirtyWork[w] = work[w]
                ELSE work[w] # GoneWork /\ dirtyWork[w].version > work[w].version)'
    <3>1. IF workLock[w] = None THEN dirtyWork[w] = work[w]
          ELSE work[w] # GoneWork /\ dirtyWork[w].version > work[w].version
      BY DEF IInv, RowsOK
    <3>2. CASE workLock[w] = None
      BY <1>1, <3>1, <3>2
    <3>3. CASE workLock[w] # None
      <4>1. work'[w] = work[w]
        BY <1>1, <3>3
      <4>2. QED
        BY <1>1, <1>11, <3>1, <3>3, <4>1 DEF GoneWork
    <3>4. QED
      BY <3>2, <3>3
  <2>3. QED
    BY <2>1, <2>2 DEF RowsOK
<1>8. AllSeenOK'
  <2>1. SUFFICES ASSUME NEW h \in Handlers PROVE SeenOK(h)'
    BY DEF AllSeenOK
  <2>2. SeenOK(h) /\ CallOK(call[h]) /\ call[h] \in Call
    BY DEF IInv, TypeOK, CallsOK, AllSeenOK
  <2>3. /\ call[h].seenReq.version \in Nat /\ call[h].seenWork \in WorkRow
        /\ call[h].w # None => call[h].w \in Works
        /\ h # None
    BY <2>2, IdsAssumption DEF Call, RequestRow
  <2>4. CASE call[h].step = "ownRequest"
    <3>1. \A w \in Works : work[w] = GoneWork => work'[w] = GoneWork
      BY <1>11
    <3>2. CASE call[h].r = r
      <4>1. call[h].seenReq.version > 0
        BY <2>2, <2>4 DEF SeenOK
      <4>2. req'[call[h].r] = GoneRequest
        BY <1>1, <3>2
      <4>3. call[h].seenReq.version # req'[call[h].r].version
        BY <1>2, <2>3, <4>1, <4>2
      <4>4. QED
        BY <1>1, <2>2, <2>4, <4>1, <4>2, <4>3 DEF SeenOK, GoneRequest, NoRequest
    <3>3. CASE call[h].r # r
      <4>1. req'[call[h].r] = req[call[h].r]
        BY <1>1, <2>2, <2>4, <3>3 DEF CallOK
      <4>2. call[h].w # None /\ work[call[h].w] = GoneWork => work'[call[h].w] = GoneWork
        BY <2>3, <3>1
      <4>3. QED
        BY <1>1, <2>2, <2>4, <4>1, <4>2 DEF SeenOK, GoneRequest, GoneWork
    <3>4. QED
      BY <3>2, <3>3
  <2>5. CASE call[h].step = "ownWork"
    <3>1. call[h].w \in Works
      BY <2>2, <2>5 DEF CallOK
    <3>2. work'[call[h].w] \in {work[call[h].w], WithoutItsSource(work[call[h].w])}
      BY <1>1, <3>1
    <3>3. work[call[h].w] = GoneWork => work'[call[h].w] = GoneWork
      BY <1>11, <3>1
    <3>4. work'[call[h].w].version = work[call[h].w].version
      BY <1>11, <3>1
    <3>5. QED
      BY <1>1, <1>3, <2>2, <2>3, <2>5, <3>2, <3>3, <3>4 DEF SeenOK, GoneWork, WithoutItsSource
  <2>6. CASE call[h].step = "readWork"
    BY <1>1, <2>2, <2>3, <2>6 DEF SeenOK, CallOK
  <2>7. CASE call[h].step = "readRequest"
    BY <1>1, <2>2, <2>3, <2>7 DEF SeenOK, CallOK, WithoutItsSource
  <2>8. QED
    BY <1>1, <2>4, <2>5, <2>6, <2>7 DEF SeenOK
<1>9. Rising
  <2>1. \A w \in Works : work'[w] # work[w] =>
           work[w].source = r /\ req'[r] = GoneRequest /\ work'[w] = WithoutItsSource(work[w])
    BY <1>1
  <2>2. QED
    BY <1>1, <2>1 DEF Rising
<1>10. QED
    BY <1>5, <1>6, <1>7, <1>8, <1>9 DEF IInv

\* Deleting a work item for good changes it and the links of requests: a call
\* that has read such a link finds its work item gone.
LEMMA PurgeWorkInvariant ==
    ASSUME IInv, NEW w \in Works, PurgeWork(w)
    PROVE  IInv' /\ Rising
<1> DEFINE Unlinked(row) == [row EXCEPT !.linked = None]
<1>1. /\ work[w].version > 0 /\ workLock[w] = None
      /\ \A r \in Requests : req[r].linked = w => reqLock[r] = None
      /\ \A v \in Works : /\ work'[v] = IF v = w THEN GoneWork ELSE work[v]
                          /\ dirtyWork'[v] = IF v = w THEN GoneWork ELSE dirtyWork[v]
      /\ \A r \in Requests :
            /\ req'[r] = IF req[r].linked = w THEN Unlinked(req[r]) ELSE req[r]
            /\ dirtyReq'[r] = IF dirtyReq[r].linked = w THEN Unlinked(dirtyReq[r])
                               ELSE dirtyReq[r]
      /\ UNCHANGED <<reqLock, workLock, call, loose>>
    BY DEF PurgeWork, WithoutLink, IInv, TypeOK
<1>2. GoneWork \in WorkRow /\ GoneWork.version = 0
    BY DEF GoneWork, NoWork, WorkRow, WorkStatuses
<1>3. \A row \in RequestRow : /\ Unlinked(row) \in RequestRow
                              /\ Unlinked(row).version = row.version
                              /\ row.linked \in Works => row # GoneRequest
    BY IdsAssumption DEF RequestRow, GoneRequest, NoRequest
<1>4. /\ \A v \in Works : work[v] \in WorkRow /\ work[v].version \in Nat
      /\ \A r \in Requests : req[r] \in RequestRow /\ dirtyReq[r] \in RequestRow
    BY DEF IInv, TypeOK, WorkRow
<1>11. ASSUME NEW r \in Requests
       PROVE  /\ req'[r] \in RequestRow /\ dirtyReq'[r] \in RequestRow
              /\ req'[r].version = req[r].version
              /\ dirtyReq'[r].version = dirtyReq[r].version
              /\ req[r] = GoneRequest => req'[r] = GoneRequest
  <2>1. PICK row \in RequestRow, dirty \in RequestRow : row = req[r] /\ dirty = dirtyReq[r]
    BY <1>4
  <2>2. /\ req'[r] = IF row.linked = w THEN Unlinked(row) ELSE row
        /\ dirtyReq'[r] = IF dirty.linked = w THEN Unlinked(dirty) ELSE dirty
    BY <1>1, <2>1
  <2>3. /\ Unlinked(row) \in RequestRow /\ Unlinked(dirty) \in RequestRow
        /\ Unlinked(row).version = row.version
        /\ Unlinked(dirty).version = dirty.version
    BY DEF RequestRow
  <2>8. row.linked = w => row # GoneRequest
    BY IdsAssumption DEF GoneRequest, NoRequest
  <2> HIDE DEF Unlinked
  <2>4. req'[r] \in RequestRow /\ dirtyReq'[r] \in RequestRow
    BY <2>2, <2>3
  <2>5. req'[r].version = row.version /\ dirtyReq'[r].version = dirty.version
    BY <2>2, <2>3
  <2>6. row = GoneRequest => req'[r] = GoneRequest
    BY <2>2, <2>8
  <2>7. QED
    BY <2>1, <2>4, <2>5, <2>6
<1>5. TypeOK'
  <2>1. work' \in [Works -> WorkRow] /\ dirtyWork' \in [Works -> WorkRow]
    BY <1>2 DEF PurgeWork, IInv, TypeOK
  <2>2. /\ req' = [r \in Requests |-> req'[r]]
        /\ dirtyReq' = [r \in Requests |-> dirtyReq'[r]]
    BY DEF PurgeWork, WithoutLink
  <2>3. req' \in [Requests -> RequestRow] /\ dirtyReq' \in [Requests -> RequestRow]
    BY <1>11, <2>2
  <2>4. QED
    BY <1>1, <2>1, <2>3 DEF IInv, TypeOK
<1>6. CallsOK'
    BY <1>1 DEF IInv, CallsOK
<1>7. RowsOK'
  <2>1. \A v \in Works :
           (IF workLock[v] = None THEN dirtyWork[v] = work[v]
            ELSE work[v] # GoneWork /\ dirtyWork[v].version > work[v].version)'
    BY <1>1 DEF IInv, RowsOK, GoneWork
  <2>2. ASSUME NEW r \in Requests
        PROVE  (IF reqLock[r] = None THEN dirtyReq[r] = req[r]
                ELSE /\ req[r] # GoneRequest /\ dirtyReq[r].version > 0
                     /\ \/ dirtyReq[r].version > req[r].version
                        \/ Noted(r) /\ dirtyReq[r].version = req[r].version)'
    <3>1. IF reqLock[r] = None THEN dirtyReq[r] = req[r]
          ELSE /\ req[r] # GoneRequest /\ dirtyReq[r].version > 0
               /\ \/ dirtyReq[r].version > req[r].version
                  \/ Noted(r) /\ dirtyReq[r].version = req[r].version
      BY DEF IInv, RowsOK
    <3>2. CASE reqLock[r] = None
      BY <1>1, <3>1, <3>2
    <3>3. CASE reqLock[r] # None
      <4>1. req'[r] = req[r] /\ dirtyReq'[r].version = dirtyReq[r].version
        BY <1>1, <1>11, <3>3
      <4>2. Noted(r)' = Noted(r) /\ GoneRequest' = GoneRequest
        BY <1>1 DEF Noted, GoneRequest, NoRequest
      <4>3. QED
        BY <1>1, <3>1, <3>3, <4>1, <4>2
    <3>4. QED
      BY <3>2, <3>3
  <2>3. QED
    BY <2>1, <2>2 DEF RowsOK
<1>8. AllSeenOK'
  <2>1. SUFFICES ASSUME NEW h \in Handlers PROVE SeenOK(h)'
    BY DEF AllSeenOK
  <2>2. SeenOK(h) /\ CallOK(call[h]) /\ call[h] \in Call
    BY DEF IInv, TypeOK, CallsOK, AllSeenOK
  <2>3. /\ call[h].seenWork.version \in Nat
        /\ call[h].w # None => call[h].w \in Works
        /\ h # None
    BY <2>2, IdsAssumption DEF Call, WorkRow
  <2>4. CASE call[h].step = "ownRequest"
    <3>1. call[h].r \in Requests
      BY <2>2, <2>4 DEF CallOK
    <3>2. req'[call[h].r].version = req[call[h].r].version
      BY <1>11, <3>1
    <3>3. req[call[h].r] = GoneRequest => req'[call[h].r] = GoneRequest
      BY <1>11, <3>1
    <3>4. work[call[h].w] = GoneWork /\ call[h].w # None => work'[call[h].w] = GoneWork
      BY <1>1, <2>3
    <3>5. call[h].w = call[h].seenReq.linked
      BY <2>2, <2>4 DEF SeenOK
    <3>6. call[h].seenReq = req[call[h].r] =>
             \/ call[h].seenReq = req'[call[h].r]
             \/ call[h].w # None /\ work'[call[h].w] = GoneWork
      <4>1. CASE req[call[h].r].linked = w
        <5>1. work'[w] = GoneWork /\ w # None
          BY <1>1, IdsAssumption
        <5>2. QED
          BY <3>5, <4>1, <5>1
      <4>2. CASE req[call[h].r].linked # w
        BY <1>1, <3>1, <4>2
      <4>3. QED
        BY <4>1, <4>2
    <3>7. QED
      BY <1>1, <2>2, <2>4, <3>2, <3>3, <3>4, <3>6 DEF SeenOK, GoneRequest, GoneWork
  <2>5. CASE call[h].step = "ownWork"
    <3>1. call[h].seenWork.version > 0 /\ call[h].w \in Works
      BY <2>2, <2>5 DEF SeenOK, CallOK
    <3>2. CASE call[h].w = w
      <4>1. work'[call[h].w] = GoneWork
        BY <1>1, <3>2
      <4>2. call[h].seenWork.version # work'[call[h].w].version
        BY <1>2, <2>3, <3>1, <4>1
      <4>3. QED
        BY <1>1, <2>5, <3>1, <4>1, <4>2 DEF SeenOK, GoneWork, NoWork
    <3>3. CASE call[h].w # w
      <4>1. work'[call[h].w] = work[call[h].w]
        BY <1>1, <3>1, <3>3
      <4>2. QED
        BY <1>1, <2>2, <2>5, <4>1 DEF SeenOK, GoneWork, WithoutItsSource
    <3>4. QED
      BY <3>2, <3>3
  <2>6. CASE call[h].step = "readWork"
    BY <1>1, <2>2, <2>3, <2>6 DEF SeenOK, CallOK
  <2>7. CASE call[h].step = "readRequest"
    BY <1>1, <2>2, <2>3, <2>7 DEF SeenOK, CallOK, WithoutItsSource
  <2>8. QED
    BY <1>1, <2>4, <2>5, <2>6, <2>7 DEF SeenOK
<1>9. Rising
  <2>1. \A r \in Requests : req'[r] # req[r] =>
           req[r].linked = w /\ work'[w] = GoneWork /\ req'[r] = Unlinked(req[r])
    BY <1>1
  <2>2. QED
    BY <1>1, <2>1 DEF Rising
<1>10. QED
    BY <1>5, <1>6, <1>7, <1>8, <1>9 DEF IInv

\* Only Commit and the handlers of one step change a committed row, and all
\* of them raise its version.
LEMMA CommitRises ==
    ASSUME IInv, NEW h \in Handlers, Commit(h)
    PROVE  Rising
<1>1. \A r \in Requests :
         IF reqLock[r] = h THEN req'[r].version > req[r].version ELSE req'[r] = req[r]
    BY IdsAssumption DEF IInv, TypeOK, RowsOK, Noted, Commit, VisibleReq
<1>2. \A w \in Works :
         IF workLock[w] = h THEN work'[w].version > work[w].version ELSE work'[w] = work[w]
    BY IdsAssumption DEF IInv, TypeOK, RowsOK, Commit, VisibleWork
<1>3. QED
    BY <1>1, <1>2 DEF Rising

\* Every step keeps the invariant and lowers no version.
LEMMA NextInvariant ==
    ASSUME IInv, [Next]_vars
    PROVE  IInv' /\ (Rising \/ UNCHANGED vars)
<1>1. CASE SmallHandlers
    BY <1>1, SmallRequestHandlers, SmallWorkHandlers, PurgeRequestInvariant,
       PurgeWorkInvariant DEF SmallHandlers
<1>2. ASSUME NEW h \in Handlers, Start(h) PROVE IInv' /\ Rising
  <2>1. req' = req /\ work' = work
    BY <1>2 DEF Start, StartRequestTransition, StartWorkTransition, StartResolve, Begin, NothingCommitted
  <2>2. QED
    BY <1>2, <2>1, StartInvariant DEF Rising
<1>3. ASSUME NEW h \in Handlers, Commit(h) PROVE IInv' /\ Rising
    BY <1>3, CommitInvariant, CommitRises
<1>4. ASSUME NEW h \in Handlers,
             RefuseRequest(h) \/ RefuseWork(h) \/ AbortDeadlocked(h) \/ Stop(h)
      PROVE  IInv' /\ Rising
  <2>1. req' = req /\ work' = work
    BY <1>4 DEF RefuseRequest, RefuseWork, AbortDeadlocked, Stop, Rollback, NothingCommitted
  <2>2. QED
    BY <1>4, <2>1, RefusalInvariant DEF Rising
<1>5. ASSUME NEW h \in Handlers,
             \/ WriteOwnRequest(h) \/ WriteOwnWork(h)
             \/ ReadLinkedWork(h) \/ WriteLinkedWork(h)
             \/ ReadSourceRequest(h) \/ WriteSourceRequest(h)
      PROVE  IInv' /\ Rising
  <2>1. req' = req /\ work' = work
    BY <1>5 DEF WriteOwnRequest, WriteOwnWork, ReadLinkedWork, WriteLinkedWork,
                ReadSourceRequest, WriteSourceRequest, Rollback, NothingCommitted
  <2>2. QED
    BY <1>5, <2>1, WriteOwnRequestInvariant, WriteOwnWorkInvariant,
       ReadLinkedWorkInvariant, WriteLinkedWorkInvariant,
       ReadSourceRequestInvariant, WriteSourceRequestInvariant DEF Rising
<1>6. ASSUME NEW h \in Handlers,
             \/ FlagRequest(h) \/ FlagWork(h)
             \/ WriteResolveNotes(h) \/ LoadPair(h)
             \/ WriteResolvedRequest(h) \/ WriteResolvedWork(h)
      PROVE  IInv' /\ Rising
  <2>1. req' = req /\ work' = work
    BY <1>6 DEF FlagRequest, FlagWork, WriteResolveNotes, LoadPair,
                WriteResolvedRequest, WriteResolvedWork, Rollback, NothingCommitted
  <2>2. QED
    BY <1>6, <2>1, FlagRequestInvariant, FlagWorkInvariant,
       WriteResolveNotesInvariant, LoadPairInvariant,
       WriteResolvedRequestInvariant, WriteResolvedWorkInvariant DEF Rising
<1>7. CASE UNCHANGED vars
    BY <1>7 DEF vars, IInv, TypeOK, CallsOK, RowsOK, Noted, AllSeenOK, SeenOK
<1>8. QED
    BY <1>1, <1>2, <1>3, <1>4, <1>5, <1>6, <1>7 DEF Next, Advance

\* The inductive invariant holds in every reachable state.
THEOREM InvariantHolds == Spec => []IInv
<1>1. Init => IInv
    BY InitInvariant
<1>2. IInv /\ [Next]_vars => IInv'
    BY NextInvariant
<1>3. QED
    BY <1>1, <1>2, PTL DEF Spec

\* Rows, locks and calls are of their types, whatever the statuses' edges.
THEOREM TypeCorrect == Spec => []TypeOK
<1>1. IInv => TypeOK
    BY DEF IInv
<1>2. QED
    BY <1>1, InvariantHolds, PTL

\* A transition's guarded UPDATE has hit the row its checks were made on, and
\* that row stays as it was for the rest of the transaction.
THEOREM GuardedRow == Spec => []GuardedRowIsTheRowChecked
<1>1. IInv => GuardedRowIsTheRowChecked
    BY DEF IInv, AllSeenOK, SeenOK, GuardedRowIsTheRowChecked
<1>2. QED
    BY <1>1, InvariantHolds, PTL

\* Two different committed states of a row have the same version only if the
\* later one has lost the row of the other table that it pointed to.
THEOREM VersionsOnlyRise == Spec => VersionsRise
<1>1. IInv /\ [Next]_vars => [Rising]_vars
    BY NextInvariant
<1>2. [Rising]_vars =>
         [/\ \A r \in Requests : req'[r] # req[r] =>
                \/ req'[r].version > req[r].version
                \/ req'[r] = GoneRequest
                \/ \E w \in Works : /\ req[r].linked = w /\ work'[w] = GoneWork
                                    /\ req'[r] = [req[r] EXCEPT !.linked = None]
          /\ \A w \in Works : work'[w] # work[w] =>
                \/ work'[w].version > work[w].version
                \/ work'[w] = GoneWork
                \/ \E r \in Requests : /\ work[w].source = r /\ req'[r] = GoneRequest
                                       /\ work'[w] = WithoutItsSource(work[w])]_vars
    BY DEF Rising
<1>3. QED
    BY <1>1, <1>2, InvariantHolds, PTL DEF Spec, VersionsRise
=============================================================================
