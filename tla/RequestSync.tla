----------------------------- MODULE RequestSync -----------------------------
(***************************************************************************)
(* Requests, the work items they give rise to, and the two-way status      *)
(* synchronisation between them: RequestsService, WorkItemsService and     *)
(* RequestSyncService of the API.                                          *)
(*                                                                         *)
(* A handler first reads its row outside any transaction and checks it,    *)
(* then runs a Postgres transaction at READ COMMITTED: each statement sees *)
(* the rows committed by then plus its own writes, an UPDATE takes the row *)
(* lock and keeps it until commit, and a cycle of waiting transactions is  *)
(* broken by aborting one of them.  Every statement that reads or writes a *)
(* row another handler may touch is a step of its own.                     *)
(*                                                                         *)
(* Left out here: who may call a handler (policy/), titles, dates and the  *)
(* other columns no rule reads, audits, record_versions, and work items    *)
(* with a parent (the roll-up of a story).                                 *)
(***************************************************************************)
EXTENDS Integers, FiniteSets

CONSTANTS Requests,      \* rows of the table requests
          Works,         \* rows of the table work_items
          TaskIds,       \* those of Works that a client may create, too
          Handlers,      \* calls of the API that run at the same time
          None,          \* SQL null, and the owner of a free row lock
          RequestEdges,  \* rows of status_transitions for 'request'
          WorkEdges,     \* rows of status_transitions for 'work_item'
          Bodies,        \* the note columns a request body may fill or clear
          MaxVersion     \* bound: no handler starts on a row beyond it

RequestStatuses == {"draft", "submitted", "need_clarification", "accepted",
                    "in_progress", "on_hold", "need_review", "done",
                    "rejected"}
WorkStatuses == {"backlog", "todo", "in_progress", "in_review", "blocked",
                 "done", "canceled"}
RequestColumns == {"clarification_note", "result_summary", "hold_reason"}
WorkColumns == {"hold_reason", "completion_summary"}
Columns == RequestColumns \union WorkColumns

\* One row of status_transitions: a legal step and the columns it demands.
Edges(Statuses) == [from: Statuses, to: Statuses, needs: SUBSET Columns]

ASSUME IdsAssumption ==
    /\ TaskIds \subseteq Works
    /\ None \notin Works \union Requests \union Handlers
ASSUME TableAssumption ==
    /\ RequestEdges \subseteq Edges(RequestStatuses)
    /\ WorkEdges \subseteq Edges(WorkStatuses)
ASSUME BodiesAssumption ==
    Bodies \subseteq [fill: SUBSET Columns, clear: SUBSET Columns]
ASSUME BoundAssumption == MaxVersion \in Nat

VARIABLES
    req,        \* the committed row of each request
    work,       \* the committed row of each work item
    dirtyReq,   \* its uncommitted version, written by the holder of its lock
    dirtyWork,
    reqLock,    \* the handler whose transaction has updated the row, or None
    workLock,
    call,       \* what each handler is doing
    loose       \* history: the requests that another work item than their own
                \* may have moved (a client has created one for them, too, or a
                \* resolution has moved them while they were linked to another
                \* than it had read), and the work items these have left behind

vars == <<req, work, dirtyReq, dirtyWork, reqLock, workLock, call, loose>>

-----------------------------------------------------------------------------
(* Statuses of the two sides, and the columns a status demands.            *)

\* WORK_STATUS_FOR_REQUEST
UnmappedStatusFor == [s \in RequestStatuses |-> s]
WorkStatusFor == [s \in RequestStatuses |->
    CASE s \in {"draft", "submitted"}              -> "backlog"
      [] s = "accepted"                            -> "todo"
      [] s = "in_progress"                         -> "in_progress"
      [] s = "need_review"                         -> "in_review"
      [] s \in {"on_hold", "need_clarification"}   -> "blocked"
      [] s = "done"                                -> "done"
      [] OTHER                                     -> "canceled"]

\* REQUEST_STATUS_FOR_WORK
RequestStatusFor == [s \in WorkStatuses |->
    CASE s = "backlog"     -> "draft"
      [] s = "todo"        -> "accepted"
      [] s = "in_progress" -> "in_progress"
      [] s = "in_review"   -> "need_review"
      [] s = "blocked"     -> "on_hold"
      [] s = "done"        -> "done"
      [] OTHER             -> "rejected"]

\* REQUEST_STATUS_REQUIRED_FIELDS, and the three CHECK constraints of requests.
RequestDemands(status) ==
    CASE status = "need_clarification" -> {"clarification_note"}
      [] status = "on_hold"            -> {"hold_reason"}
      [] status = "done"               -> {"result_summary"}
      [] OTHER                         -> {}

\* The two CHECK constraints of work_items about a status.
WorkDemands(status) ==
    CASE status = "blocked" -> {"hold_reason"}
      [] status = "done"    -> {"completion_summary"}
      [] OTHER              -> {}

RequestCheck(row) == RequestDemands(row.status) \subseteq row.filled
WorkCheck(row)    == WorkDemands(row.status) \subseteq row.filled

\* WorkflowService.edgeExists
EdgeExists(edges, from, to) == \E e \in edges : e.from = from /\ e.to = to

\* WorkflowService.assertCanTransition: an edge whose columns are filled by
\* the body or, where the body says nothing or null, by the row.
CanTransition(edges, row, to, body) ==
    \E e \in edges :
        /\ e.from = row.status
        /\ e.to = to
        /\ e.needs \subseteq row.filled \union body.fill

\* WHERE version = If-Match, against the row as it is now.
NoIfMatch(row, seen) == TRUE
IfMatch(row, seen) == row.version = seen.version

\* What the SET clause makes of the note columns: null is written as null.
FilledBy(row, body) == (row.filled \union body.fill) \ body.clear

\* completed_at is set on the way to done, and cleared on the way from done as
\* far as the handler knows the status the row comes from.
NeverCleared(completed, fromStatus, to) == to = "done" \/ completed
Completed(completed, fromStatus, to) ==
    to = "done" \/ (completed /\ fromStatus # "done")

-----------------------------------------------------------------------------
(* Types.                                                                  *)

RequestRow == [status: RequestStatuses, filled: SUBSET Columns,
               completed: BOOLEAN, flagged: BOOLEAN, deleted: BOOLEAN,
               linked: Works \union {None}, version: Nat]

\* pic: primaryPicId names an active profile.
WorkRow == [status: WorkStatuses, filled: SUBSET Columns,
            completed: BOOLEAN, flagged: BOOLEAN, deleted: BOOLEAN,
            source: Requests \union {None}, pic: BOOLEAN, version: Nat]

\* Version 0 stands for a row that is not there: not inserted yet, or deleted
\* for good, and then never inserted again (ids are not reused).
NoRequest == [status |-> "draft", filled |-> {}, completed |-> FALSE,
              flagged |-> FALSE, deleted |-> FALSE, linked |-> None, version |-> 0]
NoWork == [status |-> "backlog", filled |-> {}, completed |-> FALSE,
           flagged |-> FALSE, deleted |-> FALSE, source |-> None, pic |-> FALSE,
           version |-> 0]
GoneRequest == [NoRequest EXCEPT !.deleted = TRUE]
GoneWork == [NoWork EXCEPT !.deleted = TRUE]

Steps == {"idle",
          "ownRequest", "readWork", "writeWork",      \* request -> work
          "ownWork", "readRequest", "writeRequest",   \* work -> request
          "flagRequest", "flagWork",                  \* flagConflict
          "resolveNotes", "resolveLoad", "resolveRequest", "resolveWork",
          "commit"}

NoBody == [fill |-> {}, clear |-> {}]

\* seenReq, seenWork: the rows the handler has read and still goes by.
Call == [step: Steps, r: Requests \union {None}, w: Works \union {None},
         to: RequestStatuses \union WorkStatuses,
         body: [fill: SUBSET Columns, clear: SUBSET Columns],
         seenReq: RequestRow, seenWork: WorkRow]

Idle == [step |-> "idle", r |-> None, w |-> None, to |-> "draft",
         body |-> NoBody, seenReq |-> NoRequest, seenWork |-> NoWork]

TypeOK ==
    /\ req \in [Requests -> RequestRow]
    /\ dirtyReq \in [Requests -> RequestRow]
    /\ work \in [Works -> WorkRow]
    /\ dirtyWork \in [Works -> WorkRow]
    /\ reqLock \in [Requests -> Handlers \union {None}]
    /\ workLock \in [Works -> Handlers \union {None}]
    /\ call \in [Handlers -> Call]
    /\ loose \subseteq Requests \union Works

Init ==
    /\ req = [r \in Requests |-> NoRequest]
    /\ dirtyReq = req
    /\ work = [w \in Works |-> NoWork]
    /\ dirtyWork = work
    /\ reqLock = [r \in Requests |-> None]
    /\ workLock = [w \in Works |-> None]
    /\ call = [h \in Handlers |-> Idle]
    /\ loose = {}

-----------------------------------------------------------------------------
(* Postgres: what a statement sees, row locks, commit and rollback.        *)

VisibleReq(h, r)  == IF reqLock[r] = h THEN dirtyReq[r] ELSE req[r]
VisibleWork(h, w) == IF workLock[w] = h THEN dirtyWork[w] ELSE work[w]

CanLockReq(h, r)  == reqLock[r] \in {None, h}
CanLockWork(h, w) == workLock[w] \in {None, h}

\* An UPDATE (or INSERT) of one row: the lock, and the new version of the row.
WriteReq(h, r, row) ==
    /\ reqLock' = [reqLock EXCEPT ![r] = h]
    /\ dirtyReq' = [dirtyReq EXCEPT ![r] = row]

WriteWork(h, w, row) ==
    /\ workLock' = [workLock EXCEPT ![w] = h]
    /\ dirtyWork' = [dirtyWork EXCEPT ![w] = row]

ReqUntouched  == UNCHANGED <<reqLock, dirtyReq>>
WorkUntouched == UNCHANGED <<workLock, dirtyWork>>
NothingWritten == ReqUntouched /\ WorkUntouched

\* A statement of a transaction commits nothing.
NothingCommitted == UNCHANGED <<req, work, loose>>

\* An UPDATE by id: of a row that is not there it changes none, and a row that
\* breaks a CHECK of its table is refused.
RequestThere(h, r) == VisibleReq(h, r).version > 0
WorkThere(h, w) == VisibleWork(h, w).version > 0
UpdateReqById(h, r, row) == IF RequestThere(h, r) THEN WriteReq(h, r, row) ELSE ReqUntouched
UpdateWorkById(h, w, row) == IF WorkThere(h, w) THEN WriteWork(h, w, row) ELSE WorkUntouched
RequestRefused(h, r, row) == RequestThere(h, r) /\ ~RequestCheck(row)
WorkRefused(h, w, row) == WorkThere(h, w) /\ ~WorkCheck(row)

Goto(h, step) == call' = [call EXCEPT ![h].step = step]
GotoCommit(h) == call' = [call EXCEPT ![h] = [Idle EXCEPT !.step = "commit"]]

ReleaseRequestLocks(h) ==
    /\ reqLock' = [r \in Requests |-> IF reqLock[r] = h THEN None ELSE reqLock[r]]
    /\ workLock' = workLock
    /\ call' = [call EXCEPT ![h] = Idle]

ReleaseLocks(h) ==
    /\ reqLock' = [r \in Requests |-> IF reqLock[r] = h THEN None ELSE reqLock[r]]
    /\ workLock' = [w \in Works |-> IF workLock[w] = h THEN None ELSE workLock[w]]
    /\ call' = [call EXCEPT ![h] = Idle]

Commit(h) ==
    /\ call[h].step = "commit"
    /\ ReleaseLocks(h)
    /\ req' = [r \in Requests |-> VisibleReq(h, r)]
    /\ work' = [w \in Works |-> VisibleWork(h, w)]
    /\ UNCHANGED <<dirtyReq, dirtyWork, loose>>

\* A throw inside the transaction: nothing of it stays.
Rollback(h) ==
    /\ ReleaseLocks(h)
    /\ dirtyReq' = [r \in Requests |-> IF reqLock[r] = h THEN req[r] ELSE dirtyReq[r]]
    /\ dirtyWork' = [w \in Works |-> IF workLock[w] = h THEN work[w] ELSE dirtyWork[w]]
    /\ NothingCommitted

\* The row lock the next statement of a handler asks for.
NeedsReq(h) ==
    IF \/ call[h].step \in {"ownRequest", "flagRequest", "writeRequest", "resolveRequest"}
       \/ call[h].step = "resolveNotes" /\ call[h].body # NoBody
    THEN {call[h].r} ELSE {}
NeedsWork(h) ==
    IF call[h].step \in {"ownWork", "flagWork", "writeWork", "resolveWork"}
    THEN {call[h].w} ELSE {}

WaitsFor(h, g) ==
    /\ g # h
    /\ \/ \E r \in NeedsReq(h) : reqLock[r] = g
       \/ \E w \in NeedsWork(h) : workLock[w] = g

\* Postgres aborts a transaction that finds itself on a cycle of waits.
AbortDeadlocked(h) ==
    /\ \E S \in SUBSET Handlers :
          /\ h \in S
          /\ \A g \in S : /\ \E f \in S : WaitsFor(g, f)
                          /\ \E f \in S : WaitsFor(f, g)
    /\ Rollback(h)

\* The instance dies, a statement fails, or Postgres aborts the transaction
\* because it waits on a circle with the DELETE of a row.
Stop(h) ==
    /\ call[h].step # "idle"
    /\ Rollback(h)

-----------------------------------------------------------------------------
(* Handlers that write one row, whose statement checks the version the     *)
(* handler read: nobody can see them half done, so each is one step, taken *)
(* when no other transaction holds the row.                                *)

Live(row) == row.version > 0 /\ ~row.deleted

\* The new committed row, for a row no transaction has locked.
PutReq(r, row) ==
    /\ reqLock[r] = None
    /\ req[r].version < MaxVersion
    /\ req' = [req EXCEPT ![r] = row]
    /\ dirtyReq' = [dirtyReq EXCEPT ![r] = row]
    /\ UNCHANGED <<work, dirtyWork, reqLock, workLock, call, loose>>

PutWorkRow(w, row) ==
    /\ workLock[w] = None
    /\ work[w].version < MaxVersion
    /\ work' = [work EXCEPT ![w] = row]
    /\ dirtyWork' = [dirtyWork EXCEPT ![w] = row]
    /\ UNCHANGED <<req, dirtyReq, reqLock, workLock, call>>

PutWork(w, row) == PutWorkRow(w, row) /\ UNCHANGED loose

CreateRequest(r) ==
    /\ req[r] = NoRequest
    /\ PutReq(r, [NoRequest EXCEPT !.version = 1])

UpdateRequest(r, body) ==
    LET row == [req[r] EXCEPT !.filled = FilledBy(req[r], body), !.version = @ + 1] IN
    /\ Live(req[r])
    /\ RequestCheck(row)
    /\ PutReq(r, row)

RemoveRequest(r) ==
    /\ Live(req[r])
    /\ PutReq(r, [req[r] EXCEPT !.deleted = TRUE, !.version = @ + 1])

\* RecycleBinService.restore: by id, a row that is not deleted included.
RestoreRequest(r) ==
    /\ req[r].version > 0
    /\ PutReq(r, [req[r] EXCEPT !.deleted = FALSE, !.version = @ + 1])

NewWork(source, pic) ==
    [NoWork EXCEPT !.version = 1, !.source = source, !.pic = pic]

\* The foreign key only asks that the request's row exist.
CreateWork(w, source, pic) ==
    /\ w \in TaskIds
    /\ work[w] = NoWork
    /\ source # None => req[source].version > 0
    /\ PutWorkRow(w, NewWork(source, pic))
    /\ loose' = loose \union ({source} \ {None})

UpdateWork(w, body) ==
    LET row == [work[w] EXCEPT !.filled = FilledBy(work[w], body), !.version = @ + 1] IN
    /\ Live(work[w])
    /\ WorkCheck(row)
    /\ PutWork(w, row)

\* WorkItemsService.setPic and update, and the release of a PIC whose
\* account is deactivated.
SetPic(w, pic) ==
    /\ Live(work[w])
    /\ PutWork(w, [work[w] EXCEPT !.pic = pic, !.version = @ + 1])

RemoveWork(w) ==
    /\ Live(work[w])
    /\ PutWork(w, [work[w] EXCEPT !.deleted = TRUE, !.version = @ + 1])

RestoreWork(w) ==
    /\ work[w].version > 0
    /\ PutWork(w, [work[w] EXCEPT !.deleted = FALSE, !.version = @ + 1])

(***************************************************************************)
(* RecycleBinService.permanentlyDelete: DELETE by id, whether or not the   *)
(* row is in the bin.  The foreign keys (ON DELETE SET NULL) empty what    *)
(* refers to it in the other table, and no version rises with that.  The   *)
(* DELETE is a transaction of its own that waits for all these rows, so it *)
(* is one step, taken when no other transaction holds one of them; a call  *)
(* that meanwhile waits for the row it deletes and is aborted is Stop.     *)
(***************************************************************************)
WithoutSource(rows, r) ==
    [w \in Works |-> IF rows[w].source = r THEN [rows[w] EXCEPT !.source = None] ELSE rows[w]]
WithoutLink(rows, w) ==
    [r \in Requests |-> IF rows[r].linked = w THEN [rows[r] EXCEPT !.linked = None] ELSE rows[r]]

PurgeRequest(r) ==
    /\ req[r].version > 0
    /\ reqLock[r] = None
    /\ \A w \in Works : work[w].source = r => workLock[w] = None
    /\ req' = [req EXCEPT ![r] = GoneRequest]
    /\ dirtyReq' = [dirtyReq EXCEPT ![r] = GoneRequest]
    /\ work' = WithoutSource(work, r)
    /\ dirtyWork' = WithoutSource(dirtyWork, r)
    /\ loose' = IF r \in loose THEN loose \union {w \in Works : work[w].source = r}
                 ELSE loose
    /\ UNCHANGED <<reqLock, workLock, call>>

PurgeWork(w) ==
    /\ work[w].version > 0
    /\ workLock[w] = None
    /\ \A r \in Requests : req[r].linked = w => reqLock[r] = None
    /\ work' = [work EXCEPT ![w] = GoneWork]
    /\ dirtyWork' = [dirtyWork EXCEPT ![w] = GoneWork]
    /\ req' = WithoutLink(req, w)
    /\ dirtyReq' = WithoutLink(dirtyReq, w)
    /\ UNCHANGED <<reqLock, workLock, call, loose>>

-----------------------------------------------------------------------------
(* A handler with a larger transaction starts: the row is read and checked *)
(* before the transaction.  A version in If-Match that is not the row's is *)
(* refused here, so the version a call carries is that of the row it read. *)

Begin(h, c) ==
    /\ call[h].step = "idle"
    /\ call' = [call EXCEPT ![h] = c]
    /\ NothingWritten
    /\ NothingCommitted

\* RequestsService.transition
StartRequestTransition(h, r, to, body) ==
    /\ Live(req[r]) /\ req[r].version < MaxVersion
    /\ ~req[r].flagged                                  \* assertNoSyncConflict
    /\ CanTransition(RequestEdges, req[r], to, body)
    /\ Begin(h, [Idle EXCEPT !.step = "ownRequest", !.r = r, !.w = req[r].linked,
                             !.to = to, !.body = body, !.seenReq = req[r]])

\* WorkItemsService.transition
StartWorkTransition(h, w, to, body) ==
    /\ Live(work[w]) /\ work[w].version < MaxVersion
    /\ ~work[w].flagged
    /\ CanTransition(WorkEdges, work[w], to, body)
    /\ Begin(h, [Idle EXCEPT !.step = "ownWork", !.w = w, !.to = to,
                             !.body = body, !.seenWork = work[w]])

\* RequestsService.resolveSyncConflict
StartResolve(h, r, chosen, body) ==
    /\ Live(req[r]) /\ req[r].version < MaxVersion
    /\ req[r].flagged
    /\ RequestDemands(chosen) \subseteq req[r].filled \union body.fill
    /\ Begin(h, [Idle EXCEPT !.step = "resolveNotes", !.r = r, !.w = req[r].linked,
                             !.to = chosen, !.body = body])

-----------------------------------------------------------------------------
(* The first write of a transition: its own row, WHERE version = If-Match. *)

\* RequestsService.transition creates the work item when a request is first
\* submitted; WorkItemsService.createWithin may refuse (PIC, period).
CreatesWork(c) == c.to = "submitted" /\ c.w = None

MovedRequest(h) ==
    LET c == call[h] IN
    [req[c.r] EXCEPT !.status = c.to, !.filled = FilledBy(req[c.r], c.body),
                     !.completed = Completed(@, c.seenReq.status, c.to),
                     !.version = @ + 1]

AtOwnRequest(h) == call[h].step = "ownRequest" /\ CanLockReq(h, call[h].r)

\* The link is written back as it was read: the foreign key asks for the row.
LinkStands(c) == c.w # None => work[c.w].version > 0

\* The WHERE clause finds no row (409), a CHECK or the foreign key refuses it
\* (500), or the work item cannot be created (422).
RefuseRequest(h) ==
    /\ AtOwnRequest(h)
    /\ \/ ~IfMatch(req[call[h].r], call[h].seenReq)
       \/ ~RequestCheck(MovedRequest(h))
       \/ ~LinkStands(call[h])
       \/ CreatesWork(call[h])
    /\ Rollback(h)

WriteOwnRequest(h) ==
    LET c == call[h] IN
    /\ AtOwnRequest(h)
    /\ IfMatch(req[c.r], c.seenReq)
    /\ RequestCheck(MovedRequest(h))
    /\ LinkStands(c)
    /\ IF CreatesWork(c)
       THEN \E w \in Works, pic \in BOOLEAN :
               /\ work[w] = NoWork /\ workLock[w] = None
               /\ WriteWork(h, w, NewWork(c.r, pic))
               /\ WriteReq(h, c.r, [MovedRequest(h) EXCEPT !.linked = w])
               /\ call' = [call EXCEPT ![h].step = "readWork", ![h].w = w]
       ELSE /\ WriteReq(h, c.r, MovedRequest(h))
            /\ WorkUntouched
            /\ Goto(h, "readWork")
    /\ NothingCommitted

MovedWork(h) ==
    LET c == call[h] IN
    [work[c.w] EXCEPT !.status = c.to, !.filled = FilledBy(work[c.w], c.body),
                      !.completed = Completed(@, c.seenWork.status, c.to),
                      !.version = @ + 1]

AtOwnWork(h) == call[h].step = "ownWork" /\ CanLockWork(h, call[h].w)

\* assertPicReady looks at the PIC of the row read before the transaction.
PicReady(c) == c.to = "in_progress" => c.seenWork.pic

RefuseWork(h) ==
    /\ AtOwnWork(h)
    /\ \/ ~PicReady(call[h])
       \/ ~IfMatch(work[call[h].w], call[h].seenWork)
       \/ ~WorkCheck(MovedWork(h))
    /\ Rollback(h)

WriteOwnWork(h) ==
    LET c == call[h] IN
    /\ AtOwnWork(h)
    /\ PicReady(c)
    /\ IfMatch(work[c.w], c.seenWork)
    /\ WorkCheck(MovedWork(h))
    /\ WriteWork(h, c.w, MovedWork(h))
    /\ ReqUntouched
    /\ call' = [call EXCEPT ![h].step = "readRequest", ![h].r = work[c.w].source]
    /\ NothingCommitted

-----------------------------------------------------------------------------
(* What a synchronisation that has read the other row does next.           *)

SyncAlways(edges, from, to, write) == write
SyncStep(edges, from, to, write) ==
    IF EdgeExists(edges, from, to) THEN write ELSE "flagRequest"

(* RequestSyncService.syncFromRequestWithin: the request has moved to c.to, *)
(* its linked work item follows.                                            *)

\* loadWorkItem
LoadsWork(h) == call[h].w # None /\ WorkThere(h, call[h].w)

ReadLinkedWork(h) ==
    LET c == call[h]
        row == VisibleWork(h, c.w)
        target == WorkStatusFor[c.to]
    IN
    /\ c.step = "readWork"
    /\ NothingCommitted
    /\ \/ /\ ~LoadsWork(h)                                \* no_link
          /\ GotoCommit(h)
          /\ NothingWritten
       \/ /\ LoadsWork(h) /\ row.status = target         \* in_sync
          /\ GotoCommit(h)
          /\ NothingWritten
       \/ /\ LoadsWork(h) /\ row.status # target
          /\ target = "in_progress" /\ ~row.pic          \* blocked
          /\ Rollback(h)
       \/ /\ LoadsWork(h) /\ row.status # target
          /\ target = "in_progress" => row.pic
          /\ call' = [call EXCEPT ![h].seenWork = row,
                          ![h].step = SyncStep(WorkEdges, row.status, target,
                                               "writeWork")]
          /\ NothingWritten

\* A column set to the value it has in another row (or an earlier read).
Copied(filled, column, isFilled) ==
    IF isFilled THEN filled \union {column} ELSE filled \ {column}

\* UPDATE work_items by id: the row as it is by now, not as it was read, but
\* the note its new status demands is written back as it was read.
SyncedWork(h) ==
    LET c == call[h]
        row == VisibleWork(h, c.w)
        target == WorkStatusFor[c.to]
    IN
    [row EXCEPT !.status = target, !.flagged = FALSE, !.version = @ + 1,
                !.completed = Completed(@, c.seenWork.status, target),
                !.filled =
                    CASE target = "blocked" ->
                             Copied(@, "hold_reason", "hold_reason" \in c.seenWork.filled)
                      [] target = "done" ->
                             Copied(@, "completion_summary",
                                    "completion_summary" \in c.seenWork.filled)
                      [] OTHER -> @]

WriteLinkedWork(h) ==
    LET c == call[h] IN
    /\ c.step = "writeWork"
    /\ CanLockWork(h, c.w)
    /\ IF WorkRefused(h, c.w, SyncedWork(h))
       THEN Rollback(h)
       ELSE /\ UpdateWorkById(h, c.w, SyncedWork(h))
            /\ ReqUntouched
            /\ GotoCommit(h)
            /\ NothingCommitted

(* RequestSyncService.syncFromWorkItemWithin: the work item has moved to    *)
(* c.to, the request it came from follows.                                  *)

\* loadRequest finds a request that has been removed as well.
LoadsLiveRequest(r) == Live(req[r])
LoadsRequest(r) == req[r].version > 0

ReadSourceRequest(h) ==
    LET c == call[h]
        row == VisibleReq(h, c.r)
        target == RequestStatusFor[c.to]
    IN
    /\ c.step = "readRequest"
    /\ NothingWritten
    /\ NothingCommitted
    /\ \/ /\ c.r # None => ~LoadsRequest(c.r)            \* no_link
          /\ GotoCommit(h)
       \/ /\ c.r # None /\ LoadsRequest(c.r)
          /\ row.status = target                          \* in_sync
          /\ GotoCommit(h)
       \/ /\ c.r # None /\ LoadsRequest(c.r)
          /\ row.status # target
          /\ call' = [call EXCEPT ![h].seenReq = row,
                          ![h].step = SyncStep(RequestEdges, row.status, target,
                                               "writeRequest")]

SyncedRequest(h) ==
    LET c == call[h]
        row == VisibleReq(h, c.r)
        target == RequestStatusFor[c.to]
    IN
    [row EXCEPT !.status = target, !.flagged = FALSE, !.version = @ + 1,
                !.completed = Completed(@, c.seenReq.status, target),
                !.filled =
                    CASE target = "on_hold" ->
                             Copied(@, "hold_reason", "hold_reason" \in c.seenReq.filled)
                      [] target = "done" ->
                             Copied(@, "result_summary",
                                    "result_summary" \in c.seenReq.filled)
                      [] OTHER -> @]

WriteSourceRequest(h) ==
    LET c == call[h] IN
    /\ c.step = "writeRequest"
    /\ CanLockReq(h, c.r)
    /\ IF RequestRefused(h, c.r, SyncedRequest(h))
       THEN Rollback(h)
       ELSE /\ UpdateReqById(h, c.r, SyncedRequest(h))
            /\ WorkUntouched
            /\ GotoCommit(h)
            /\ NothingCommitted

\* flagConflict: first the request, then the work item, both by id.
Flagged(row) == [row EXCEPT !.flagged = TRUE, !.version = @ + 1]

FlagRequest(h) ==
    LET c == call[h] IN
    /\ c.step = "flagRequest"
    /\ CanLockReq(h, c.r)
    /\ UpdateReqById(h, c.r, Flagged(VisibleReq(h, c.r)))
    /\ WorkUntouched
    /\ Goto(h, "flagWork")
    /\ NothingCommitted

FlagWork(h) ==
    LET c == call[h] IN
    /\ c.step = "flagWork"
    /\ CanLockWork(h, c.w)
    /\ UpdateWorkById(h, c.w, Flagged(VisibleWork(h, c.w)))
    /\ ReqUntouched
    /\ GotoCommit(h)
    /\ NothingCommitted

-----------------------------------------------------------------------------
(* RequestsService.resolveSyncConflict and RequestSyncService.resolveWithin: *)
(* nothing is checked again inside the transaction.                          *)

NotedRequest(h) ==
    LET row == VisibleReq(h, call[h].r) IN [row EXCEPT !.filled = FilledBy(row, call[h].body)]

WriteResolveNotes(h) ==
    LET c == call[h] IN
    /\ c.step = "resolveNotes"
    /\ IF c.body = NoBody
       THEN Goto(h, "resolveLoad") /\ NothingWritten /\ NothingCommitted
       ELSE /\ CanLockReq(h, c.r)
            /\ IF RequestRefused(h, c.r, NotedRequest(h))
               THEN Rollback(h)
               ELSE /\ UpdateReqById(h, c.r, NotedRequest(h))
                    /\ WorkUntouched
                    /\ Goto(h, "resolveLoad")
                    /\ NothingCommitted

\* A request that is gone ends the call, a work item that is gone is left out.
LoadPair(h) ==
    LET c == call[h]
        row == IF LoadsWork(h) THEN VisibleWork(h, c.w) ELSE NoWork
    IN
    /\ c.step = "resolveLoad"
    /\ \/ /\ ~RequestThere(h, c.r)
          /\ GotoCommit(h)
          /\ NothingWritten
          /\ NothingCommitted
       \/ /\ RequestThere(h, c.r)
          /\ LoadsWork(h) /\ WorkStatusFor[c.to] = "in_progress" /\ ~row.pic
          /\ Rollback(h)
       \/ /\ RequestThere(h, c.r)
          /\ LoadsWork(h) /\ WorkStatusFor[c.to] = "in_progress" => row.pic
          /\ call' = [call EXCEPT ![h].step = "resolveRequest",
                                  ![h].w = IF LoadsWork(h) THEN c.w ELSE None,
                                  ![h].seenReq = VisibleReq(h, c.r),
                                  ![h].seenWork = row]
          /\ NothingWritten
          /\ NothingCommitted

StillFlaggedRequest(h) ==
    [VisibleReq(h, call[h].r) EXCEPT !.status = call[h].to, !.version = @ + 1]
ResolvedRequest(h) ==
    LET c == call[h] IN
    [VisibleReq(h, c.r) EXCEPT !.status = c.to,
                               !.completed = Completed(@, c.seenReq.status, c.to),
                               !.flagged = FALSE, !.version = @ + 1]

WriteResolvedRequest(h) ==
    LET c == call[h] IN
    /\ c.step = "resolveRequest"
    /\ CanLockReq(h, c.r)
    /\ IF RequestRefused(h, c.r, ResolvedRequest(h))
       THEN Rollback(h)
       ELSE /\ UpdateReqById(h, c.r, ResolvedRequest(h))
            /\ WorkUntouched
            /\ IF c.w = None THEN GotoCommit(h) ELSE Goto(h, "resolveWork")
            /\ loose' = IF VisibleReq(h, c.r).linked \in {None, c.w}
                         THEN loose ELSE loose \union {c.r}
            /\ UNCHANGED <<req, work>>

\* The note the work item's new status demands is copied from the request.
ResolvedWork(h) ==
    LET c == call[h]
        row == VisibleWork(h, c.w)
        target == WorkStatusFor[c.to]
        filled == CASE target = "blocked" ->
                           Copied(row.filled, "hold_reason",
                                  "hold_reason" \in c.seenReq.filled)
                    [] target = "done" ->
                           Copied(row.filled, "completion_summary",
                                  "result_summary" \in c.seenReq.filled)
                    [] OTHER -> row.filled
    IN [row EXCEPT !.status = target, !.filled = filled,
                   !.completed = Completed(@, c.seenWork.status, target),
                   !.flagged = FALSE, !.version = @ + 1]

WriteResolvedWork(h) ==
    LET c == call[h] IN
    /\ c.step = "resolveWork"
    /\ CanLockWork(h, c.w)
    /\ IF WorkRefused(h, c.w, ResolvedWork(h))
       THEN Rollback(h)
       ELSE /\ UpdateWorkById(h, c.w, ResolvedWork(h))
            /\ ReqUntouched
            /\ GotoCommit(h)
            /\ NothingCommitted

-----------------------------------------------------------------------------
Start(h) ==
    \E body \in Bodies :
       \/ \E r \in Requests, to \in RequestStatuses :
             StartRequestTransition(h, r, to, body) \/ StartResolve(h, r, to, body)
       \/ \E w \in Works, to \in WorkStatuses : StartWorkTransition(h, w, to, body)

\* One step of a transaction that is running.
Advance(h) ==
    \/ WriteOwnRequest(h) \/ RefuseRequest(h)
    \/ WriteOwnWork(h) \/ RefuseWork(h)
    \/ ReadLinkedWork(h) \/ WriteLinkedWork(h)
    \/ ReadSourceRequest(h) \/ WriteSourceRequest(h)
    \/ FlagRequest(h) \/ FlagWork(h)
    \/ WriteResolveNotes(h) \/ LoadPair(h)
    \/ WriteResolvedRequest(h) \/ WriteResolvedWork(h)
    \/ Commit(h)

SmallHandlers ==
    \/ \E r \in Requests :
          \/ CreateRequest(r)
          \/ \E body \in Bodies : UpdateRequest(r, body)
          \/ RemoveRequest(r)
          \/ RestoreRequest(r)
          \/ PurgeRequest(r)
    \/ \E w \in Works :
          \/ \E r \in Requests \union {None}, pic \in BOOLEAN : CreateWork(w, r, pic)
          \/ \E body \in Bodies : UpdateWork(w, body)
          \/ \E pic \in BOOLEAN : SetPic(w, pic)
          \/ RemoveWork(w)
          \/ RestoreWork(w)
          \/ PurgeWork(w)

Next ==
    \/ SmallHandlers
    \/ \E h \in Handlers : Start(h) \/ Advance(h) \/ AbortDeadlocked(h) \/ Stop(h)

Spec == Init /\ [][Next]_vars

\* A call of the API runs on unless it waits for a lock; those who wait for a
\* row queue up for it, so one that is freed again and again is granted in the
\* end; and Postgres looks for a cycle whenever somebody has waited a second.
FairSpec == /\ Spec
            /\ \A h \in Handlers : SF_vars(Advance(h)) /\ WF_vars(AbortDeadlocked(h))

-----------------------------------------------------------------------------
(* What the synchronisation is for.                                        *)

Agree(row, item) == \/ WorkStatusFor[row.status] = item.status
                    \/ RequestStatusFor[item.status] = row.status

\* A request and the work item it is linked to agree on their status, or both
\* carry the conflict flag: the two records never differ without anyone
\* knowing (request-sync.service.ts, syncFromWorkItemWithin).  Except where
\* another work item than its own may have moved the request: a client created
\* one that names it as its source, too, or its own was deleted for good while
\* a resolution ran, and submitting the request again had created a second.
LinkedPairAgrees ==
    \A r \in Requests \ loose : req[r].linked # None =>
        LET item == work[req[r].linked] IN
        Agree(req[r], item) \/ (req[r].flagged /\ item.flagged)

\* The conflict flag is raised on both records or on neither, so what clears
\* the one leaves nobody locked on the other.  (The same exception.)
FlagsArePaired ==
    \A r \in Requests \ loose : req[r].linked # None =>
        req[r].flagged = work[req[r].linked].flagged

\* A transition writes the very row its checks were made on: between the
\* read before the transaction and the commit nobody else has changed it.
\* Deleting a request for good empties the source of its work item under the
\* version that was read, and that is all the version does not show: a link
\* emptied that way is refused by its foreign key when it is written back.
WithoutItsSource(row) == [row EXCEPT !.source = None]
GuardedRowIsTheRowChecked ==
    \A h \in Handlers : LET c == call[h] IN
        /\ c.step = "readWork" => req[c.r] = c.seenReq
        /\ c.step = "readRequest" => work[c.w] \in {c.seenWork, WithoutItsSource(c.seenWork)}

\* The UPDATE by id of a synchronisation still moves the row along an edge of
\* status_transitions when it is made, however long it waited for the lock.
\* (The same exception.)
SyncedStepIsAnEdge ==
    \A h \in Handlers :
        LET c == call[h] IN
        c.r \notin loose =>
        /\ c.step = "writeWork" /\ CanLockWork(h, c.w) =>
               EdgeExists(WorkEdges, VisibleWork(h, c.w).status, WorkStatusFor[c.to])
        /\ c.step = "writeRequest" /\ CanLockReq(h, c.r) =>
               EdgeExists(RequestEdges, VisibleReq(h, c.r).status, RequestStatusFor[c.to])

\* A move of the request that its work item does not show keeps open every step the
\* work item may cause.
TableKeepsSteps ==
    \A e \in RequestEdges, s \in WorkStatuses :
        /\ WorkStatusFor[e.from] = WorkStatusFor[e.to]
        /\ EdgeExists(RequestEdges, e.from, RequestStatusFor[s])
        => EdgeExists(RequestEdges, e.to, RequestStatusFor[s])

\* Whatever changes a row raises its version, so that no If-Match is accepted
\* for a row its sender has not seen; unless the row goes for good, or loses
\* the row of the other table that it pointed to, because that one has gone.
VersionsRise ==
    [][/\ \A r \in Requests : req'[r] # req[r] =>
             \/ req'[r].version > req[r].version
             \/ req'[r] = GoneRequest
             \/ \E w \in Works : /\ req[r].linked = w /\ work'[w] = GoneWork
                                 /\ req'[r] = [req[r] EXCEPT !.linked = None]
       /\ \A w \in Works : work'[w] # work[w] =>
             \/ work'[w].version > work[w].version
             \/ work'[w] = GoneWork
             \/ \E r \in Requests : /\ work[w].source = r /\ req'[r] = GoneRequest
                                    /\ work'[w] = WithoutItsSource(work[w])]_vars

\* A conflict is not a dead end: a work item whose transitions it closes has a
\* live request that is linked to it and still marked, so that
\* POST /requests/{id}/sync-conflict opens it again.
ConflictHasAWayOut ==
    \A w \in Works : Live(work[w]) /\ work[w].flagged =>
        LET r == work[w].source IN
        r # None /\ req[r].linked = w /\ Live(req[r]) /\ req[r].flagged

\* The note columns the synchronisation writes along with a status are those
\* the CHECK constraints of the other table demand: no legal move is refused.
SyncPassesChecks ==
    \A h \in Handlers :
        /\ call[h].step = "writeWork" => WorkCheck(SyncedWork(h))
        /\ call[h].step = "writeRequest" => RequestCheck(SyncedRequest(h))

\* completed_at is filled exactly in the rows that are done: a row in progress
\* that carries the mark of its completion contradicts itself
\* (requests.service.ts and work-items.service.ts, transition).  (The same
\* exception, for the two rows of the pair.)
DoneIsCompleted ==
    /\ \A r \in Requests \ loose : req[r].completed <=> req[r].status = "done"
    /\ \A w \in Works \ loose : work[w].source \notin loose =>
          (work[w].completed <=> work[w].status = "done")

\* Every call ends: no transaction waits for ever.
CallsEnd == \A h \in Handlers : call[h].step # "idle" ~> call[h].step = "idle"
=============================================================================
