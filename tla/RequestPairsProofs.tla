-------------------------- MODULE RequestPairsProofs --------------------------
(***************************************************************************)
(* That a request and the work item it is linked to agree, or both carry   *)
(* the conflict flag: for any requests, work items and concurrent calls,   *)
(* any bodies and any contents of status_transitions, and although either  *)
(* row may be deleted for good under a call that goes by it.               *)
(*                                                                         *)
(* None of this is inductive.  Two transactions may move the two rows at   *)
(* the same time, each without the other's lock, and both may commit: a    *)
(* transaction that then holds only the work item leaves its status what   *)
(* it was, and one that holds only the request ends in a status the work   *)
(* item already shows (Settled).  And what a call has locked pins the row  *)
(* at the other end of the link, while a resolution, which locks nothing   *)
(* before its UPDATE, may find the link cut (Cut).                         *)
(***************************************************************************)
EXTENDS RequestSyncProofs

\* No work item but the one it is linked to names the request as its source.
SoleWork(r) == \A w \in Works : work[w].source = r => w = req[r].linked
SoleWorks == \A r \in Requests \ loose : SoleWork(r)

-----------------------------------------------------------------------------
(* Links: both ends are made by one transaction, and go together.          *)

\* A row that is not there is empty; what a work item names is there.
RowsThere ==
    /\ \A r \in Requests : req[r].version = 0 => req[r] \in {NoRequest, GoneRequest}
    /\ \A w \in Works : work[w].version = 0 => work[w] \in {NoWork, GoneWork}
    /\ \A w \in Works : work[w].source # None => req[work[w].source].version > 0

LinksMatch == \A r \in Requests : req[r].linked # None =>
    work[req[r].linked].version > 0 /\ work[req[r].linked].source = r

\* The transaction that has locked the request has made a work item for it.
HasMadeWork(r, w) ==
    /\ req[r].linked = None
    /\ w \in Works /\ workLock[w] = reqLock[r]
    /\ work[w].version = 0 /\ dirtyWork[w].source = r

DirtyLinksMatch ==
    /\ \A r \in Requests : dirtyReq[r].linked = req[r].linked \/ HasMadeWork(r, dirtyReq[r].linked)
    /\ \A w \in Works : work[w].version > 0 => dirtyWork[w].source = work[w].source

\* A work item that is not committed yet names the request it has been made for.
MadeForRequests == \A w \in Works :
    LET r == dirtyWork[w].source IN
    work[w].version = 0 /\ r # None =>
        workLock[w] # None /\ reqLock[r] = workLock[w] /\ dirtyReq[r].linked = w

LinksOK == RowsThere /\ LinksMatch /\ DirtyLinksMatch /\ MadeForRequests /\ SoleWorks

-----------------------------------------------------------------------------
(* What a call has found and done, by the step it is at.                   *)

\* What a call holds is what it is about.
HoldsItsRows(h) ==
    /\ \A r \in Requests : reqLock[r] = h =>
          \/ call[h].step = "commit"
          \/ /\ call[h].r = r
             /\ call[h].step \in {"readWork", "writeWork", "flagRequest", "flagWork",
                                  "resolveLoad", "resolveRequest", "resolveWork"}
    /\ \A w \in Works : workLock[w] = h =>
          \/ call[h].step = "commit"
          \/ /\ call[h].w = w
             /\ call[h].step \in {"readWork", "writeWork", "flagRequest", "flagWork",
                                  "readRequest", "writeRequest"}

\* A transition of a request: it was unmarked, the step is an edge, and the call
\* knows the work item.
RequestMoved(h) ==
    LET c == call[h] IN
    /\ reqLock[c.r] = h
    /\ ~req[c.r].flagged /\ ~dirtyReq[c.r].flagged
    /\ dirtyReq[c.r].status = c.to
    /\ EdgeExists(RequestEdges, req[c.r].status, c.to)
    /\ c.w = dirtyReq[c.r].linked
    /\ c.w # None /\ workLock[c.w] = h => ~dirtyWork[c.w].flagged

\* A transition of a work item: the same, and the call knows the request.
WorkMoved(h) ==
    LET c == call[h] IN
    /\ workLock[c.w] = h
    /\ work[c.w].version > 0
    /\ ~work[c.w].flagged /\ ~dirtyWork[c.w].flagged
    /\ dirtyWork[c.w].status = c.to
    /\ c.r = work[c.w].source

\* The two rows of a call that marks them: it holds the one, which points to the
\* other.
Related(h) ==
    LET c == call[h] IN
    \/ reqLock[c.r] = h /\ c.w = dirtyReq[c.r].linked
    \/ workLock[c.w] = h /\ work[c.w].version > 0 /\ work[c.w].source = c.r

\* The work item a resolution has found is no longer its request's: one of them
\* has been deleted for good.
Cut(c) ==
    \/ work[c.w] = GoneWork
    \/ req[c.r] = GoneRequest /\ work[c.w].version > 0 /\ work[c.w].source = None

CallKnows(h) ==
    LET c == call[h] IN
    /\ c.step = "ownRequest" =>
          /\ ~c.seenReq.flagged /\ c.w = c.seenReq.linked
          /\ EdgeExists(RequestEdges, c.seenReq.status, c.to)
    /\ c.step = "ownWork" => ~c.seenWork.flagged /\ c.seenWork.version > 0
    /\ c.step \in {"readWork", "writeWork"} => RequestMoved(h)
    /\ c.step \in {"readRequest", "writeRequest"} => WorkMoved(h)
    /\ c.step = "flagRequest" => Related(h)
    /\ c.step = "flagWork" => Related(h) /\ reqLock[c.r] = h /\ dirtyReq[c.r].flagged
    /\ c.step \in {"resolveNotes", "resolveLoad", "resolveRequest", "resolveWork"} =>
          /\ req[c.r] # NoRequest
          /\ c.w # None => c.w = req[c.r].linked \/ Cut(c)
    /\ c.step = "resolveNotes" => c.body \in Bodies
    /\ c.step = "resolveWork" =>
          \/ req[c.r] = GoneRequest
          \/ /\ reqLock[c.r] = h /\ dirtyReq[c.r].status = c.to /\ ~dirtyReq[c.r].flagged
             /\ c.r \notin loose => req[c.r].linked \in {None, c.w}

-----------------------------------------------------------------------------
(* The pair as it is, and as a transaction that is about to commit has it. *)

PairOK(row, item) == row.flagged = item.flagged /\ (Agree(row, item) \/ row.flagged)

Paired == \A r \in Requests \ loose :
    req[r].linked # None => PairOK(req[r], work[req[r].linked])

\* Without its work item's lock a request has moved to a status its work item
\* already shows.
MovedUnseen(r) ==
    LET w == dirtyReq[r].linked IN
    /\ w = req[r].linked
    /\ ~req[r].flagged /\ ~dirtyReq[r].flagged
    /\ WorkStatusFor[dirtyReq[r].status] = work[w].status
    /\ EdgeExists(RequestEdges, req[r].status, dirtyReq[r].status)

RequestSettled(h, r) ==
    LET w == dirtyReq[r].linked IN
    w # None => IF workLock[w] = h THEN PairOK(dirtyReq[r], dirtyWork[w])
                ELSE MovedUnseen(r)

\* Without its request's lock a work item is where it was.
WorkSettled(w) ==
    ~work[w].flagged /\ ~dirtyWork[w].flagged /\ dirtyWork[w].status = work[w].status

Settled(h) ==
    call[h].step = "commit" =>
        \A r \in Requests \ loose :
            /\ reqLock[r] = h => RequestSettled(h, r)
            /\ req[r].linked # None /\ workLock[req[r].linked] = h /\ reqLock[r] # h =>
                  WorkSettled(req[r].linked)

-----------------------------------------------------------------------------
(* The row a synchronisation has read is, for what is decided by it, still *)
(* the row.                                                                *)

StepStands(h) ==
    LET c == call[h] IN
    /\ c.step = "writeWork" /\ c.r \notin loose =>
          EdgeExists(WorkEdges, VisibleWork(h, c.w).status, WorkStatusFor[c.to])
    /\ c.step = "writeRequest" /\ c.r \notin loose /\ TableKeepsSteps =>
          EdgeExists(RequestEdges, req[c.r].status, RequestStatusFor[c.to])

IsDone(row) == row.status = "done"
MarkOK(row) == row.completed <=> IsDone(row)

\* A work item no other than its own request has moved.
Free(w) == w \notin loose /\ dirtyWork[w].source \notin loose

Marked ==
    /\ \A r \in Requests \ loose : MarkOK(req[r]) /\ MarkOK(dirtyReq[r])
    /\ \A w \in Works : Free(w) => MarkOK(work[w]) /\ MarkOK(dirtyWork[w])

\* A request to resolve that brings a note locks the request before it reads it.
Clean == NoBody \notin Bodies

ReadStands(h) ==
    LET c == call[h] IN
    /\ c.step = "writeWork" /\ c.r \notin loose =>
          (IsDone(c.seenWork) <=> IsDone(VisibleWork(h, c.w)))
    /\ c.step = "writeRequest" /\ c.r \notin loose => (IsDone(c.seenReq) <=> IsDone(req[c.r]))
    /\ c.step = "resolveLoad" => reqLock[c.r] = h \/ req[c.r] = GoneRequest
    /\ c.step \in {"resolveRequest", "resolveWork"} => reqLock[c.r] = h
    /\ c.step = "resolveRequest" => (IsDone(c.seenReq) <=> IsDone(dirtyReq[c.r]))
    /\ c.step \in {"resolveRequest", "resolveWork"} /\ c.w # None
       /\ c.w = req[c.r].linked /\ c.r \notin loose =>
          (IsDone(c.seenWork) <=> IsDone(work[c.w]))

Local(h) ==
    /\ HoldsItsRows(h)
    /\ CallKnows(h)
    /\ Settled(h)
    /\ StepStands(h)
    /\ Clean => ReadStands(h)

PairsInv ==
    /\ IInv
    /\ LinksOK
    /\ Paired
    /\ Clean => Marked
    /\ \A h \in Handlers : Local(h)

-----------------------------------------------------------------------------
(* Statuses, rows and links.                                               *)

\* Every status of a work item comes back from the request it causes, so that to
\* agree is to have the status the request's maps to; and done is done.
LEMMA StatusesMatch ==
    /\ \A s \in WorkStatuses : WorkStatusFor[RequestStatusFor[s]] = s
    /\ \A s \in RequestStatuses : WorkStatusFor[s] = "done" <=> s = "done"
BY DEF WorkStatusFor, RequestStatusFor, RequestStatuses, WorkStatuses

\* Two statuses agree when the request's maps to the work item's: the maps are inverse there.
LEMMA AgreeIs ==
    ASSUME NEW row \in RequestRow, NEW item \in WorkRow
    PROVE  Agree(row, item) <=> WorkStatusFor[row.status] = item.status
BY StatusesMatch DEF Agree, RequestRow, WorkRow

\* Rows, locks and calls have the types their columns have.
LEMMA RowsTyped ==
    ASSUME IInv
    PROVE  /\ \A r \in Requests :
                 /\ req[r] \in RequestRow /\ dirtyReq[r] \in RequestRow
                 /\ req[r].linked \in Works \union {None}
                 /\ dirtyReq[r].linked \in Works \union {None}
                 /\ req[r].version \in Nat
           /\ \A w \in Works :
                 /\ work[w] \in WorkRow /\ dirtyWork[w] \in WorkRow
                 /\ work[w].version \in Nat /\ dirtyWork[w].version \in Nat
           /\ \A r \in Requests : reqLock[r] = None => dirtyReq[r] = req[r]
           /\ \A w \in Works : workLock[w] = None => dirtyWork[w] = work[w]
BY DEF IInv, TypeOK, RequestRow, WorkRow, RowsOK

\* Two requests are never linked, or about to be, to the same work item.
LEMMA LinkedOnce ==
    ASSUME IInv, LinksOK, NEW r \in Requests, NEW q \in Requests,
           req[r].linked # None,
           dirtyReq[q].linked = req[r].linked \/ req[q].linked = req[r].linked
    PROVE  q = r
<1>1. work[req[r].linked].version > 0 /\ work[req[r].linked].source = r
    BY DEF LinksOK, LinksMatch
<1>2. req[q].linked = req[r].linked => q = r
    BY <1>1 DEF LinksOK, LinksMatch
<1>3. req[r].linked \in Works => work[req[r].linked].version # 0
    BY <1>1, RowsTyped
<1>4. QED
    BY <1>2, <1>3 DEF LinksOK, DirtyLinksMatch, HasMadeWork

-----------------------------------------------------------------------------
(* A step of one transaction, as the others see it.                        *)

\* It commits nothing; the history never shrinks.
Uncommitted == req' = req /\ work' = work /\ loose \subseteq loose'

\* And it touches no call, lock or locked row of theirs.
Frame(h) ==
    /\ Uncommitted
    /\ \A g \in Handlers : g # h =>
          /\ call'[g] = call[g]
          /\ \A r \in Requests : /\ reqLock'[r] = g <=> reqLock[r] = g
                                 /\ reqLock[r] = g => dirtyReq'[r] = dirtyReq[r]
          /\ \A w \in Works : /\ workLock'[w] = g <=> workLock[w] = g
                              /\ workLock[w] = g => dirtyWork'[w] = dirtyWork[w]

\* Links and flags that are committed are what they were.
LEMMA CommittedStays ==
    ASSUME Uncommitted
    PROVE  /\ RowsThere' <=> RowsThere
           /\ LinksMatch' <=> LinksMatch
           /\ SoleWorks => SoleWorks'
           /\ Paired => Paired'
<1>1. SoleWorks => SoleWorks'
    BY DEF Uncommitted, SoleWorks, SoleWork
<1>2. Paired => Paired'
    BY DEF Uncommitted, Paired, PairOK, Agree
<1>3. QED
    BY <1>1, <1>2 DEF Uncommitted, RowsThere, LinksMatch

\* What another call knows stays true.
LEMMA OthersStay ==
    ASSUME PairsInv, NEW h \in Handlers, Frame(h), NEW g \in Handlers, g # h
    PROVE  Local(g)'
<1>1. /\ req' = req /\ work' = work /\ loose \subseteq loose' /\ call'[g] = call[g]
      /\ \A r \in Requests : /\ reqLock'[r] = g <=> reqLock[r] = g
                             /\ reqLock[r] = g => dirtyReq'[r] = dirtyReq[r]
      /\ \A w \in Works : /\ workLock'[w] = g <=> workLock[w] = g
                          /\ workLock[w] = g => dirtyWork'[w] = dirtyWork[w]
    BY DEF Frame, Uncommitted
<1>3. PICK c : c = call[g]
    OBVIOUS
<1>4. c \in Call /\ CallOK(c) /\ call'[g] = c
    BY <1>1, <1>3, CallTyped DEF PairsInv
<1>5. /\ c.w \in Works \union {None} /\ c.r \in Requests \union {None}
    BY <1>4 DEF Call
<1>6. HoldsItsRows(g) /\ CallKnows(g) /\ Settled(g) /\ StepStands(g) /\ (Clean => ReadStands(g))
    BY DEF PairsInv, Local
<1>7. HoldsItsRows(g)'
    BY <1>1, <1>6 DEF HoldsItsRows
<1>8. CallKnows(g)'
  <2>1. c.step \in {"readWork", "writeWork"} => RequestMoved(g)'
    BY <1>1, <1>3, <1>4, <1>5, <1>6 DEF CallKnows, CallOK, RequestMoved
  <2>2. c.step \in {"readRequest", "writeRequest"} => WorkMoved(g)'
    BY <1>1, <1>3, <1>4, <1>6 DEF CallKnows, CallOK, WorkMoved
  <2>3. c.step \in {"flagRequest", "flagWork"} => Related(g)'
    BY <1>1, <1>3, <1>4, <1>6 DEF CallKnows, CallOK, Related
  <2>4. c.step \in {"resolveNotes", "resolveLoad", "resolveRequest", "resolveWork"} =>
           /\ req'[c.r] # NoRequest
           /\ c.w # None => c.w = req'[c.r].linked \/ Cut(c)'
    BY <1>1, <1>3, <1>6 DEF CallKnows, Cut
  <2>5. c.step = "resolveWork" =>
           \/ req'[c.r] = GoneRequest
           \/ /\ reqLock'[c.r] = g /\ dirtyReq'[c.r].status = c.to /\ ~dirtyReq'[c.r].flagged
              /\ c.r \notin loose' => req'[c.r].linked \in {None, c.w}
    BY <1>1, <1>3, <1>4, <1>6 DEF CallKnows, CallOK
  <2>6. c.step = "flagWork" => reqLock'[c.r] = g /\ dirtyReq'[c.r].flagged
    BY <1>1, <1>3, <1>4, <1>6 DEF CallKnows, CallOK
  <2>7. QED
    BY <1>3, <1>4, <1>6, <2>1, <2>2, <2>3, <2>4, <2>5, <2>6 DEF CallKnows
<1>9. Settled(g)'
  <2>1. SUFFICES ASSUME c.step = "commit", NEW r \in Requests, r \notin loose
                 PROVE  /\ (reqLock[r] = g => RequestSettled(g, r))'
                        /\ (req[r].linked # None /\ workLock[req[r].linked] = g /\ reqLock[r] # g =>
                              WorkSettled(req[r].linked))'
    BY <1>1, <1>4 DEF Settled
  <2>2. /\ reqLock[r] = g => RequestSettled(g, r)
        /\ req[r].linked # None /\ workLock[req[r].linked] = g /\ reqLock[r] # g =>
              WorkSettled(req[r].linked)
    BY <1>3, <1>6, <2>1 DEF Settled
  <2>3. req[r].linked \in Works \union {None} /\ dirtyReq[r].linked \in Works \union {None}
    BY RowsTyped DEF PairsInv
  <2>4. (reqLock[r] = g => RequestSettled(g, r))'
    BY <1>1, <2>2, <2>3 DEF RequestSettled, MovedUnseen, PairOK, Agree
  <2>5. (req[r].linked # None /\ workLock[req[r].linked] = g /\ reqLock[r] # g =>
            WorkSettled(req[r].linked))'
    BY <1>1, <2>2, <2>3 DEF WorkSettled
  <2>6. QED
    BY <2>4, <2>5
<1>10. c.step \in {"writeWork", "writeRequest"} /\ c.w \in Works =>
           VisibleWork(g, c.w)' = VisibleWork(g, c.w)
    BY <1>1, <1>4 DEF VisibleWork
<1>11. StepStands(g)'
  <2>1. TableKeepsSteps' <=> TableKeepsSteps
    BY DEF TableKeepsSteps
  <2>2. QED
    BY <1>1, <1>3, <1>4, <1>6, <1>10, <2>1 DEF StepStands, CallOK
<1>12. (Clean => ReadStands(g))'
  <2>1. SUFFICES ASSUME Clean PROVE ReadStands(g)'
    BY DEF Clean
  <2>2. ReadStands(g)
    BY <1>6, <2>1
  <2>3. QED
    BY <1>1, <1>3, <1>4, <1>10, <2>2 DEF ReadStands, CallOK, IsDone
<1>13. QED
    BY <1>7, <1>8, <1>9, <1>11, <1>12 DEF Local

\* The rows a step writes keep their links, and a row that is done its mark.
KeepsReqLinks(h) ==
    \/ ReqUntouched
    \/ \E r \in Requests, row \in RequestRow :
          /\ CanLockReq(h, r) /\ WriteReq(h, r, row)
          /\ row.linked = VisibleReq(h, r).linked
          /\ Clean /\ Marked /\ r \notin loose => MarkOK(row)

KeepsWorkLinks(h) ==
    \/ WorkUntouched
    \/ \E w \in Works, row \in WorkRow :
          /\ CanLockWork(h, w) /\ WriteWork(h, w, row)
          /\ row.source = VisibleWork(h, w).source
          /\ Clean /\ Marked /\ Free(w) => MarkOK(row)

\* Such a step leaves the others alone, and all links in order.
LEMMA WritesKeepLinks ==
    ASSUME PairsInv, NEW h \in Handlers, KeepsReqLinks(h), KeepsWorkLinks(h),
           NEW c, call' = [call EXCEPT ![h] = c], Uncommitted
    PROVE  Frame(h) /\ LinksOK' /\ (Clean => Marked)'
<1>1. \A r \in Requests :
         \/ reqLock'[r] = reqLock[r] /\ dirtyReq'[r] = dirtyReq[r]
         \/ /\ reqLock[r] \in {None, h} /\ reqLock'[r] = h
            /\ dirtyReq'[r].linked = VisibleReq(h, r).linked
            /\ Clean /\ Marked /\ r \notin loose => MarkOK(dirtyReq'[r])
    BY DEF KeepsReqLinks, ReqUntouched, WriteReq, CanLockReq, PairsInv, IInv, TypeOK
<1>2. \A w \in Works :
         \/ workLock'[w] = workLock[w] /\ dirtyWork'[w] = dirtyWork[w]
         \/ /\ workLock[w] \in {None, h} /\ workLock'[w] = h
            /\ dirtyWork'[w].source = VisibleWork(h, w).source
            /\ Clean /\ Marked /\ Free(w) => MarkOK(dirtyWork'[w])
    BY DEF KeepsWorkLinks, WorkUntouched, WriteWork, CanLockWork, PairsInv, IInv, TypeOK
<1>3. \A g \in Handlers : g # h => call'[g] = call[g] /\ g # None
    BY IdsAssumption DEF PairsInv, IInv, TypeOK
<1>4. Frame(h)
    BY <1>1, <1>2, <1>3 DEF Frame
<1>5. RowsThere' /\ LinksMatch' /\ SoleWorks'
    BY CommittedStays DEF PairsInv, LinksOK
<1> USE DEF Uncommitted
<1>6. DirtyLinksMatch'
  <2>1. ASSUME NEW r \in Requests
        PROVE  (dirtyReq[r].linked = req[r].linked \/ HasMadeWork(r, dirtyReq[r].linked))'
    <3>1. dirtyReq[r].linked = req[r].linked \/ HasMadeWork(r, dirtyReq[r].linked)
      BY DEF PairsInv, LinksOK, DirtyLinksMatch
    <3>2. reqLock[r] = None => dirtyReq[r].linked = req[r].linked
      BY RowsTyped DEF PairsInv
    <3>3. dirtyReq'[r].linked = dirtyReq[r].linked \/ dirtyReq'[r].linked = req[r].linked
      BY <1>1 DEF VisibleReq
    <3>4. CASE dirtyReq'[r].linked = req[r].linked
      BY <3>4
    <3>5. CASE dirtyReq'[r].linked # req[r].linked
      <4>1. PICK w : w = dirtyReq[r].linked
        OBVIOUS
      <4>2. /\ reqLock[r] # None /\ HasMadeWork(r, w) /\ w \in Works
            /\ dirtyReq'[r].linked = w
        BY <3>1, <3>2, <3>3, <3>5, <4>1 DEF HasMadeWork
      <4>3. reqLock'[r] = reqLock[r]
        BY <1>1, <4>2
      <4>4. workLock'[w] = workLock[w] /\ dirtyWork'[w].source = dirtyWork[w].source
        BY <1>2, <4>2 DEF HasMadeWork, VisibleWork
      <4>5. QED
        BY <4>2, <4>3, <4>4 DEF HasMadeWork
    <3>6. QED
      BY <3>4, <3>5
  <2>2. ASSUME NEW w \in Works, work[w].version > 0
        PROVE  dirtyWork'[w].source = work[w].source
    <3>1. dirtyWork[w].source = work[w].source
      BY <2>2 DEF PairsInv, LinksOK, DirtyLinksMatch
    <3>2. QED
      BY <1>2, <3>1 DEF VisibleWork
  <2>3. QED
    BY <2>1, <2>2 DEF DirtyLinksMatch
<1>7. MadeForRequests'
  <2>1. SUFFICES ASSUME NEW w \in Works, NEW r, r = dirtyWork'[w].source,
                        work[w].version = 0, r # None
                 PROVE  workLock'[w] # None /\ reqLock'[r] = workLock'[w] /\ dirtyReq'[r].linked = w
    BY DEF MadeForRequests
  <2>2. workLock[w] \in {None, h} => VisibleWork(h, w).source = dirtyWork[w].source
    BY RowsTyped DEF VisibleWork, PairsInv
  <2>3. dirtyWork[w].source = r /\ r \in Requests
    BY <1>2, <2>1, <2>2, RowsTyped DEF VisibleWork, PairsInv, WorkRow
  <2>4. workLock[w] # None /\ reqLock[r] = workLock[w] /\ dirtyReq[r].linked = w
    BY <2>1, <2>3 DEF PairsInv, LinksOK, MadeForRequests
  <2>5. workLock'[w] = workLock[w] /\ reqLock'[r] = reqLock[r]
    BY <1>1, <1>2, <2>3, <2>4
  <2>6. dirtyReq'[r].linked = dirtyReq[r].linked
    BY <1>1, <2>3, <2>4 DEF VisibleReq
  <2>7. QED
    BY <2>4, <2>5, <2>6
<1>8. (Clean => Marked)'
  <2>1. SUFFICES ASSUME Clean PROVE Marked'
    BY DEF Clean
  <2>2. Marked
    BY <2>1 DEF PairsInv
  <2>3. ASSUME NEW r \in Requests, r \notin loose' PROVE MarkOK(req'[r]) /\ MarkOK(dirtyReq'[r])
    BY <1>1, <2>1, <2>2, <2>3 DEF Marked
  <2>4. ASSUME NEW w \in Works, Free(w)' PROVE MarkOK(work'[w]) /\ MarkOK(dirtyWork'[w])
    <3>1. workLock[w] \in {None, h} => VisibleWork(h, w).source = dirtyWork[w].source
      BY RowsTyped DEF VisibleWork, PairsInv
    <3>2. Free(w)
      BY <1>2, <2>4, <3>1 DEF Free
    <3>3. QED
      BY <1>2, <2>1, <2>2, <3>2 DEF Marked
  <2>5. QED
    BY <2>3, <2>4 DEF Marked, MarkOK, IsDone
<1>9. QED
    BY <1>4, <1>5, <1>6, <1>7, <1>8 DEF LinksOK

\* What is left to show of a step: that the call still knows what it says it does.
LEMMA StepKeepsPairs ==
    ASSUME PairsInv, NEW h \in Handlers, Frame(h), LinksOK', (Clean => Marked)', Local(h)',
           IInv'
    PROVE  PairsInv'
<1>1. Paired'
    BY CommittedStays DEF Frame, PairsInv
<1>2. \A g \in Handlers : Local(g)'
    BY OthersStay
<1>3. QED
    BY <1>1, <1>2 DEF PairsInv

\* A transaction that is given up leaves nothing.
LEMMA RollbackPairs ==
    ASSUME PairsInv, NEW h \in Handlers, Rollback(h)
    PROVE  PairsInv'
<1>1. IInv'
    BY RollbackInvariant DEF PairsInv
<1>2. /\ req' = req /\ work' = work /\ loose' = loose /\ call'[h] = Idle
      /\ \A g \in Handlers : g # h => call'[g] = call[g] /\ g # None
      /\ \A r \in Requests :
            IF reqLock[r] = h THEN reqLock'[r] = None /\ dirtyReq'[r] = req[r]
            ELSE reqLock'[r] = reqLock[r] /\ dirtyReq'[r] = dirtyReq[r]
      /\ \A w \in Works :
            IF workLock[w] = h THEN workLock'[w] = None /\ dirtyWork'[w] = work[w]
            ELSE workLock'[w] = workLock[w] /\ dirtyWork'[w] = dirtyWork[w]
    BY IdsAssumption DEF Rollback, ReleaseLocks, NothingCommitted, PairsInv, IInv, TypeOK
<1>3. Frame(h)
    BY <1>2 DEF Frame, Uncommitted
<1>4. RowsThere' /\ LinksMatch' /\ SoleWorks'
    BY <1>2, CommittedStays DEF PairsInv, LinksOK, Uncommitted
<1>5. DirtyLinksMatch'
    BY <1>2 DEF PairsInv, LinksOK, DirtyLinksMatch, HasMadeWork
<1>6. MadeForRequests'
  <2>1. SUFFICES ASSUME NEW w \in Works, NEW r, r = dirtyWork'[w].source,
                        work[w].version = 0, r # None
                 PROVE  workLock'[w] # None /\ reqLock'[r] = workLock'[w] /\ dirtyReq'[r].linked = w
    BY <1>2 DEF MadeForRequests
  <2>2. work[w].source = None
    BY <2>1 DEF PairsInv, LinksOK, RowsThere, NoWork, GoneWork
  <2>3. workLock[w] # h /\ dirtyWork[w].source = r /\ r \in Requests
    BY <1>2, <2>1, <2>2, RowsTyped DEF PairsInv, WorkRow
  <2>4. workLock[w] # None /\ reqLock[r] = workLock[w] /\ dirtyReq[r].linked = w
    BY <2>1, <2>3 DEF PairsInv, LinksOK, MadeForRequests
  <2>5. QED
    BY <1>2, <2>3, <2>4
<1>7. (Clean => Marked)'
  <2>1. SUFFICES ASSUME Clean PROVE Marked'
    BY DEF Clean
  <2>2. Marked
    BY <2>1 DEF PairsInv
  <2>3. ASSUME NEW r \in Requests, r \notin loose' PROVE MarkOK(req'[r]) /\ MarkOK(dirtyReq'[r])
    BY <1>2, <2>2, <2>3 DEF Marked
  <2>4. ASSUME NEW w \in Works, Free(w)' PROVE MarkOK(work'[w]) /\ MarkOK(dirtyWork'[w])
    <3>1. CASE Free(w)
      BY <1>2, <2>2, <3>1 DEF Marked
    <3>2. CASE ~Free(w)
      <4>1. dirtyWork'[w].source # dirtyWork[w].source
        BY <1>2, <2>4, <3>2 DEF Free
      <4>2. workLock[w] = h /\ work[w].version = 0
        BY <1>2, <4>1, RowsTyped DEF PairsInv, LinksOK, DirtyLinksMatch
      <4>3. work[w] \in {NoWork, GoneWork} /\ work'[w] = work[w] /\ dirtyWork'[w] = work[w]
        BY <1>2, <4>2 DEF PairsInv, LinksOK, RowsThere
      <4>4. QED
        BY <4>3 DEF MarkOK, IsDone, NoWork, GoneWork
    <3>3. QED
      BY <3>1, <3>2
  <2>5. QED
    BY <2>3, <2>4 DEF Marked, MarkOK, IsDone
<1>8. h # None
    BY IdsAssumption
<1>9. Local(h)'
    BY <1>2, <1>8 DEF Local, HoldsItsRows, CallKnows, Settled, StepStands, ReadStands, Idle
<1>10. QED
    BY <1>1, <1>3, <1>4, <1>5, <1>6, <1>7, <1>9, StepKeepsPairs DEF LinksOK

\* A step after which the call is still under way.
LEMMA StepPairs ==
    ASSUME PairsInv, IInv', NEW h \in Handlers, NEW c, call' = [call EXCEPT ![h] = c],
           c.step # "commit", KeepsReqLinks(h), KeepsWorkLinks(h), Uncommitted,
           HoldsItsRows(h)', CallKnows(h)', StepStands(h)', (Clean => ReadStands(h))'
    PROVE  PairsInv'
<1>1. Frame(h) /\ LinksOK' /\ (Clean => Marked)'
    BY WritesKeepLinks
<1>2. call'[h] = c
    BY DEF PairsInv, IInv, TypeOK
<1>3. Settled(h)'
    BY <1>2 DEF Settled
<1>4. Local(h)'
    BY <1>3 DEF Local
<1>5. QED
    BY <1>1, <1>4, StepKeepsPairs

\* The last statement of a transaction: the rows it holds are settled.
LEMMA ToCommitPairs ==
    ASSUME PairsInv, IInv', NEW h \in Handlers, GotoCommit(h),
           KeepsReqLinks(h), KeepsWorkLinks(h), Uncommitted,
           \A r \in Requests : reqLock'[r] = h => r = call[h].r,
           \A w \in Works : workLock'[w] = h => w = call[h].w,
           \A r \in Requests : r = call[h].r /\ r \notin loose' /\ reqLock'[r] = h =>
              RequestSettled(h, r)',
           \A r \in Requests, w \in Works :
              /\ w = call[h].w /\ w = req[r].linked
              /\ r \notin loose' /\ workLock'[w] = h /\ reqLock'[r] # h
              => WorkSettled(w)'
    PROVE  PairsInv'
<1>1. PICK c : c = [Idle EXCEPT !.step = "commit"]
    OBVIOUS
<1>2. call' = [call EXCEPT ![h] = c]
    BY <1>1 DEF GotoCommit
<1>3. c.step = "commit" /\ call'[h] = c
    BY <1>1, <1>2 DEF Idle, PairsInv, IInv, TypeOK
<1>4. Frame(h) /\ LinksOK' /\ (Clean => Marked)'
    BY <1>2, WritesKeepLinks
<1>5. HoldsItsRows(h)' /\ CallKnows(h)' /\ StepStands(h)' /\ ReadStands(h)'
    BY <1>3 DEF HoldsItsRows, CallKnows, StepStands, ReadStands
<1> USE DEF Uncommitted
<1>6. Settled(h)'
  <2>1. SUFFICES ASSUME NEW r \in Requests, r \notin loose'
                 PROVE  /\ (reqLock[r] = h => RequestSettled(h, r))'
                        /\ (req[r].linked # None /\ workLock[req[r].linked] = h /\ reqLock[r] # h =>
                              WorkSettled(req[r].linked))'
    BY DEF Settled
  <2>2. (reqLock[r] = h => RequestSettled(h, r))'
    BY <2>1
  <2>3. PICK w : w = req[r].linked
    OBVIOUS
  <2>4. w \in Works \union {None}
    BY <2>3, RowsTyped DEF PairsInv
  <2>5. w # None /\ workLock'[w] = h /\ reqLock'[r] # h => WorkSettled(w)'
    BY <2>1, <2>3, <2>4
  <2>6. req'[r].linked = w
    BY <2>3
  <2>7. (req[r].linked # None /\ workLock[req[r].linked] = h /\ reqLock[r] # h =>
            WorkSettled(req[r].linked))'
    BY <2>5, <2>6 DEF WorkSettled
  <2>8. QED
    BY <2>2, <2>7
<1>7. Local(h)'
    BY <1>5, <1>6 DEF Local
<1>8. QED
    BY <1>4, <1>7, StepKeepsPairs

\* What is known of a call, all at once.
LEMMA CallAt ==
    ASSUME PairsInv, NEW h \in Handlers
    PROVE  /\ call[h] \in Call /\ CallOK(call[h])
           /\ call[h].r \in Requests \union {None} /\ call[h].w \in Works \union {None}
           /\ HoldsItsRows(h) /\ CallKnows(h) /\ StepStands(h) /\ (Clean => ReadStands(h))
           /\ call \in [Handlers -> Call] /\ h # None
BY CallTyped, IdsAssumption DEF PairsInv, Local, Call, IInv, TypeOK

-----------------------------------------------------------------------------
(* One lemma per action, as far as it does not just roll back.             *)

\* What begins a call reads a row that the rest of it is held to.
LEMMA StartPairs ==
    ASSUME PairsInv, NEW h \in Handlers, Start(h)
    PROVE  PairsInv'
<1>1. IInv'
    BY StartInvariant DEF PairsInv
<1>2. PICK body \in Bodies :
         \/ \E r \in Requests, to \in RequestStatuses :
               StartRequestTransition(h, r, to, body) \/ StartResolve(h, r, to, body)
         \/ \E w \in Works, to \in WorkStatuses : StartWorkTransition(h, w, to, body)
    BY DEF Start
<1>3. call[h].step = "idle" /\ NothingWritten /\ Uncommitted
    BY <1>2 DEF StartRequestTransition, StartResolve, StartWorkTransition, Begin,
                NothingCommitted, Uncommitted
<1>4. KeepsReqLinks(h) /\ KeepsWorkLinks(h)
    BY <1>3 DEF NothingWritten, KeepsReqLinks, KeepsWorkLinks
<1>5. HoldsItsRows(h)'
    BY <1>3, CallAt DEF HoldsItsRows, NothingWritten, ReqUntouched, WorkUntouched
<1>6. ASSUME NEW r \in Requests, NEW to \in RequestStatuses,
             StartRequestTransition(h, r, to, body)
      PROVE  PairsInv'
  <2>1. PICK c : c = [Idle EXCEPT !.step = "ownRequest", !.r = r, !.w = req[r].linked,
                                  !.to = to, !.body = body, !.seenReq = req[r]]
    OBVIOUS
  <2>2. /\ c.step = "ownRequest" /\ c.w = c.seenReq.linked /\ c.seenReq = req[r] /\ c.to = to
        /\ ~req[r].flagged /\ EdgeExists(RequestEdges, req[r].status, to)
    BY <1>6, <2>1 DEF Idle, StartRequestTransition, CanTransition, EdgeExists
  <2>3. call' = [call EXCEPT ![h] = c] /\ call'[h] = c
    BY <1>6, <2>1, CallAt DEF StartRequestTransition, Begin
  <2>4. CallKnows(h)' /\ StepStands(h)' /\ (Clean => ReadStands(h))'
    BY <2>2, <2>3 DEF CallKnows, StepStands, ReadStands
  <2>5. QED
    BY <1>1, <1>3, <1>4, <1>5, <2>2, <2>3, <2>4, StepPairs
<1>7. ASSUME NEW r \in Requests, NEW to \in RequestStatuses, StartResolve(h, r, to, body)
      PROVE  PairsInv'
  <2>1. PICK c : c = [Idle EXCEPT !.step = "resolveNotes", !.r = r, !.w = req[r].linked,
                                  !.to = to, !.body = body]
    OBVIOUS
  <2>2. c.step = "resolveNotes" /\ c.w = req[r].linked /\ c.r = r /\ c.body \in Bodies
    BY <2>1 DEF Idle
  <2>3. call' = [call EXCEPT ![h] = c] /\ call'[h] = c
    BY <1>7, <2>1, CallAt DEF StartResolve, Begin
  <2>4. req[r] # NoRequest
    BY <1>7 DEF StartResolve, Live, NoRequest
  <2>5. CallKnows(h)' /\ StepStands(h)' /\ (Clean => ReadStands(h))'
    BY <1>3, <2>2, <2>3, <2>4 DEF CallKnows, StepStands, ReadStands, Uncommitted
  <2>6. QED
    BY <1>1, <1>3, <1>4, <1>5, <2>2, <2>3, <2>5, StepPairs
<1>8. ASSUME NEW w \in Works, NEW to \in WorkStatuses, StartWorkTransition(h, w, to, body)
      PROVE  PairsInv'
  <2>1. PICK c : c = [Idle EXCEPT !.step = "ownWork", !.w = w, !.to = to,
                                  !.body = body, !.seenWork = work[w]]
    OBVIOUS
  <2>2. /\ c.step = "ownWork" /\ c.seenWork = work[w]
        /\ ~work[w].flagged /\ work[w].version > 0
    BY <1>8, <2>1 DEF Idle, StartWorkTransition, Live
  <2>3. call' = [call EXCEPT ![h] = c] /\ call'[h] = c
    BY <1>8, <2>1, CallAt DEF StartWorkTransition, Begin
  <2>4. CallKnows(h)' /\ StepStands(h)' /\ (Clean => ReadStands(h))'
    BY <2>2, <2>3 DEF CallKnows, StepStands, ReadStands
  <2>5. QED
    BY <1>1, <1>3, <1>4, <1>5, <2>2, <2>3, <2>4, StepPairs
<1>9. QED
    BY <1>2, <1>6, <1>7, <1>8

\* RequestsService.transition: what is written is what was checked, and the work item
\* made for a request that is submitted is its own.
LEMMA WriteOwnRequestPairs ==
    ASSUME PairsInv, NEW h \in Handlers, WriteOwnRequest(h)
    PROVE  PairsInv'
<1>1. PICK c : c = call[h]
    OBVIOUS
<1>2. /\ c.step = "ownRequest" /\ c.r \in Requests /\ c.to \in RequestStatuses
      /\ c \in Call /\ CanLockReq(h, c.r) /\ Uncommitted
    BY <1>1, CallAt DEF CallOK, WriteOwnRequest, AtOwnRequest, NothingCommitted, Uncommitted
<1>3. IInv'
    BY WriteOwnRequestInvariant DEF PairsInv
<1>4. c.seenReq = req[c.r]
  <2>1. c.seenReq.version = req[c.r].version /\ (c.w # None => work[c.w].version > 0)
    BY <1>1 DEF WriteOwnRequest, IfMatch, LinkStands
  <2>2. c.seenReq = req[c.r] \/ (c.w # None /\ work[c.w] = GoneWork)
    BY <1>1, <1>2, <2>1 DEF PairsInv, IInv, AllSeenOK, SeenOK
  <2>3. GoneWork.version = 0
    BY DEF GoneWork, NoWork
  <2>4. QED
    BY <2>1, <2>2, <2>3
<1>5. /\ ~req[c.r].flagged /\ c.w = req[c.r].linked
      /\ EdgeExists(RequestEdges, req[c.r].status, c.to)
    BY <1>1, <1>2, <1>4, CallAt DEF CallKnows
<1>6. /\ \A r \in Requests : reqLock[r] # h
      /\ \A w \in Works : workLock[w] # h
    BY <1>1, <1>2, CallAt DEF HoldsItsRows
<1>7. reqLock[c.r] = None /\ req[c.r] \in RequestRow /\ VisibleReq(h, c.r) = req[c.r]
    BY <1>2, <1>6, RowsTyped DEF CanLockReq, PairsInv, VisibleReq
<1>8. PICK moved : moved = MovedRequest(h)
    OBVIOUS
<1>9. /\ moved.linked = req[c.r].linked /\ ~moved.flagged /\ moved.status = c.to
      /\ moved.completed = Completed(req[c.r].completed, req[c.r].status, c.to)
    BY <1>1, <1>4, <1>5, <1>7, <1>8 DEF MovedRequest, RequestRow
<1>10. Clean /\ Marked /\ c.r \notin loose => MarkOK(moved)
    BY <1>2, <1>9 DEF Marked, MarkOK, IsDone, Completed
<1>11. CASE ~CreatesWork(c)
  <2>1. WriteReq(h, c.r, moved) /\ WorkUntouched /\ Goto(h, "readWork")
    BY <1>1, <1>8, <1>11 DEF WriteOwnRequest
  <2>2. reqLock'[c.r] = h /\ dirtyReq'[c.r] = moved
    BY <1>2, <2>1 DEF WriteReq, PairsInv, IInv, TypeOK
  <2>3. moved \in RequestRow
    BY <1>2, <1>3, <2>2 DEF IInv, TypeOK
  <2>4. KeepsReqLinks(h) /\ KeepsWorkLinks(h)
    BY <1>2, <1>7, <1>9, <1>10, <2>1, <2>3 DEF KeepsReqLinks, KeepsWorkLinks
  <2>5. PICK d : d = [c EXCEPT !.step = "readWork"]
    OBVIOUS
  <2>6. d.step = "readWork" /\ d.r = c.r /\ d.w = c.w /\ d.to = c.to
    BY <1>2, <2>5 DEF Call
  <2>7. call' = [call EXCEPT ![h] = d] /\ call'[h] = d
    BY <1>1, <2>1, <2>5, CallAt DEF Goto
  <2>8. /\ \A r \in Requests : reqLock'[r] = h => r = c.r
        /\ \A w \in Works : workLock'[w] # h
    BY <1>6, <2>1 DEF WriteReq, WorkUntouched, PairsInv, IInv, TypeOK
  <2>9. HoldsItsRows(h)'
    BY <2>6, <2>7, <2>8 DEF HoldsItsRows
  <2>10. c.w # None => c.w \in Works
    BY <1>1, CallAt
  <2>11. RequestMoved(h)'
    BY <1>2, <1>5, <1>9, <2>2, <2>6, <2>7, <2>8, <2>10 DEF RequestMoved, Uncommitted
  <2>12. CallKnows(h)' /\ StepStands(h)' /\ (Clean => ReadStands(h))'
    BY <2>6, <2>7, <2>11 DEF CallKnows, StepStands, ReadStands
  <2>13. QED
    BY <1>2, <1>3, <2>4, <2>6, <2>7, <2>9, <2>12, StepPairs
<1>12. CASE CreatesWork(c)
  <2>1. PICK w \in Works, pic \in BOOLEAN :
           /\ work[w] = NoWork /\ workLock[w] = None
           /\ WriteWork(h, w, NewWork(c.r, pic))
           /\ WriteReq(h, c.r, [MovedRequest(h) EXCEPT !.linked = w])
           /\ call' = [call EXCEPT ![h].step = "readWork", ![h].w = w]
    BY <1>1, <1>12 DEF WriteOwnRequest
  <2>2. PICK row : row = [moved EXCEPT !.linked = w]
    OBVIOUS
  <2>3. /\ row.linked = w /\ row.flagged = moved.flagged /\ row.status = moved.status
        /\ row.completed = moved.completed
    BY <1>1, <1>7, <1>8, <2>2 DEF MovedRequest, RequestRow
  <2>4. /\ reqLock' = [reqLock EXCEPT ![c.r] = h] /\ dirtyReq' = [dirtyReq EXCEPT ![c.r] = row]
        /\ workLock' = [workLock EXCEPT ![w] = h]
        /\ dirtyWork' = [dirtyWork EXCEPT ![w] = NewWork(c.r, pic)]
    BY <1>8, <2>1, <2>2 DEF WriteReq, WriteWork
  <2>5. /\ reqLock'[c.r] = h /\ dirtyReq'[c.r] = row /\ workLock'[w] = h
        /\ dirtyWork'[w] = NewWork(c.r, pic)
        /\ \A r \in Requests : r # c.r => reqLock'[r] = reqLock[r] /\ dirtyReq'[r] = dirtyReq[r]
        /\ \A v \in Works : v # w => workLock'[v] = workLock[v] /\ dirtyWork'[v] = dirtyWork[v]
    BY <1>2, <2>1, <2>4 DEF PairsInv, IInv, TypeOK
  <2>6. PICK new : new = NewWork(c.r, pic)
    OBVIOUS
  <2>7. ~new.flagged /\ new.source = c.r /\ MarkOK(new)
    BY <2>6 DEF NewWork, NoWork, MarkOK, IsDone
  <2>8. PICK d : d = [c EXCEPT !.step = "readWork", !.w = w]
    OBVIOUS
  <2>9. d.step = "readWork" /\ d.r = c.r /\ d.w = w /\ d.to = c.to
    BY <1>2, <2>8 DEF Call
  <2>10. call' = [call EXCEPT ![h] = d] /\ call'[h] = d
    BY <1>1, <2>1, <2>8, CallAt
  <2>11. Frame(h)
    BY <1>2, <1>7, <2>1, <2>5, <2>10, CallAt, IdsAssumption DEF Frame
  <2>12. /\ RowsThere' /\ LinksMatch' /\ SoleWorks'
         /\ req' = req /\ work' = work /\ loose \subseteq loose'
    BY <1>2, CommittedStays DEF PairsInv, LinksOK, Uncommitted
  <2>22. work[w].version = 0
    BY <2>1 DEF NoWork
  <2>13. c.w = None /\ req[c.r].linked = None
    BY <1>5, <1>12 DEF CreatesWork
  <2>14. DirtyLinksMatch'
    <3>1. HasMadeWork(c.r, w)'
      BY <1>2, <2>1, <2>5, <2>6, <2>7, <2>12, <2>13, <2>22 DEF HasMadeWork
    <3>2. ASSUME NEW r \in Requests, r # c.r
          PROVE  (dirtyReq[r].linked = req[r].linked \/ HasMadeWork(r, dirtyReq[r].linked))'
      <4>1. dirtyReq[r].linked = req[r].linked \/ HasMadeWork(r, dirtyReq[r].linked)
        BY DEF PairsInv, LinksOK, DirtyLinksMatch
      <4>2. reqLock[r] = None => dirtyReq[r].linked = req[r].linked
        BY RowsTyped DEF PairsInv
      <4>3. QED
        BY <1>2, <2>1, <2>5, <2>12, <3>2, <4>1, <4>2 DEF HasMadeWork
    <3>3. ASSUME NEW v \in Works, work[v].version > 0
          PROVE  dirtyWork'[v].source = work[v].source
      <4>1. v # w
        BY <2>22, <3>3
      <4>2. QED
        BY <2>5, <3>3, <4>1 DEF PairsInv, LinksOK, DirtyLinksMatch
    <3>4. QED
      BY <1>2, <2>3, <2>5, <2>12, <3>1, <3>2, <3>3 DEF DirtyLinksMatch
  <2>15. MadeForRequests'
    <3>1. SUFFICES ASSUME NEW v \in Works, NEW r, r = dirtyWork'[v].source,
                          work[v].version = 0, r # None
                   PROVE  workLock'[v] # None /\ reqLock'[r] = workLock'[v]
                          /\ dirtyReq'[r].linked = v
      BY <1>2, <2>12 DEF MadeForRequests
    <3>2. CASE v = w
      BY <1>2, <2>3, <2>5, <2>6, <2>7, <3>1, <3>2, IdsAssumption
    <3>3. CASE v # w
      <4>1. dirtyWork[v].source = r /\ r \in Requests
        BY <2>5, <3>1, <3>3, RowsTyped DEF PairsInv, WorkRow
      <4>2. workLock[v] # None /\ reqLock[r] = workLock[v] /\ dirtyReq[r].linked = v
        BY <3>1, <4>1 DEF PairsInv, LinksOK, MadeForRequests
      <4>3. r # c.r
        BY <1>7, <4>2
      <4>4. QED
        BY <2>5, <3>3, <4>1, <4>2, <4>3
    <3>4. QED
      BY <3>2, <3>3
  <2>16. (Clean => Marked)'
    <3>1. SUFFICES ASSUME Clean PROVE Marked'
      BY DEF Clean
    <3>2. Marked
      BY <3>1 DEF PairsInv
    <3>3. MarkOK(row) <=> MarkOK(moved)
      BY <2>3 DEF MarkOK, IsDone
    <3>4. ASSUME NEW r \in Requests, r \notin loose' PROVE MarkOK(req'[r]) /\ MarkOK(dirtyReq'[r])
      BY <1>10, <2>5, <2>12, <3>1, <3>2, <3>3, <3>4 DEF Marked
    <3>5. ASSUME NEW v \in Works, Free(v)' PROVE MarkOK(work'[v]) /\ MarkOK(dirtyWork'[v])
      <4>1. CASE v = w
        <5>1. MarkOK(work[w])
          BY <2>1 DEF MarkOK, IsDone, NoWork
        <5>2. QED
          BY <2>5, <2>6, <2>7, <2>12, <4>1, <5>1
      <4>2. CASE v # w
        <5>1. Free(v)
          BY <2>5, <2>12, <3>5, <4>2 DEF Free
        <5>2. QED
          BY <2>5, <2>12, <3>2, <4>2, <5>1 DEF Marked
      <4>3. QED
        BY <4>1, <4>2
    <3>6. QED
      BY <3>4, <3>5 DEF Marked, MarkOK, IsDone
  <2>17. HoldsItsRows(h)'
    BY <1>6, <2>5, <2>9, <2>10 DEF HoldsItsRows
  <2>18. RequestMoved(h)'
    BY <1>2, <1>5, <1>9, <2>3, <2>5, <2>6, <2>7, <2>9, <2>10, <2>12 DEF RequestMoved
  <2>19. CallKnows(h)' /\ StepStands(h)' /\ (Clean => ReadStands(h))' /\ Settled(h)'
    BY <2>9, <2>10, <2>18 DEF CallKnows, StepStands, ReadStands, Settled
  <2>20. Local(h)'
    BY <2>17, <2>19 DEF Local
  <2>21. QED
    BY <1>3, <2>11, <2>12, <2>14, <2>15, <2>16, <2>20, StepKeepsPairs DEF LinksOK
<1>13. QED
    BY <1>11, <1>12

\* WorkItemsService.transition, the same.
LEMMA WriteOwnWorkPairs ==
    ASSUME PairsInv, NEW h \in Handlers, WriteOwnWork(h)
    PROVE  PairsInv'
<1>1. PICK c : c = call[h]
    OBVIOUS
<1>2. /\ c.step = "ownWork" /\ c.w \in Works /\ c.to \in WorkStatuses
      /\ c \in Call /\ CanLockWork(h, c.w) /\ Uncommitted
    BY <1>1, CallAt DEF CallOK, WriteOwnWork, AtOwnWork, NothingCommitted, Uncommitted
<1>3. IInv'
    BY WriteOwnWorkInvariant DEF PairsInv
<1>4. work[c.w] \in {c.seenWork, WithoutItsSource(c.seenWork)}
    BY <1>1, <1>2 DEF WriteOwnWork, IfMatch, PairsInv, IInv, AllSeenOK, SeenOK
<1>5. /\ ~work[c.w].flagged /\ work[c.w].version > 0
      /\ c.seenWork.status = work[c.w].status
  <2>1. ~c.seenWork.flagged /\ c.seenWork.version > 0 /\ c.seenWork \in WorkRow
    BY <1>1, <1>2, CallAt DEF CallKnows, Call
  <2>2. QED
    BY <1>4, <2>1 DEF WithoutItsSource, WorkRow
<1>6. /\ \A r \in Requests : reqLock[r] # h
      /\ \A w \in Works : workLock[w] # h
    BY <1>1, <1>2, CallAt DEF HoldsItsRows
<1>7. work[c.w] \in WorkRow /\ VisibleWork(h, c.w) = work[c.w]
    BY <1>2, <1>6, RowsTyped DEF PairsInv, VisibleWork
<1>8. PICK moved : moved = MovedWork(h)
    OBVIOUS
<1>9. /\ moved.source = work[c.w].source /\ ~moved.flagged /\ moved.status = c.to
      /\ moved.completed = Completed(work[c.w].completed, work[c.w].status, c.to)
    BY <1>1, <1>4, <1>5, <1>7, <1>8 DEF MovedWork, WorkRow
<1>10. Clean /\ Marked /\ Free(c.w) => MarkOK(moved)
    BY <1>2, <1>9 DEF Marked, MarkOK, IsDone, Completed
<1>11. /\ WriteWork(h, c.w, moved) /\ ReqUntouched
       /\ call' = [call EXCEPT ![h].step = "readRequest", ![h].r = work[c.w].source]
    BY <1>1, <1>8 DEF WriteOwnWork
<1>12. workLock'[c.w] = h /\ dirtyWork'[c.w] = moved
    BY <1>2, <1>11 DEF WriteWork, PairsInv, IInv, TypeOK
<1>13. moved \in WorkRow
    BY <1>2, <1>3, <1>12 DEF IInv, TypeOK
<1>14. KeepsReqLinks(h) /\ KeepsWorkLinks(h)
    BY <1>2, <1>7, <1>9, <1>10, <1>11, <1>13 DEF KeepsReqLinks, KeepsWorkLinks
<1>15. PICK d : d = [c EXCEPT !.step = "readRequest", !.r = work[c.w].source]
    OBVIOUS
<1>16. /\ d.step = "readRequest" /\ d.r = work[c.w].source /\ d.w = c.w /\ d.to = c.to
    BY <1>2, <1>4, <1>15 DEF Call
<1>17. call' = [call EXCEPT ![h] = d] /\ call'[h] = d
    BY <1>1, <1>11, <1>15, CallAt
<1>18. /\ \A r \in Requests : reqLock'[r] # h
       /\ \A w \in Works : workLock'[w] = h => w = c.w
    BY <1>6, <1>11 DEF WriteWork, ReqUntouched, PairsInv, IInv, TypeOK
<1>19. HoldsItsRows(h)'
    BY <1>16, <1>17, <1>18 DEF HoldsItsRows
<1>20. WorkMoved(h)'
    BY <1>2, <1>5, <1>9, <1>12, <1>16, <1>17 DEF WorkMoved, Uncommitted
<1>21. CallKnows(h)' /\ StepStands(h)' /\ (Clean => ReadStands(h))'
    BY <1>16, <1>17, <1>20 DEF CallKnows, StepStands, ReadStands
<1>22. QED
    BY <1>2, <1>3, <1>14, <1>16, <1>17, <1>19, <1>21, StepPairs

\* The work item of a request that a call has locked cannot go away under it.
LEMMA LinkedIsThere ==
    ASSUME PairsInv, NEW h \in Handlers, NEW r \in Requests, reqLock[r] = h,
           NEW w \in Works, w = dirtyReq[r].linked
    PROVE  WorkThere(h, w) /\ dirtyWork[w].source = r
<1>1. CASE w = req[r].linked
  <2>1. work[w].version > 0 /\ work[w].source = r
    BY <1>1, IdsAssumption DEF PairsInv, LinksOK, LinksMatch
  <2>2. QED
    BY <2>1, VisibleVersions DEF PairsInv, WorkThere, LinksOK, DirtyLinksMatch
<1>2. CASE HasMadeWork(r, w)
  <2>1. workLock[w] = h /\ work[w].version = 0 /\ dirtyWork[w].source = r
    BY <1>2 DEF HasMadeWork
  <2>2. dirtyWork[w].version > work[w].version
    BY <2>1, IdsAssumption DEF PairsInv, IInv, RowsOK
  <2>3. QED
    BY <2>1, <2>2 DEF WorkThere, VisibleWork
<1>3. QED
    BY <1>1, <1>2 DEF PairsInv, LinksOK, DirtyLinksMatch

\* A call that moves a request holds that request, and of the work items at most its own.
LEMMA RequestMovedIs ==
    ASSUME PairsInv, NEW h \in Handlers, call[h].step \in {"readWork", "writeWork"}
    PROVE  LET c == call[h] IN
           /\ c \in Call /\ c.r \in Requests /\ c.to \in RequestStatuses
           /\ c.w \in Works \union {None}
           /\ RequestMoved(h)
           /\ \A r \in Requests : reqLock[r] = h => r = c.r
           /\ \A w \in Works : workLock[w] = h => w = c.w
BY CallAt DEF CallOK, CallKnows, HoldsItsRows

\* syncFromRequestWithin: what it ends with, and what it goes on with.
LEMMA ReadLinkedWorkPairs ==
    ASSUME PairsInv, NEW h \in Handlers, ReadLinkedWork(h)
    PROVE  PairsInv'
<1>1. PICK c : c = call[h]
    OBVIOUS
<1>2. c.step = "readWork" /\ Uncommitted
    BY <1>1 DEF ReadLinkedWork, NothingCommitted, Uncommitted
<1>3. /\ c \in Call /\ c.r \in Requests /\ c.to \in RequestStatuses
      /\ c.w \in Works \union {None} /\ RequestMoved(h)
      /\ \A r \in Requests : reqLock[r] = h => r = c.r
      /\ \A w \in Works : workLock[w] = h => w = c.w
    BY <1>1, <1>2, RequestMovedIs
<1>4. /\ reqLock[c.r] = h
      /\ ~req[c.r].flagged /\ ~dirtyReq[c.r].flagged
      /\ dirtyReq[c.r].status = c.to
      /\ EdgeExists(RequestEdges, req[c.r].status, c.to)
      /\ c.w = dirtyReq[c.r].linked
      /\ c.w # None /\ workLock[c.w] = h => ~dirtyWork[c.w].flagged
    BY <1>1, <1>3 DEF RequestMoved
<1>5. IInv'
    BY ReadLinkedWorkInvariant DEF PairsInv
<1>6. PICK row : row = VisibleWork(h, c.w)
    OBVIOUS
<1>7. PICK target : target = WorkStatusFor[c.to]
    OBVIOUS
<1>12. LoadsWork(h) <=> c.w # None
    BY <1>1, <1>3, <1>4, LinkedIsThere DEF LoadsWork
<1>8. CASE NothingWritten /\ GotoCommit(h) /\ (c.w # None => row.status = target)
  <2>1. KeepsReqLinks(h) /\ KeepsWorkLinks(h)
    BY <1>8 DEF NothingWritten, KeepsReqLinks, KeepsWorkLinks
  <2>2. /\ reqLock' = reqLock /\ dirtyReq' = dirtyReq
        /\ workLock' = workLock /\ dirtyWork' = dirtyWork
    BY <1>8 DEF NothingWritten, ReqUntouched, WorkUntouched
  <2>3. RequestSettled(h, c.r)
    <3>1. CASE c.w = None
      BY <1>4, <3>1 DEF RequestSettled
    <3>2. CASE c.w \in Works /\ workLock[c.w] = h
      <4>1. dirtyReq[c.r] \in RequestRow /\ dirtyWork[c.w] \in WorkRow
        BY <1>3, <3>2, RowsTyped DEF PairsInv
      <4>2. Agree(dirtyReq[c.r], dirtyWork[c.w])
        BY <1>4, <1>6, <1>7, <1>8, <3>2, <4>1, IdsAssumption, AgreeIs DEF VisibleWork
      <4>3. (dirtyReq[c.r].flagged = FALSE) /\ (dirtyWork[c.w].flagged = FALSE)
        BY <1>4, <3>2, <4>1, IdsAssumption DEF RequestRow, WorkRow
      <4>4. QED
        BY <1>4, <3>2, <4>2, <4>3, IdsAssumption DEF RequestSettled, PairOK
    <3>3. CASE c.w \in Works /\ workLock[c.w] # h
      <4>1. c.w = req[c.r].linked
        BY <1>3, <1>4, <3>3 DEF PairsInv, LinksOK, DirtyLinksMatch, HasMadeWork
      <4>2. MovedUnseen(c.r)
        BY <1>4, <1>6, <1>7, <1>8, <3>3, <4>1, IdsAssumption DEF MovedUnseen, VisibleWork
      <4>3. QED
        BY <1>4, <3>3, <4>2, IdsAssumption DEF RequestSettled
    <3>4. QED
      BY <1>3, <3>1, <3>2, <3>3
  <2>4. ASSUME NEW r \in Requests, NEW w \in Works,
               w = c.w, w = req[r].linked, reqLock'[r] # h
        PROVE  FALSE
    <3>1. r = c.r
      BY <1>3, <1>4, <2>4, IdsAssumption, LinkedOnce DEF PairsInv
    <3>2. QED
      BY <1>4, <2>2, <2>4, <3>1
  <2>5. RequestSettled(h, c.r)'
    BY <1>2, <2>2, <2>3 DEF RequestSettled, MovedUnseen, PairOK, Agree, Uncommitted
  <2>6. QED
    BY <1>1, <1>2, <1>3, <1>5, <1>8, <2>1, <2>2, <2>4, <2>5, ToCommitPairs
<1>9. CASE /\ NothingWritten /\ c.w # None
           /\ call' = [call EXCEPT ![h].seenWork = row,
                                   ![h].step = SyncStep(WorkEdges, row.status, target, "writeWork")]
  <2>1. KeepsReqLinks(h) /\ KeepsWorkLinks(h)
    BY <1>9 DEF NothingWritten, KeepsReqLinks, KeepsWorkLinks
  <2>2. /\ reqLock' = reqLock /\ dirtyReq' = dirtyReq
        /\ workLock' = workLock /\ dirtyWork' = dirtyWork
    BY <1>9 DEF NothingWritten, ReqUntouched, WorkUntouched
  <2>3. PICK s : s = SyncStep(WorkEdges, row.status, target, "writeWork")
    OBVIOUS
  <2>4. /\ s \in {"writeWork", "flagRequest"}
        /\ s = "writeWork" => EdgeExists(WorkEdges, row.status, target)
    BY <2>3 DEF SyncStep
  <2>5. PICK d : d = [c EXCEPT !.seenWork = row, !.step = s]
    OBVIOUS
  <2>6. d.step = s /\ d.r = c.r /\ d.w = c.w /\ d.to = c.to /\ d.seenWork = row
    BY <1>3, <2>5 DEF Call
  <2>7. call' = [call EXCEPT ![h] = d] /\ call'[h] = d
    BY <1>1, <1>9, <2>3, <2>5, CallAt
  <2>8. HoldsItsRows(h)'
    BY <1>3, <2>2, <2>4, <2>6, <2>7 DEF HoldsItsRows
  <2>9. RequestMoved(h)' /\ Related(h)'
    BY <1>2, <1>4, <2>2, <2>6, <2>7 DEF RequestMoved, Related, Uncommitted
  <2>10. CallKnows(h)'
    BY <2>4, <2>6, <2>7, <2>9 DEF CallKnows
  <2>11. VisibleWork(h, c.w)' = row
    BY <1>2, <1>6, <2>2 DEF VisibleWork, Uncommitted
  <2>12. StepStands(h)'
    BY <1>7, <2>4, <2>6, <2>7, <2>11 DEF StepStands, VisibleWork
  <2>13. ReadStands(h)'
    BY <2>4, <2>6, <2>7, <2>11 DEF ReadStands, VisibleWork
  <2>14. QED
    BY <1>2, <1>5, <2>1, <2>4, <2>6, <2>7, <2>8, <2>10, <2>12, <2>13, StepPairs
<1>10. CASE Rollback(h)
    BY <1>10, RollbackPairs
<1>11. QED
    BY <1>1, <1>6, <1>7, <1>8, <1>9, <1>10, <1>12 DEF ReadLinkedWork

\* The work item follows: it shows the request's status, and the mark is taken off.
LEMMA WriteLinkedWorkPairs ==
    ASSUME PairsInv, NEW h \in Handlers, WriteLinkedWork(h)
    PROVE  PairsInv'
<1>1. PICK c : c = call[h]
    OBVIOUS
<1>2. c.step = "writeWork" /\ CanLockWork(h, c.w) /\ c.w \in Works
    BY <1>1, CallAt DEF WriteLinkedWork, CallOK
<1>3. /\ c \in Call /\ c.r \in Requests /\ c.to \in RequestStatuses
      /\ RequestMoved(h)
      /\ \A r \in Requests : reqLock[r] = h => r = c.r
      /\ \A w \in Works : workLock[w] = h => w = c.w
    BY <1>1, <1>2, RequestMovedIs
<1>4. /\ reqLock[c.r] = h /\ (dirtyReq[c.r].flagged = FALSE)
      /\ dirtyReq[c.r].status = c.to /\ c.w = dirtyReq[c.r].linked
    BY <1>1, <1>3, RowsTyped DEF RequestMoved, PairsInv, RequestRow
<1>5. IInv'
    BY WriteLinkedWorkInvariant DEF PairsInv
<1>6. PICK row : row = VisibleWork(h, c.w)
    OBVIOUS
<1>7. PICK target : target = WorkStatusFor[c.to]
    OBVIOUS
<1>8. PICK new : new = SyncedWork(h)
    OBVIOUS
<1>9. row \in WorkRow
    BY <1>2, <1>6, VisibleTyped DEF PairsInv, IInv
<1>10. /\ new.status = target /\ (new.flagged = FALSE) /\ new.source = row.source
       /\ new.completed = Completed(row.completed, c.seenWork.status, target)
    BY <1>1, <1>6, <1>7, <1>8, <1>9 DEF SyncedWork, WorkRow
<1>15. dirtyWork[c.w].source = c.r /\ WorkThere(h, c.w)
    BY <1>2, <1>3, <1>4, LinkedIsThere
<1>11. Clean /\ Marked /\ Free(c.w) => MarkOK(new)
  <2>1. SUFFICES ASSUME Clean, Marked, Free(c.w) PROVE MarkOK(new)
    OBVIOUS
  <2>2. IsDone(c.seenWork) <=> IsDone(row)
    BY <1>1, <1>2, <1>6, <1>15, <2>1, CallAt DEF ReadStands, Free
  <2>3. MarkOK(row)
    BY <1>2, <1>6, <2>1 DEF Marked, VisibleWork
  <2>4. QED
    BY <1>10, <2>2, <2>3 DEF MarkOK, IsDone, Completed
<1>12. CASE ~WorkRefused(h, c.w, new)
  <2>1. /\ WriteWork(h, c.w, new) /\ ReqUntouched /\ GotoCommit(h)
        /\ Uncommitted
    BY <1>1, <1>8, <1>12, <1>15 DEF WriteLinkedWork, UpdateWorkById, NothingCommitted, Uncommitted
  <2>2. /\ reqLock' = reqLock /\ dirtyReq' = dirtyReq
        /\ workLock'[c.w] = h /\ dirtyWork'[c.w] = new
        /\ \A w \in Works : workLock'[w] = h => w = c.w
    BY <1>2, <1>3, <2>1 DEF WriteWork, ReqUntouched, PairsInv, IInv, TypeOK
  <2>3. new \in WorkRow
    BY <1>2, <1>5, <2>2 DEF IInv, TypeOK
  <2>4. KeepsReqLinks(h) /\ KeepsWorkLinks(h)
    BY <1>2, <1>6, <1>10, <1>11, <2>1, <2>3 DEF KeepsReqLinks, KeepsWorkLinks
  <2>5. PairOK(dirtyReq[c.r], new)
    BY <1>4, <1>7, <1>10 DEF PairOK, Agree
  <2>6. RequestSettled(h, c.r)'
    BY <1>2, <1>4, <2>2, <2>5, IdsAssumption DEF RequestSettled, PairOK, Agree
  <2>7. ASSUME NEW r \in Requests, NEW w \in Works,
               w = c.w, w = req[r].linked, reqLock'[r] # h
        PROVE  FALSE
    <3>1. r = c.r
      BY <1>3, <1>4, <2>7, IdsAssumption, LinkedOnce DEF PairsInv
    <3>2. QED
      BY <1>4, <2>2, <2>7, <3>1
  <2>8. QED
    BY <1>1, <1>3, <1>5, <2>1, <2>2, <2>4, <2>6, <2>7, ToCommitPairs
<1>13. CASE WorkRefused(h, c.w, new)
    BY <1>1, <1>8, <1>13, RollbackPairs DEF WriteLinkedWork
<1>14. QED
    BY <1>12, <1>13

\* A call that moves a work item holds it, and no other and no request.
LEMMA WorkMovedIs ==
    ASSUME PairsInv, NEW h \in Handlers, call[h].step \in {"readRequest", "writeRequest"}
    PROVE  LET c == call[h] IN
           /\ c \in Call /\ c.w \in Works /\ c.to \in WorkStatuses
           /\ c.r \in Requests \union {None}
           /\ WorkMoved(h)
           /\ \A r \in Requests : reqLock[r] # h
           /\ \A w \in Works : workLock[w] = h => w = c.w
BY CallAt DEF CallOK, CallKnows, HoldsItsRows

\* A request that agrees with its work item by the map of work items agrees with it
\* by the map of requests.
LEMMA ShowsTheSame ==
    ASSUME PairsInv, NEW r \in Requests, r \notin loose, req[r].linked # None,
           ~work[req[r].linked].flagged
    PROVE  /\ ~req[r].flagged
           /\ WorkStatusFor[req[r].status] = work[req[r].linked].status
<1>1. PICK w : w = req[r].linked
    OBVIOUS
<1>2. w \in Works /\ req[r] \in RequestRow /\ work[w] \in WorkRow
    BY <1>1, RowsTyped DEF PairsInv
<1>3. PairOK(req[r], work[w])
    BY <1>1 DEF PairsInv, Paired
<1>4. QED
    BY <1>1, <1>2, <1>3, AgreeIs DEF PairOK

\* syncFromWorkItemWithin: what it ends with, and what it goes on with.
LEMMA ReadSourceRequestPairs ==
    ASSUME PairsInv, NEW h \in Handlers, ReadSourceRequest(h)
    PROVE  PairsInv'
<1>1. PICK c : c = call[h]
    OBVIOUS
<1>2. /\ c.step = "readRequest" /\ Uncommitted
      /\ KeepsReqLinks(h) /\ KeepsWorkLinks(h)
      /\ reqLock' = reqLock /\ dirtyReq' = dirtyReq
      /\ workLock' = workLock /\ dirtyWork' = dirtyWork
    BY <1>1 DEF ReadSourceRequest, NothingWritten, KeepsReqLinks, KeepsWorkLinks,
                ReqUntouched, WorkUntouched, NothingCommitted, Uncommitted
<1>3. /\ c \in Call /\ c.w \in Works /\ c.to \in WorkStatuses
      /\ c.r \in Requests \union {None} /\ WorkMoved(h)
      /\ \A r \in Requests : reqLock[r] # h
      /\ \A w \in Works : workLock[w] = h => w = c.w
    BY <1>1, <1>2, WorkMovedIs
<1>4. /\ workLock[c.w] = h /\ work[c.w].version > 0
      /\ ~work[c.w].flagged /\ ~dirtyWork[c.w].flagged
      /\ dirtyWork[c.w].status = c.to /\ c.r = work[c.w].source
    BY <1>1, <1>3 DEF WorkMoved
<1>5. IInv'
    BY ReadSourceRequestInvariant DEF PairsInv
<1>6. PICK row : row = VisibleReq(h, c.r)
    OBVIOUS
<1>7. c.r \in Requests => row = req[c.r]
    BY <1>3, <1>6 DEF VisibleReq
<1>8. PICK target : target = RequestStatusFor[c.to]
    OBVIOUS
<1>9. CASE /\ GotoCommit(h)
           /\ \/ c.r # None => ~LoadsRequest(c.r)
              \/ c.r # None /\ row.status = target
  <2>1. ASSUME NEW r \in Requests, c.w = req[r].linked, r \notin loose
        PROVE  dirtyWork[c.w].status = work[c.w].status
    <3>1. r = c.r /\ r # None
      BY <1>3, <1>4, <2>1, IdsAssumption DEF PairsInv, LinksOK, LinksMatch
    <3>2. req[r].version > 0
      BY <1>3, <1>4, <3>1, IdsAssumption DEF PairsInv, LinksOK, RowsThere
    <3>3. row.status = target
      BY <1>9, <3>1, <3>2, RowsTyped DEF LoadsRequest, PairsInv
    <3>4. WorkStatusFor[req[r].status] = work[c.w].status
      BY <1>3, <1>4, <2>1, IdsAssumption, ShowsTheSame
    <3>5. WorkStatusFor[target] = c.to
      BY <1>3, <1>8, StatusesMatch
    <3>6. QED
      BY <1>4, <1>7, <3>1, <3>3, <3>4, <3>5
  <2>2. ASSUME NEW r \in Requests, NEW w \in Works, w = c.w, w = req[r].linked, r \notin loose
        PROVE  WorkSettled(w)'
    BY <1>2, <1>4, <2>1, <2>2 DEF WorkSettled, Uncommitted
  <2>3. QED
    BY <1>1, <1>2, <1>3, <1>5, <1>9, <2>2, ToCommitPairs DEF Uncommitted
<1>10. CASE /\ c.r # None
            /\ call' = [call EXCEPT ![h].seenReq = row,
                           ![h].step = SyncStep(RequestEdges, row.status, target, "writeRequest")]
  <2>1. PICK s : s = SyncStep(RequestEdges, row.status, target, "writeRequest")
    OBVIOUS
  <2>2. /\ s \in {"writeRequest", "flagRequest"}
        /\ s = "writeRequest" => EdgeExists(RequestEdges, row.status, target)
    BY <2>1 DEF SyncStep
  <2>3. PICK d : d = [c EXCEPT !.seenReq = row, !.step = s]
    OBVIOUS
  <2>4. d.step = s /\ d.r = c.r /\ d.w = c.w /\ d.to = c.to /\ d.seenReq = row
    BY <1>3, <2>3 DEF Call
  <2>5. call' = [call EXCEPT ![h] = d] /\ call'[h] = d
    BY <1>1, <1>10, <2>1, <2>3, CallAt
  <2>6. HoldsItsRows(h)'
    BY <1>2, <1>3, <2>2, <2>4, <2>5 DEF HoldsItsRows
  <2>7. WorkMoved(h)' /\ Related(h)'
    BY <1>2, <1>4, <2>4, <2>5 DEF WorkMoved, Related, Uncommitted
  <2>8. CallKnows(h)'
    BY <2>2, <2>4, <2>5, <2>7 DEF CallKnows
  <2>9. c.r \in Requests
    BY <1>3, <1>10
  <2>10. StepStands(h)'
    BY <1>2, <1>7, <1>8, <2>2, <2>4, <2>5, <2>9 DEF StepStands, Uncommitted
  <2>11. ReadStands(h)'
    BY <1>2, <1>7, <2>2, <2>4, <2>5, <2>9 DEF ReadStands, Uncommitted
  <2>12. QED
    BY <1>2, <1>5, <2>2, <2>4, <2>5, <2>6, <2>8, <2>10, <2>11, StepPairs
<1>11. QED
    BY <1>1, <1>6, <1>8, <1>9, <1>10 DEF ReadSourceRequest

\* The request follows: its status is one the work item's comes from.
LEMMA WriteSourceRequestPairs ==
    ASSUME PairsInv, NEW h \in Handlers, WriteSourceRequest(h)
    PROVE  PairsInv'
<1>1. PICK c : c = call[h]
    OBVIOUS
<1>2. c.step = "writeRequest" /\ CanLockReq(h, c.r) /\ c.r \in Requests
    BY <1>1, CallAt DEF WriteSourceRequest, CallOK
<1>3. /\ c \in Call /\ c.w \in Works /\ c.to \in WorkStatuses /\ WorkMoved(h)
      /\ \A r \in Requests : reqLock[r] # h
      /\ \A w \in Works : workLock[w] = h => w = c.w
    BY <1>1, <1>2, WorkMovedIs
<1>4. /\ workLock[c.w] = h /\ (dirtyWork[c.w].flagged = FALSE)
      /\ dirtyWork[c.w].status = c.to /\ c.r = work[c.w].source
    BY <1>1, <1>3, RowsTyped DEF WorkMoved, PairsInv, WorkRow
<1>5. IInv'
    BY WriteSourceRequestInvariant DEF PairsInv
<1>6. VisibleReq(h, c.r) = req[c.r] /\ req[c.r] \in RequestRow
    BY <1>2, <1>3, RowsTyped DEF VisibleReq, PairsInv
<1>7. PICK target : target = RequestStatusFor[c.to]
    OBVIOUS
<1>8. PICK new : new = SyncedRequest(h)
    OBVIOUS
<1>9. /\ new.status = target /\ (new.flagged = FALSE) /\ new.linked = req[c.r].linked
      /\ new.completed = Completed(req[c.r].completed, c.seenReq.status, target)
    BY <1>1, <1>6, <1>7, <1>8 DEF SyncedRequest, RequestRow
<1>14. RequestThere(h, c.r)
  <2>1. work[c.w].source = c.r /\ c.r # None
    BY <1>2, <1>4, IdsAssumption
  <2>2. req[c.r].version > 0
    BY <1>3, <2>1 DEF PairsInv, LinksOK, RowsThere
  <2>3. QED
    BY <1>6, <2>2 DEF RequestThere
<1>10. Clean /\ Marked /\ c.r \notin loose => MarkOK(new)
  <2>1. SUFFICES ASSUME Clean, Marked, c.r \notin loose PROVE MarkOK(new)
    OBVIOUS
  <2>2. IsDone(c.seenReq) <=> IsDone(req[c.r])
    BY <1>1, <1>2, <2>1, CallAt DEF ReadStands
  <2>3. MarkOK(req[c.r])
    BY <1>2, <2>1 DEF Marked
  <2>4. QED
    BY <1>9, <2>2, <2>3 DEF MarkOK, IsDone, Completed
<1>11. CASE ~RequestRefused(h, c.r, new)
  <2>1. /\ WriteReq(h, c.r, new) /\ WorkUntouched /\ GotoCommit(h)
        /\ Uncommitted
    BY <1>1, <1>8, <1>11, <1>14 DEF WriteSourceRequest, UpdateReqById, NothingCommitted, Uncommitted
  <2>2. /\ workLock' = workLock /\ dirtyWork' = dirtyWork
        /\ reqLock'[c.r] = h /\ dirtyReq'[c.r] = new
        /\ \A r \in Requests : reqLock'[r] = h => r = c.r
    BY <1>2, <1>3, <2>1 DEF WriteReq, WorkUntouched, PairsInv, IInv, TypeOK
  <2>3. new \in RequestRow
    BY <1>2, <1>5, <2>2 DEF IInv, TypeOK
  <2>4. KeepsReqLinks(h) /\ KeepsWorkLinks(h)
    BY <1>2, <1>6, <1>9, <1>10, <2>1, <2>3 DEF KeepsReqLinks, KeepsWorkLinks
  <2>5. PairOK(new, dirtyWork[c.w])
    <3>1. WorkStatusFor[target] = c.to
      BY <1>3, <1>7, StatusesMatch
    <3>2. QED
      BY <1>4, <1>9, <3>1 DEF PairOK, Agree
  <2>6. ASSUME c.r \notin loose' PROVE RequestSettled(h, c.r)'
    <3>1. c.w = req[c.r].linked
      BY <1>2, <1>3, <1>4, <2>1, <2>6 DEF Uncommitted, PairsInv, LinksOK, SoleWorks, SoleWork
    <3>2. QED
      BY <1>3, <1>4, <1>9, <2>2, <2>5, <3>1, IdsAssumption DEF RequestSettled, PairOK, Agree
  <2>7. ASSUME NEW r \in Requests, NEW w \in Works,
               w = c.w, w = req[r].linked, reqLock'[r] # h
        PROVE  FALSE
    <3>1. r = c.r
      BY <1>3, <1>4, <2>7, IdsAssumption DEF PairsInv, LinksOK, LinksMatch
    <3>2. QED
      BY <2>2, <2>7, <3>1
  <2>8. QED
    BY <1>1, <1>3, <1>5, <2>1, <2>2, <2>4, <2>6, <2>7, ToCommitPairs
<1>12. CASE RequestRefused(h, c.r, new)
    BY <1>1, <1>8, <1>12, RollbackPairs DEF WriteSourceRequest
<1>13. QED
    BY <1>11, <1>12

-----------------------------------------------------------------------------
(* flagConflict.                                                           *)

\* What a call holds keeps both rows of a conflict where they are.
LEMMA RelatedAreThere ==
    ASSUME PairsInv, NEW h \in Handlers, Related(h),
           call[h].r \in Requests, call[h].w \in Works
    PROVE  LET c == call[h] IN
           /\ RequestThere(h, c.r) /\ WorkThere(h, c.w)
           /\ c.r \notin loose => c.w = dirtyReq[c.r].linked
<1> DEFINE c == call[h]
<1>1. CASE reqLock[c.r] = h /\ c.w = dirtyReq[c.r].linked
  <2>1. dirtyReq[c.r].version > 0
    BY <1>1, IdsAssumption DEF PairsInv, IInv, RowsOK
  <2>2. QED
    BY <1>1, <2>1, LinkedIsThere DEF RequestThere, VisibleReq
<1>2. CASE workLock[c.w] = h /\ work[c.w].version > 0 /\ work[c.w].source = c.r
  <2>1. c.r # None /\ req[c.r].version > 0
    BY <1>2, IdsAssumption DEF PairsInv, LinksOK, RowsThere
  <2>2. RequestThere(h, c.r) /\ WorkThere(h, c.w)
    BY <1>2, <2>1, VisibleVersions DEF PairsInv, RequestThere, WorkThere
  <2>3. ASSUME c.r \notin loose PROVE c.w = dirtyReq[c.r].linked
    <3>1. c.w = req[c.r].linked
      BY <1>2, <2>3 DEF PairsInv, LinksOK, SoleWorks, SoleWork
    <3>2. QED
      BY <3>1, IdsAssumption DEF PairsInv, LinksOK, DirtyLinksMatch, HasMadeWork
  <2>4. QED
    BY <2>2, <2>3
<1>3. QED
    BY <1>1, <1>2 DEF Related

\* The request is marked; the call goes on to the work item.
LEMMA FlagRequestPairs ==
    ASSUME PairsInv, NEW h \in Handlers, FlagRequest(h)
    PROVE  PairsInv'
<1>1. PICK c : c = call[h]
    OBVIOUS
<1>2. c.step = "flagRequest" /\ c.r \in Requests /\ c.w \in Works /\ c \in Call
    BY <1>1, CallAt DEF FlagRequest, CallOK
<1>3. Related(h)
    BY <1>1, <1>2, CallAt DEF CallKnows
<1>20. /\ CanLockReq(h, c.r) /\ Uncommitted
       /\ WriteReq(h, c.r, Flagged(VisibleReq(h, c.r))) /\ WorkUntouched /\ Goto(h, "flagWork")
    BY <1>1, <1>2, <1>3, RelatedAreThere
       DEF FlagRequest, UpdateReqById, NothingCommitted, Uncommitted
<1>4. IInv'
    BY FlagRequestInvariant DEF PairsInv
<1>5. PICK row : row = VisibleReq(h, c.r)
    OBVIOUS
<1>6. row \in RequestRow
    BY <1>2, <1>5, VisibleTyped DEF PairsInv, IInv
<1>7. PICK new : new = Flagged(row)
    OBVIOUS
<1>8. /\ new.flagged /\ new.linked = row.linked
      /\ new.completed = row.completed /\ new.status = row.status
    BY <1>6, <1>7 DEF Flagged, RequestRow
<1>9. /\ reqLock'[c.r] = h /\ dirtyReq'[c.r] = new
      /\ \A r \in Requests : r # c.r => reqLock'[r] = reqLock[r]
      /\ workLock' = workLock
    BY <1>2, <1>5, <1>7, <1>20 DEF WriteReq, WorkUntouched, PairsInv, IInv, TypeOK
<1>10. new \in RequestRow
    BY <1>2, <1>4, <1>9 DEF IInv, TypeOK
<1>11. Clean /\ Marked /\ c.r \notin loose => MarkOK(new)
    BY <1>2, <1>5, <1>8 DEF Marked, MarkOK, IsDone, VisibleReq
<1>12. KeepsReqLinks(h) /\ KeepsWorkLinks(h)
    BY <1>2, <1>5, <1>7, <1>8, <1>10, <1>11, <1>20 DEF KeepsReqLinks, KeepsWorkLinks
<1>13. PICK d : d = [c EXCEPT !.step = "flagWork"]
    OBVIOUS
<1>14. d.step = "flagWork" /\ d.r = c.r /\ d.w = c.w
    BY <1>2, <1>13 DEF Call
<1>15. call' = [call EXCEPT ![h] = d] /\ call'[h] = d
    BY <1>1, <1>20, <1>13, CallAt DEF Goto
<1>16. HoldsItsRows(h)
    BY CallAt
<1>17. HoldsItsRows(h)'
    BY <1>1, <1>2, <1>9, <1>14, <1>15, <1>16 DEF HoldsItsRows
<1>18. Related(h)'
    BY <1>1, <1>2, <1>3, <1>5, <1>8, <1>9, <1>14, <1>15, <1>20 DEF Related, VisibleReq, Uncommitted
<1>19. CallKnows(h)' /\ StepStands(h)' /\ ReadStands(h)'
    BY <1>8, <1>9, <1>14, <1>15, <1>18 DEF CallKnows, StepStands, ReadStands
<1>21. QED
    BY <1>20, <1>4, <1>12, <1>14, <1>15, <1>17, <1>19, StepPairs

\* Both are marked.
LEMMA FlagWorkPairs ==
    ASSUME PairsInv, NEW h \in Handlers, FlagWork(h)
    PROVE  PairsInv'
<1>1. PICK c : c = call[h]
    OBVIOUS
<1>2. c.step = "flagWork" /\ c.r \in Requests /\ c.w \in Works /\ c \in Call
    BY <1>1, CallAt DEF FlagWork, CallOK
<1>3. /\ Related(h) /\ reqLock[c.r] = h /\ dirtyReq[c.r].flagged
    BY <1>1, <1>2, CallAt DEF CallKnows
<1>20. /\ CanLockWork(h, c.w) /\ Uncommitted
       /\ WriteWork(h, c.w, Flagged(VisibleWork(h, c.w))) /\ ReqUntouched /\ GotoCommit(h)
    BY <1>1, <1>2, <1>3, RelatedAreThere
       DEF FlagWork, UpdateWorkById, NothingCommitted, Uncommitted
<1>4. IInv'
    BY FlagWorkInvariant DEF PairsInv
<1>5. PICK row : row = VisibleWork(h, c.w)
    OBVIOUS
<1>6. row \in WorkRow
    BY <1>2, <1>5, VisibleTyped DEF PairsInv, IInv
<1>7. PICK new : new = Flagged(row)
    OBVIOUS
<1>8. /\ new.flagged = TRUE /\ new.source = row.source
      /\ new.completed = row.completed /\ new.status = row.status
    BY <1>6, <1>7 DEF Flagged, WorkRow
<1>9. /\ \A r \in Requests : reqLock[r] = h => r = c.r
      /\ \A w \in Works : workLock[w] = h => w = c.w
    BY <1>1, <1>2, CallAt DEF HoldsItsRows
<1>10. /\ reqLock' = reqLock /\ dirtyReq' = dirtyReq
       /\ workLock'[c.w] = h /\ dirtyWork'[c.w] = new
       /\ \A w \in Works : workLock'[w] = h => w = c.w
    BY <1>2, <1>5, <1>7, <1>9, <1>20 DEF WriteWork, ReqUntouched, PairsInv, IInv, TypeOK
<1>11. new \in WorkRow
    BY <1>2, <1>4, <1>10 DEF IInv, TypeOK
<1>12. Clean /\ Marked /\ Free(c.w) => MarkOK(new)
    BY <1>2, <1>5, <1>8 DEF Marked, MarkOK, IsDone, VisibleWork
<1>13. KeepsReqLinks(h) /\ KeepsWorkLinks(h)
    BY <1>2, <1>5, <1>7, <1>8, <1>11, <1>12, <1>20 DEF KeepsReqLinks, KeepsWorkLinks
<1>15. dirtyReq[c.r].flagged = TRUE
    BY <1>2, <1>3, RowsTyped DEF PairsInv, RequestRow
<1>16. ASSUME c.r \notin loose' PROVE RequestSettled(h, c.r)'
  <2>1. c.w = dirtyReq[c.r].linked
    BY <1>1, <1>2, <1>3, <1>16, <1>20, RelatedAreThere DEF Uncommitted
  <2>2. QED
    BY <1>2, <1>8, <1>10, <1>15, <2>1, IdsAssumption DEF RequestSettled, PairOK
<1>17. ASSUME NEW r \in Requests, NEW w \in Works,
              w = c.w, w = req[r].linked, reqLock'[r] # h
       PROVE  FALSE
  <2>1. CASE work[c.w].source = c.r
    <3>1. r = c.r
      BY <1>17, <2>1, IdsAssumption DEF PairsInv, LinksOK, LinksMatch
    <3>2. QED
      BY <1>3, <1>10, <1>17, <3>1
  <2>2. CASE c.w = dirtyReq[c.r].linked
    <3>1. r = c.r
      BY <1>2, <1>17, <2>2, IdsAssumption, LinkedOnce DEF PairsInv
    <3>2. QED
      BY <1>3, <1>10, <1>17, <3>1
  <2>3. QED
    BY <1>1, <1>3, <2>1, <2>2 DEF Related
<1>18. QED
    BY <1>1, <1>2, <1>20, <1>4, <1>9, <1>10, <1>13, <1>16, <1>17, ToCommitPairs

-----------------------------------------------------------------------------
(* resolveSyncConflict.                                                    *)

\* A call that resolves holds at most its request, and knows the linked work item unless
\* one of the two has gone; a request that is not there is gone.
LEMMA ResolveIs ==
    ASSUME PairsInv, NEW h \in Handlers,
           call[h].step \in {"resolveNotes", "resolveLoad", "resolveRequest", "resolveWork"}
    PROVE  LET c == call[h] IN
           /\ c \in Call /\ c.r \in Requests /\ c.to \in RequestStatuses
           /\ c.w \in Works \union {None}
           /\ req[c.r] # NoRequest
           /\ c.w # None => c.w = req[c.r].linked \/ Cut(c)
           /\ \A r \in Requests : reqLock[r] = h => r = c.r
           /\ \A w \in Works : workLock[w] # h
           /\ dirtyReq[c.r].linked = req[c.r].linked \/ reqLock[c.r] # h
           /\ req[c.r] \in RequestRow /\ VisibleReq(h, c.r) \in RequestRow
           /\ VisibleReq(h, c.r).linked = req[c.r].linked
           /\ ~RequestThere(h, c.r) => reqLock[c.r] # h /\ req[c.r] = GoneRequest
           /\ reqLock[c.r] = h => req[c.r] # GoneRequest
<1> DEFINE c == call[h]
<1>1. /\ c \in Call /\ c.r \in Requests /\ c.to \in RequestStatuses
      /\ c.w \in Works \union {None}
      /\ req[c.r] # NoRequest
      /\ c.w # None => c.w = req[c.r].linked \/ Cut(c)
      /\ \A r \in Requests : reqLock[r] = h => r = c.r
      /\ \A w \in Works : workLock[w] # h
    BY CallAt DEF CallOK, CallKnows, HoldsItsRows
<1>2. dirtyReq[c.r].linked = req[c.r].linked \/ reqLock[c.r] # h
    BY <1>1 DEF PairsInv, LinksOK, DirtyLinksMatch, HasMadeWork
<1>3. req[c.r] \in RequestRow /\ VisibleReq(h, c.r) \in RequestRow
    BY <1>1, RowsTyped, VisibleTyped DEF PairsInv, IInv
<1>4. VisibleReq(h, c.r).linked = req[c.r].linked
    BY <1>2 DEF VisibleReq
<1>5. reqLock[c.r] = h => dirtyReq[c.r].version > 0 /\ req[c.r] # GoneRequest
    BY <1>1, IdsAssumption DEF PairsInv, IInv, RowsOK
<1>6. ~RequestThere(h, c.r) => reqLock[c.r] # h /\ req[c.r] = GoneRequest
  <2>1. SUFFICES ASSUME ~RequestThere(h, c.r)
                 PROVE  reqLock[c.r] # h /\ req[c.r] = GoneRequest
    OBVIOUS
  <2>2. reqLock[c.r] # h /\ ~(req[c.r].version > 0)
    BY <1>5, <2>1 DEF RequestThere, VisibleReq
  <2>3. req[c.r].version = 0
    BY <1>1, <2>2, RowsTyped DEF PairsInv
  <2>4. QED
    BY <1>1, <2>2, <2>3 DEF PairsInv, LinksOK, RowsThere
<1>7. QED
    BY <1>1, <1>2, <1>3, <1>4, <1>5, <1>6

\* The notes are written, if there are any.
LEMMA WriteResolveNotesPairs ==
    ASSUME PairsInv, NEW h \in Handlers, WriteResolveNotes(h)
    PROVE  PairsInv'
<1>1. PICK c : c = call[h]
    OBVIOUS
<1>2. c.step = "resolveNotes"
    BY <1>1 DEF WriteResolveNotes
<1>3. /\ c \in Call /\ c.r \in Requests
      /\ req[c.r] # NoRequest
      /\ c.w # None => c.w = req[c.r].linked \/ Cut(c)
      /\ \A r \in Requests : reqLock[r] # h
      /\ \A w \in Works : workLock[w] # h
      /\ VisibleReq(h, c.r) \in RequestRow
      /\ ~RequestThere(h, c.r) => req[c.r] = GoneRequest
      /\ c.body \in Bodies
    BY <1>1, <1>2, ResolveIs, CallAt DEF CallKnows, HoldsItsRows
<1>4. IInv'
    BY WriteResolveNotesInvariant DEF PairsInv
<1>5. PICK d : d = [c EXCEPT !.step = "resolveLoad"]
    OBVIOUS
<1>6. d.step = "resolveLoad" /\ d.r = c.r /\ d.w = c.w
    BY <1>3, <1>5 DEF Call
<1>7. Goto(h, "resolveLoad") => call' = [call EXCEPT ![h] = d] /\ call'[h] = d
    BY <1>1, <1>5, CallAt DEF Goto
<1>12. Uncommitted => (Cut(c)' <=> Cut(c)) /\ (Cut(d) <=> Cut(c))
    BY <1>6 DEF Cut, Uncommitted
<1>8. CASE /\ Goto(h, "resolveLoad") /\ NothingWritten /\ NothingCommitted
           /\ c.body = NoBody \/ req[c.r] = GoneRequest
  <2>1. /\ Goto(h, "resolveLoad") /\ Uncommitted
        /\ reqLock' = reqLock /\ workLock' = workLock
        /\ KeepsReqLinks(h) /\ KeepsWorkLinks(h)
    BY <1>8 DEF NothingWritten, ReqUntouched, WorkUntouched, NothingCommitted, Uncommitted,
                KeepsReqLinks, KeepsWorkLinks
  <2>2. HoldsItsRows(h)'
    BY <1>3, <2>1 DEF HoldsItsRows
  <2>4. CallKnows(h)' /\ StepStands(h)'
    BY <1>3, <1>6, <1>7, <1>12, <2>1 DEF CallKnows, StepStands, Uncommitted, Cut
  <2>5. (Clean => ReadStands(h))'
    BY <1>3, <1>6, <1>7, <1>8, <2>1 DEF Clean, ReadStands, Uncommitted
  <2>6. QED
    BY <1>4, <1>6, <1>7, <2>1, <2>2, <2>4, <2>5, StepPairs
<1>9. CASE /\ CanLockReq(h, c.r) /\ WriteReq(h, c.r, NotedRequest(h)) /\ WorkUntouched
           /\ Goto(h, "resolveLoad") /\ NothingCommitted
  <2>1. PICK new : new = NotedRequest(h)
    OBVIOUS
  <2>2. /\ Goto(h, "resolveLoad") /\ Uncommitted
        /\ CanLockReq(h, c.r) /\ WriteReq(h, c.r, new) /\ WorkUntouched
    BY <1>9, <2>1 DEF NothingCommitted, Uncommitted
  <2>3. PICK row : row = VisibleReq(h, c.r)
    OBVIOUS
  <2>4. new.linked = row.linked /\ new.status = row.status /\ new.completed = row.completed
    BY <1>1, <1>3, <2>1, <2>3 DEF NotedRequest, RequestRow
  <2>5. reqLock'[c.r] = h /\ dirtyReq'[c.r] = new /\ workLock' = workLock
        /\ \A r \in Requests : reqLock'[r] = h => r = c.r
    BY <1>3, <2>2 DEF WriteReq, WorkUntouched, PairsInv, IInv, TypeOK
  <2>6. new \in RequestRow
    BY <1>3, <1>4, <2>5 DEF IInv, TypeOK
  <2>7. Clean /\ Marked /\ c.r \notin loose => MarkOK(new)
    BY <1>3, <2>3, <2>4 DEF Marked, MarkOK, IsDone, VisibleReq
  <2>8. KeepsReqLinks(h) /\ KeepsWorkLinks(h)
    BY <1>3, <2>2, <2>3, <2>4, <2>6, <2>7 DEF KeepsReqLinks, KeepsWorkLinks
  <2>9. HoldsItsRows(h)'
    BY <1>3, <1>6, <1>7, <2>2, <2>5 DEF HoldsItsRows
  <2>11. CallKnows(h)' /\ StepStands(h)' /\ ReadStands(h)'
    BY <1>3, <1>6, <1>7, <1>12, <2>2, <2>5
       DEF CallKnows, StepStands, ReadStands, Uncommitted, Cut
  <2>12. QED
    BY <1>4, <1>6, <1>7, <2>2, <2>8, <2>9, <2>11, StepPairs
<1>10. CASE Rollback(h)
    BY <1>10, RollbackPairs
<1>11. QED
    BY <1>1, <1>3, <1>8, <1>9, <1>10
       DEF WriteResolveNotes, UpdateReqById, NothingWritten

\* The pair is read: a request that is locked, and its work item.
LEMMA LoadPairPairs ==
    ASSUME PairsInv, NEW h \in Handlers, LoadPair(h)
    PROVE  PairsInv'
<1>1. PICK c : c = call[h]
    OBVIOUS
<1>2. c.step = "resolveLoad"
    BY <1>1 DEF LoadPair
<1>3. /\ c \in Call /\ c.r \in Requests /\ c.w \in Works \union {None}
      /\ req[c.r] # NoRequest
      /\ c.w # None => c.w = req[c.r].linked \/ Cut(c)
      /\ \A r \in Requests : reqLock[r] = h => r = c.r
      /\ \A w \in Works : workLock[w] # h
      /\ ~RequestThere(h, c.r) => reqLock[c.r] # h
    BY <1>1, <1>2, ResolveIs
<1>4. IInv'
    BY LoadPairInvariant DEF PairsInv
<1>5. PICK row : row = IF LoadsWork(h) THEN VisibleWork(h, c.w) ELSE NoWork
    OBVIOUS
<1>6. PICK seen : seen = VisibleReq(h, c.r)
    OBVIOUS
<1>10. PICK v : v = IF LoadsWork(h) THEN c.w ELSE None
    OBVIOUS
<1>11. v \in {c.w, None} /\ (v # None => row = VisibleWork(h, c.w))
    BY <1>5, <1>10
<1>7. CASE /\ RequestThere(h, c.r)
           /\ call' = [call EXCEPT ![h].step = "resolveRequest", ![h].w = v,
                                   ![h].seenReq = seen, ![h].seenWork = row]
           /\ NothingWritten /\ NothingCommitted
  <2>1. /\ reqLock' = reqLock /\ dirtyReq' = dirtyReq /\ workLock' = workLock
        /\ KeepsReqLinks(h) /\ KeepsWorkLinks(h) /\ Uncommitted
    BY <1>7 DEF NothingWritten, ReqUntouched, WorkUntouched, KeepsReqLinks, KeepsWorkLinks,
                NothingCommitted, Uncommitted
  <2>2. PICK d : d = [c EXCEPT !.step = "resolveRequest", !.w = v,
                               !.seenReq = seen, !.seenWork = row]
    OBVIOUS
  <2>3. /\ d.step = "resolveRequest" /\ d.r = c.r /\ d.w = v
        /\ d.seenReq = seen /\ d.seenWork = row
    BY <1>3, <2>2 DEF Call
  <2>4. call' = [call EXCEPT ![h] = d] /\ call'[h] = d
    BY <1>1, <1>7, <2>2, CallAt
  <2>5. HoldsItsRows(h)'
    BY <1>3, <2>1, <2>3, <2>4 DEF HoldsItsRows
  <2>6. req'[c.r] # NoRequest /\ (v # None => v = req'[c.r].linked \/ Cut(d)')
    BY <1>3, <1>11, <2>1, <2>3 DEF Cut, Uncommitted
  <2>7. CallKnows(h)' /\ StepStands(h)'
    BY <2>3, <2>4, <2>6 DEF CallKnows, StepStands, Cut
  <2>8. ASSUME Clean PROVE ReadStands(h)'
    <3>1. reqLock[c.r] = h
      <4>1. reqLock[c.r] = h \/ req[c.r] = GoneRequest
        BY <1>1, <1>2, <2>8, CallAt DEF ReadStands
      <4>2. GoneRequest.version = 0
        BY DEF GoneRequest, NoRequest
      <4>3. QED
        BY <1>7, <4>1, <4>2 DEF RequestThere, VisibleReq
    <3>2. seen = dirtyReq[c.r] /\ (v # None => v = c.w /\ row = work[c.w])
      BY <1>3, <1>6, <1>11, <3>1 DEF VisibleReq, VisibleWork
    <3>3. /\ reqLock'[c.r] = h /\ seen = dirtyReq'[c.r]
          /\ v # None => row = work'[v]
      BY <2>1, <3>1, <3>2 DEF Uncommitted
    <3>4. QED
      BY <2>3, <2>4, <3>3 DEF ReadStands
  <2>10. Clean' <=> Clean
    BY DEF Clean
  <2>9. QED
    BY <1>4, <1>7, <2>1, <2>3, <2>4, <2>5, <2>7, <2>8, <2>10, StepPairs
<1>8. CASE Rollback(h)
    BY <1>8, RollbackPairs
<1>12. CASE ~RequestThere(h, c.r) /\ GotoCommit(h) /\ NothingWritten /\ NothingCommitted
  <2>1. /\ reqLock' = reqLock /\ dirtyReq' = dirtyReq /\ workLock' = workLock
        /\ KeepsReqLinks(h) /\ KeepsWorkLinks(h) /\ Uncommitted
    BY <1>12 DEF NothingWritten, ReqUntouched, WorkUntouched, KeepsReqLinks, KeepsWorkLinks,
                 NothingCommitted, Uncommitted
  <2>2. (\A r \in Requests : reqLock'[r] # h) /\ (\A w \in Works : workLock'[w] # h)
    BY <1>3, <1>12, <2>1
  <2>3. QED
    BY <1>4, <1>12, <2>1, <2>2, ToCommitPairs
<1>9. QED
    BY <1>1, <1>5, <1>6, <1>7, <1>8, <1>10, <1>12 DEF LoadPair

\* The request takes the chosen status, and its mark is taken off.
LEMMA WriteResolvedRequestPairs ==
    ASSUME PairsInv, NEW h \in Handlers, WriteResolvedRequest(h)
    PROVE  PairsInv'
<1>1. PICK c : c = call[h]
    OBVIOUS
<1>2. c.step = "resolveRequest" /\ CanLockReq(h, c.r)
    BY <1>1 DEF WriteResolvedRequest
<1>3. /\ c \in Call /\ c.r \in Requests /\ c.to \in RequestStatuses
      /\ c.w \in Works \union {None}
      /\ req[c.r] # NoRequest
      /\ c.w # None => c.w = req[c.r].linked \/ Cut(c)
      /\ \A r \in Requests : reqLock[r] = h => r = c.r
      /\ \A w \in Works : workLock[w] # h
      /\ VisibleReq(h, c.r) \in RequestRow
      /\ VisibleReq(h, c.r).linked = req[c.r].linked
      /\ ~RequestThere(h, c.r) => reqLock[c.r] # h /\ req[c.r] = GoneRequest
    BY <1>1, <1>2, ResolveIs
<1>4. IInv'
    BY WriteResolvedRequestInvariant DEF PairsInv
<1>5. PICK row : row = VisibleReq(h, c.r)
    OBVIOUS
<1>6. PICK new : new = ResolvedRequest(h)
    OBVIOUS
<1>7. /\ new.status = c.to /\ (new.flagged = FALSE) /\ new.linked = row.linked
      /\ new.completed = Completed(row.completed, c.seenReq.status, c.to)
    BY <1>1, <1>3, <1>5, <1>6 DEF ResolvedRequest, RequestRow
<1>8. ASSUME Clean PROVE ReadStands(h)
    BY <1>8, CallAt
<1>9. Clean /\ Marked /\ c.r \notin loose => MarkOK(new)
  <2>1. SUFFICES ASSUME Clean, Marked, c.r \notin loose PROVE MarkOK(new)
    OBVIOUS
  <2>2. reqLock[c.r] = h /\ (IsDone(c.seenReq) <=> IsDone(dirtyReq[c.r]))
    BY <1>1, <1>2, <1>8, <2>1 DEF ReadStands
  <2>3. row = dirtyReq[c.r] /\ MarkOK(row)
    BY <1>3, <1>5, <2>1, <2>2 DEF Marked, VisibleReq
  <2>4. QED
    BY <1>7, <2>2, <2>3 DEF MarkOK, IsDone, Completed
<1>10. CASE RequestRefused(h, c.r, new)
    BY <1>1, <1>6, <1>10, RollbackPairs DEF WriteResolvedRequest
<1>20. PICK d : d = [c EXCEPT !.step = "resolveWork"]
    OBVIOUS
<1>21. /\ d.step = "resolveWork" /\ d.r = c.r /\ d.w = c.w /\ d.to = c.to
       /\ d.seenWork = c.seenWork
    BY <1>3, <1>20 DEF Call
<1>22. Goto(h, "resolveWork") => call' = [call EXCEPT ![h] = d] /\ call'[h] = d
    BY <1>1, <1>20, CallAt DEF Goto
<1>23. Clean' <=> Clean
    BY DEF Clean
<1>11. CASE ~RequestRefused(h, c.r, new)
  <2>1. /\ UpdateReqById(h, c.r, new) /\ WorkUntouched /\ Uncommitted
        /\ IF c.w = None THEN GotoCommit(h) ELSE Goto(h, "resolveWork")
        /\ row.linked \notin {None, c.w} => c.r \in loose'
    BY <1>1, <1>5, <1>6, <1>11 DEF WriteResolvedRequest, Uncommitted
  <2>10. /\ req'[c.r] # NoRequest
         /\ c.w # None => c.w = req'[c.r].linked \/ Cut(d)'
    BY <1>3, <1>21, <2>1 DEF Uncommitted, Cut
  <2>2. CASE RequestThere(h, c.r)
    <3>1. WriteReq(h, c.r, new)
      BY <2>1, <2>2 DEF UpdateReqById
    <3>2. /\ reqLock'[c.r] = h /\ dirtyReq'[c.r] = new /\ workLock' = workLock
          /\ \A r \in Requests : reqLock'[r] = h => r = c.r
      BY <1>3, <2>1, <3>1 DEF WriteReq, WorkUntouched, PairsInv, IInv, TypeOK
    <3>3. new \in RequestRow
      BY <1>3, <1>4, <3>2 DEF IInv, TypeOK
    <3>4. KeepsReqLinks(h) /\ KeepsWorkLinks(h)
      BY <1>2, <1>3, <1>5, <1>7, <1>9, <2>1, <3>1, <3>3 DEF KeepsReqLinks, KeepsWorkLinks
    <3>5. CASE c.w = None
      <4>1. c.r \notin loose' => RequestSettled(h, c.r)'
        BY <1>7, <2>1, <3>2, <3>5 DEF RequestSettled
      <4>2. QED
        BY <1>1, <1>3, <1>4, <2>1, <3>2, <3>4, <3>5, <4>1, ToCommitPairs
    <3>6. CASE c.w # None
      <4>1. call' = [call EXCEPT ![h] = d] /\ call'[h] = d
        BY <1>22, <2>1, <3>6
      <4>2. HoldsItsRows(h)'
        BY <1>3, <3>2, <1>21, <4>1 DEF HoldsItsRows
      <4>3. c.r \notin loose' => req'[c.r].linked \in {None, c.w}
        BY <1>3, <1>5, <2>1 DEF Uncommitted
      <4>4. CallKnows(h)' /\ StepStands(h)'
        BY <1>7, <1>21, <2>10, <3>2, <4>1, <4>3 DEF CallKnows, StepStands, Cut
      <4>5. (Clean => ReadStands(h))'
        <5>1. SUFFICES ASSUME Clean PROVE ReadStands(h)'
          BY <1>23
        <5>2. c.w = req[c.r].linked /\ c.r \notin loose =>
                 (IsDone(c.seenWork) <=> IsDone(work[c.w]))
          BY <1>1, <1>2, <1>8, <3>6, <5>1 DEF ReadStands
        <5>3. c.w = req'[c.r].linked /\ c.r \notin loose' =>
                 (IsDone(c.seenWork) <=> IsDone(work'[c.w]))
          BY <2>1, <5>2 DEF Uncommitted
        <5>4. QED
          BY <1>21, <3>2, <4>1, <5>3 DEF ReadStands, IsDone
      <4>6. QED
        BY <1>4, <1>21, <2>1, <3>4, <4>1, <4>2, <4>4, <4>5, StepPairs
    <3>7. QED
      BY <3>5, <3>6
  <2>3. CASE ~RequestThere(h, c.r)
    <3>1. ReqUntouched /\ reqLock[c.r] # h /\ req[c.r] = GoneRequest
      BY <1>3, <2>1, <2>3 DEF UpdateReqById
    <3>2. /\ reqLock' = reqLock /\ workLock' = workLock
          /\ KeepsReqLinks(h) /\ KeepsWorkLinks(h)
      BY <2>1, <3>1 DEF ReqUntouched, WorkUntouched, KeepsReqLinks, KeepsWorkLinks
    <3>3. (\A r \in Requests : reqLock'[r] # h) /\ (\A w \in Works : workLock'[w] # h)
      BY <1>3, <3>1, <3>2
    <3>4. CASE c.w = None
      BY <1>4, <2>1, <3>2, <3>3, <3>4, ToCommitPairs
    <3>5. CASE c.w # None
      <4>1. call' = [call EXCEPT ![h] = d] /\ call'[h] = d
        BY <1>22, <2>1, <3>5
      <4>2. HoldsItsRows(h)'
        BY <3>3 DEF HoldsItsRows
      <4>3. req'[c.r] = GoneRequest
        BY <2>1, <3>1 DEF Uncommitted
      <4>4. CallKnows(h)' /\ StepStands(h)'
        BY <1>21, <2>10, <4>1, <4>3 DEF CallKnows, StepStands, Cut
      <4>5. ~Clean
        BY <1>1, <1>2, <1>8, <3>1 DEF ReadStands
      <4>6. QED
        BY <1>4, <1>21, <1>23, <2>1, <3>2, <4>1, <4>2, <4>4, <4>5, StepPairs
    <3>6. QED
      BY <3>4, <3>5
  <2>4. QED
    BY <2>2, <2>3
<1>12. QED
    BY <1>10, <1>11

\* And the work item the one that goes with it.
LEMMA WriteResolvedWorkPairs ==
    ASSUME PairsInv, NEW h \in Handlers, WriteResolvedWork(h)
    PROVE  PairsInv'
<1>1. PICK c : c = call[h]
    OBVIOUS
<1>2. c.step = "resolveWork" /\ CanLockWork(h, c.w) /\ c.w \in Works
    BY <1>1, CallAt DEF WriteResolvedWork, CallOK
<1>3. /\ c \in Call /\ c.r \in Requests /\ c.to \in RequestStatuses /\ c.w # None
      /\ c.w = req[c.r].linked \/ Cut(c)
      /\ \A r \in Requests : reqLock[r] = h => r = c.r
      /\ \A w \in Works : workLock[w] # h
      /\ dirtyReq[c.r].linked = req[c.r].linked \/ reqLock[c.r] # h
      /\ reqLock[c.r] = h => req[c.r] # GoneRequest
    BY <1>1, <1>2, ResolveIs, IdsAssumption
<1>4. \/ req[c.r] = GoneRequest /\ reqLock[c.r] # h
      \/ /\ reqLock[c.r] = h /\ dirtyReq[c.r].status = c.to /\ (dirtyReq[c.r].flagged = FALSE)
         /\ c.r \notin loose => req[c.r].linked \in {None, c.w}
    BY <1>1, <1>2, <1>3, CallAt, RowsTyped DEF CallKnows, PairsInv, RequestRow
<1>5. IInv'
    BY WriteResolvedWorkInvariant DEF PairsInv
<1>6. VisibleWork(h, c.w) = work[c.w] /\ work[c.w] \in WorkRow
    BY <1>2, <1>3, RowsTyped DEF VisibleWork, PairsInv
<1>7. PICK target : target = WorkStatusFor[c.to]
    OBVIOUS
<1>8. PICK new : new = ResolvedWork(h)
    OBVIOUS
<1>9. /\ new.status = target /\ (new.flagged = FALSE) /\ new.source = work[c.w].source
      /\ new.completed = Completed(work[c.w].completed, c.seenWork.status, target)
    BY <1>1, <1>6, <1>7, <1>8 DEF ResolvedWork, WorkRow
\* A work item that is there but no longer its request's: nobody is linked to it.
<1>20. WorkThere(h, c.w) /\ c.w # req[c.r].linked =>
          req[c.r] = GoneRequest /\ \A r \in Requests : req[r].linked # c.w
  <2>1. SUFFICES ASSUME WorkThere(h, c.w), c.w # req[c.r].linked
                 PROVE  req[c.r] = GoneRequest /\ \A r \in Requests : req[r].linked # c.w
    OBVIOUS
  <2>2. GoneWork.version = 0
    BY DEF GoneWork, NoWork
  <2>3. req[c.r] = GoneRequest /\ work[c.w].source = None
    BY <1>3, <1>6, <2>1, <2>2 DEF Cut, WorkThere
  <2>4. QED
    BY <1>3, <2>3, IdsAssumption DEF PairsInv, LinksOK, LinksMatch
<1>10. WorkThere(h, c.w) /\ Clean /\ Marked /\ Free(c.w) => MarkOK(new)
  <2>1. SUFFICES ASSUME WorkThere(h, c.w), Clean, Marked, Free(c.w) PROVE MarkOK(new)
    OBVIOUS
  <2>2. ReadStands(h)
    BY <2>1, CallAt
  <2>3. reqLock[c.r] = h
    BY <1>1, <1>2, <2>2 DEF ReadStands
  <2>4. c.w = req[c.r].linked
    BY <1>3, <1>20, <2>1, <2>3
  <2>5. work[c.w].version > 0 /\ work[c.w].source = c.r
    BY <1>3, <2>4 DEF PairsInv, LinksOK, LinksMatch
  <2>6. c.r \notin loose
    BY <1>2, <2>1, <2>5 DEF PairsInv, LinksOK, DirtyLinksMatch, Free
  <2>7. IsDone(c.seenWork) <=> IsDone(work[c.w])
    BY <1>1, <1>2, <1>3, <2>2, <2>4, <2>6 DEF ReadStands
  <2>8. MarkOK(work[c.w])
    BY <1>2, <2>1 DEF Marked
  <2>9. QED
    BY <1>9, <2>7, <2>8 DEF MarkOK, IsDone, Completed
<1>11. CASE ~WorkRefused(h, c.w, new) /\ WorkThere(h, c.w)
  <2>1. /\ WriteWork(h, c.w, new) /\ ReqUntouched /\ GotoCommit(h) /\ Uncommitted
    BY <1>1, <1>8, <1>11 DEF WriteResolvedWork, UpdateWorkById, NothingCommitted, Uncommitted
  <2>2. /\ reqLock' = reqLock /\ dirtyReq' = dirtyReq
        /\ workLock'[c.w] = h /\ dirtyWork'[c.w] = new
        /\ \A w \in Works : workLock'[w] = h => w = c.w
    BY <1>2, <1>3, <2>1 DEF WriteWork, ReqUntouched, PairsInv, IInv, TypeOK
  <2>3. new \in WorkRow
    BY <1>2, <1>5, <2>2 DEF IInv, TypeOK
  <2>4. KeepsReqLinks(h) /\ KeepsWorkLinks(h)
    BY <1>2, <1>6, <1>9, <1>10, <1>11, <2>1, <2>3 DEF KeepsReqLinks, KeepsWorkLinks
  <2>5. CASE c.w = req[c.r].linked
    <3>1. req[c.r] # GoneRequest
      BY <1>3, <2>5 DEF GoneRequest, NoRequest
    <3>2. PairOK(dirtyReq[c.r], new)
      BY <1>4, <1>7, <1>9, <3>1 DEF PairOK, Agree
    <3>3. RequestSettled(h, c.r)'
      BY <1>2, <1>3, <1>4, <2>2, <2>5, <3>1, <3>2 DEF RequestSettled, PairOK, Agree
    <3>4. ASSUME NEW r \in Requests, NEW w \in Works,
                 w = c.w, w = req[r].linked, reqLock'[r] # h
          PROVE  FALSE
      <4>1. r = c.r
        BY <1>3, <2>5, <3>4, LinkedOnce DEF PairsInv
      <4>2. QED
        BY <1>4, <2>2, <3>1, <3>4, <4>1
    <3>5. QED
      BY <1>1, <1>3, <1>5, <2>1, <2>2, <2>4, <3>3, <3>4, ToCommitPairs
  <2>6. CASE c.w # req[c.r].linked
    <3>1. req[c.r] = GoneRequest /\ \A r \in Requests : req[r].linked # c.w
      BY <1>11, <1>20, <2>6
    <3>2. \A r \in Requests : reqLock'[r] # h
      BY <1>3, <2>2, <3>1
    <3>3. QED
      BY <1>1, <1>5, <2>1, <2>2, <2>4, <3>1, <3>2, ToCommitPairs
  <2>7. QED
    BY <2>5, <2>6
<1>14. CASE ~WorkThere(h, c.w)
  <2>1. /\ WorkUntouched /\ ReqUntouched /\ GotoCommit(h) /\ Uncommitted
    BY <1>1, <1>14 DEF WriteResolvedWork, UpdateWorkById, WorkRefused, NothingCommitted, Uncommitted
  <2>2. /\ reqLock' = reqLock /\ dirtyReq' = dirtyReq
        /\ \A w \in Works : workLock'[w] # h
        /\ KeepsReqLinks(h) /\ KeepsWorkLinks(h)
    BY <1>3, <2>1 DEF WorkUntouched, ReqUntouched, KeepsReqLinks, KeepsWorkLinks
  <2>3. c.w # req[c.r].linked
    BY <1>3, <1>6, <1>14 DEF WorkThere, PairsInv, LinksOK, LinksMatch
  <2>4. reqLock[c.r] = h /\ c.r \notin loose => dirtyReq[c.r].linked = None
    BY <1>3, <1>4, <2>3
  <2>5. c.r \notin loose' /\ reqLock'[c.r] = h => RequestSettled(h, c.r)'
    BY <2>1, <2>2, <2>4 DEF Uncommitted, RequestSettled
  <2>6. QED
    BY <1>1, <1>3, <1>5, <2>1, <2>2, <2>5, ToCommitPairs
<1>12. CASE WorkRefused(h, c.w, new)
    BY <1>1, <1>8, <1>12, RollbackPairs DEF WriteResolvedWork
<1>13. QED
    BY <1>11, <1>12, <1>14

-----------------------------------------------------------------------------
(* Commit: what the transaction holds becomes what everybody sees.         *)

\* The rows by then, and who still holds one.
CommitStep(h) ==
    /\ call[h].step = "commit" /\ call'[h] = Idle
    /\ \A g \in Handlers : g # h => call'[g] = call[g]
    /\ dirtyReq' = dirtyReq /\ dirtyWork' = dirtyWork /\ loose' = loose
    /\ \A r \in Requests :
          IF reqLock[r] = h THEN reqLock'[r] = None /\ req'[r] = dirtyReq[r]
          ELSE reqLock'[r] = reqLock[r] /\ req'[r] = req[r]
    /\ \A w \in Works :
          IF workLock[w] = h THEN workLock'[w] = None /\ work'[w] = dirtyWork[w]
          ELSE workLock'[w] = workLock[w] /\ work'[w] = work[w]

\* What a commit does, row by row.
LEMMA CommitIs ==
    ASSUME IInv, NEW h \in Handlers, Commit(h)
    PROVE  CommitStep(h)
BY IdsAssumption DEF IInv, TypeOK, Commit, ReleaseLocks, VisibleReq, VisibleWork, CommitStep

\* A request that is linked stays linked as it is, a work item keeps its source, and
\* what is gone stays gone: nobody has locked it.
LEMMA CommitLinks ==
    ASSUME PairsInv, NEW h \in Handlers, CommitStep(h)
    PROVE  /\ \A r \in Requests :
                 \/ req'[r].linked = req[r].linked
                 \/ reqLock[r] = h /\ HasMadeWork(r, dirtyReq[r].linked)
           /\ \A w \in Works : work[w].version > 0 =>
                 work'[w].version > 0 /\ work'[w].source = work[w].source
           /\ \A r \in Requests : /\ req[r] = GoneRequest => req'[r] = GoneRequest
                                  /\ reqLock[r] = h => req'[r].version > 0
                                  /\ req[r].version > 0 => req'[r].version > 0
           /\ \A w \in Works : /\ work[w] = GoneWork => work'[w] = GoneWork
                               /\ workLock[w] = h => work'[w].version > 0
<1>1. \A r \in Requests :
         \/ req'[r].linked = req[r].linked
         \/ reqLock[r] = h /\ HasMadeWork(r, dirtyReq[r].linked)
    BY DEF PairsInv, LinksOK, DirtyLinksMatch, CommitStep
<1>2. ASSUME NEW w \in Works, work[w].version > 0
      PROVE  work'[w].version > 0 /\ work'[w].source = work[w].source
  <2>1. dirtyWork[w].source = work[w].source
    BY <1>2 DEF PairsInv, LinksOK, DirtyLinksMatch
  <2>2. workLock[w] = h => dirtyWork[w].version > work[w].version
    BY IdsAssumption DEF PairsInv, IInv, RowsOK
  <2>3. work[w].version \in Nat /\ dirtyWork[w].version \in Nat
    BY RowsTyped DEF PairsInv
  <2>4. QED
    BY <1>2, <2>1, <2>2, <2>3 DEF CommitStep
<1>3. \A r \in Requests : reqLock[r] = h => req[r] # GoneRequest /\ dirtyReq[r].version > 0
    BY IdsAssumption DEF PairsInv, IInv, RowsOK
<1>4. \A w \in Works : workLock[w] = h => work[w] # GoneWork /\ dirtyWork[w].version > 0
    BY IdsAssumption, RowsTyped DEF PairsInv, IInv, RowsOK
<1>5. QED
    BY <1>1, <1>2, <1>3, <1>4 DEF CommitStep

\* The links that are committed, and those to come.
LEMMA CommitKeepsLinks ==
    ASSUME PairsInv, NEW h \in Handlers, CommitStep(h), IInv'
    PROVE  LinksOK' /\ (Clean => Marked)'
<1>1. h # None
    BY IdsAssumption
<1>2. RowsThere'
  <2>1. \A r \in Requests : req'[r].version = 0 => req'[r] \in {NoRequest, GoneRequest}
    BY CommitLinks DEF PairsInv, LinksOK, RowsThere, CommitStep
  <2>2. \A w \in Works : work'[w].version = 0 => work'[w] \in {NoWork, GoneWork}
    BY CommitLinks DEF PairsInv, LinksOK, RowsThere, CommitStep
  <2>3. ASSUME NEW w \in Works, NEW r, r = work'[w].source, r # None
        PROVE  req'[r].version > 0
    <3>1. r \in Requests
      BY <2>3, RowsTyped DEF PairsInv, WorkRow, CommitStep
    <3>2. CASE work[w].source = r
      BY <2>3, <3>1, <3>2, CommitLinks DEF PairsInv, LinksOK, RowsThere
    <3>3. CASE work[w].source # r
      <4>1. workLock[w] = h /\ dirtyWork[w].source = r
        BY <2>3, <3>3 DEF CommitStep
      <4>2. work[w].version = 0
        BY <3>3, <4>1, RowsTyped DEF PairsInv, LinksOK, DirtyLinksMatch
      <4>3. reqLock[r] = h
        BY <2>3, <4>1, <4>2 DEF PairsInv, LinksOK, MadeForRequests
      <4>4. QED
        BY <3>1, <4>3, CommitLinks
    <3>4. QED
      BY <3>2, <3>3
  <2>4. QED
    BY <2>1, <2>2, <2>3 DEF RowsThere
<1>3. LinksMatch'
  <2>1. SUFFICES ASSUME NEW r \in Requests, req'[r].linked # None
                 PROVE  work'[req'[r].linked].version > 0 /\ work'[req'[r].linked].source = r
    BY DEF LinksMatch
  <2>2. PICK w : w = req'[r].linked
    OBVIOUS
  <2>3. CASE w = req[r].linked
    <3>1. w \in Works
      BY <2>1, <2>2, <2>3, RowsTyped DEF PairsInv
    <3>2. work[w].version > 0 /\ work[w].source = r
      BY <2>1, <2>2, <2>3 DEF PairsInv, LinksOK, LinksMatch
    <3>3. QED
      BY <2>2, <3>1, <3>2, CommitLinks
  <2>4. CASE reqLock[r] = h /\ HasMadeWork(r, dirtyReq[r].linked)
    <3>1. w = dirtyReq[r].linked
      BY <2>2, <2>4 DEF CommitStep
    <3>2. w \in Works /\ workLock[w] = h /\ work[w].version = 0 /\ dirtyWork[w].source = r
      BY <2>4, <3>1 DEF HasMadeWork
    <3>3. dirtyWork[w].version > 0
      BY <1>1, <3>2 DEF PairsInv, IInv, RowsOK
    <3>4. QED
      BY <2>2, <3>2, <3>3 DEF CommitStep
  <2>5. QED
    BY <2>2, <2>3, <2>4, CommitLinks
<1>4. DirtyLinksMatch'
  <2>1. ASSUME NEW r \in Requests
        PROVE  (dirtyReq[r].linked = req[r].linked \/ HasMadeWork(r, dirtyReq[r].linked))'
    <3>1. CASE reqLock[r] = h
      BY <3>1 DEF CommitStep
    <3>2. CASE reqLock[r] # h /\ dirtyReq[r].linked = req[r].linked
      BY <3>2 DEF CommitStep
    <3>3. CASE reqLock[r] # h /\ HasMadeWork(r, dirtyReq[r].linked)
      BY <3>3 DEF CommitStep, HasMadeWork
    <3>4. QED
      BY <3>1, <3>2, <3>3 DEF PairsInv, LinksOK, DirtyLinksMatch
  <2>2. ASSUME NEW w \in Works, work'[w].version > 0
        PROVE  dirtyWork'[w].source = work'[w].source
    BY <2>2 DEF CommitStep, PairsInv, LinksOK, DirtyLinksMatch
  <2>3. QED
    BY <2>1, <2>2 DEF DirtyLinksMatch
<1>5. MadeForRequests'
  <2>1. SUFFICES ASSUME NEW w \in Works, NEW r, r = dirtyWork'[w].source,
                        work'[w].version = 0, r # None
                 PROVE  workLock'[w] # None /\ reqLock'[r] = workLock'[w] /\ dirtyReq'[r].linked = w
    BY DEF MadeForRequests
  <2>2. work'[w].source = None
    BY <1>2, <2>1 DEF RowsThere, NoWork, GoneWork
  <2>3. workLock[w] # h /\ work[w].version = 0 /\ dirtyWork[w].source = r /\ r \in Requests
    BY <2>1, <2>2, RowsTyped DEF CommitStep, PairsInv, WorkRow
  <2>4. workLock[w] # None /\ reqLock[r] = workLock[w] /\ dirtyReq[r].linked = w
    BY <2>1, <2>3 DEF PairsInv, LinksOK, MadeForRequests
  <2>5. QED
    BY <2>3, <2>4 DEF CommitStep
<1>6. (Clean => Marked)'
  <2>1. SUFFICES ASSUME Clean PROVE Marked'
    BY DEF Clean
  <2>2. Marked
    BY <2>1 DEF PairsInv
  <2>3. \A w \in Works : Free(w)' <=> Free(w)
    BY DEF Free, CommitStep
  <2>4. QED
    BY <2>2, <2>3 DEF Marked, MarkOK, IsDone, CommitStep
<1>8. SoleWorks'
  <2>1. SUFFICES ASSUME NEW r \in Requests, r \notin loose, NEW w \in Works, work'[w].source = r
                 PROVE  w = req'[r].linked
    BY DEF SoleWorks, SoleWork, CommitStep
  <2>2. r # None /\ w # None
    BY IdsAssumption
  <2>3. CASE work[w].source = r
    <3>1. w = req[r].linked
      BY <2>1, <2>3 DEF PairsInv, LinksOK, SoleWorks, SoleWork
    <3>2. QED
      BY <2>2, <3>1, CommitLinks DEF HasMadeWork
  <2>4. CASE work[w].source # r
    <3>1. workLock[w] = h /\ dirtyWork[w].source = r
      BY <2>1, <2>4 DEF CommitStep
    <3>2. work[w].version = 0
      BY <2>4, <3>1, RowsTyped DEF PairsInv, LinksOK, DirtyLinksMatch
    <3>3. reqLock[r] = h /\ dirtyReq[r].linked = w
      BY <2>2, <3>1, <3>2 DEF PairsInv, LinksOK, MadeForRequests
    <3>4. QED
      BY <3>3 DEF CommitStep
  <2>5. QED
    BY <2>3, <2>4
<1>7. QED
    BY <1>2, <1>3, <1>4, <1>5, <1>6, <1>8 DEF LinksOK

\* The pairs that are committed: of one that is held in part, the other row goes with it.
LEMMA CommitKeepsPairs ==
    ASSUME PairsInv, NEW h \in Handlers, CommitStep(h)
    PROVE  Paired'
<1>1. SUFFICES ASSUME NEW r \in Requests, r \notin loose, req'[r].linked # None
               PROVE  PairOK(req[r], work[req[r].linked])'
    BY DEF Paired, CommitStep
<1>2. r \notin loose
    BY <1>1
<1>3. req[r].linked # None => PairOK(req[r], work[req[r].linked])
    BY <1>2 DEF PairsInv, Paired
<1>4. Settled(h) /\ call[h].step = "commit"
    BY DEF PairsInv, Local, CommitStep
<1>5. /\ req[r].linked \in Works \union {None} /\ dirtyReq[r].linked \in Works \union {None}
      /\ req[r] \in RequestRow /\ dirtyReq[r] \in RequestRow
    BY RowsTyped DEF PairsInv
<1>6. CASE reqLock[r] = h
  <2>1. RequestSettled(h, r) /\ req'[r] = dirtyReq[r]
    BY <1>2, <1>4, <1>6 DEF Settled, CommitStep
  <2>2. dirtyReq[r].linked # None
    BY <1>1, <2>1
  <2>3. CASE dirtyReq[r].linked # None /\ workLock[dirtyReq[r].linked] = h
    BY <1>5, <2>1, <2>3 DEF RequestSettled, CommitStep, PairOK, Agree
  <2>4. CASE dirtyReq[r].linked # None /\ workLock[dirtyReq[r].linked] # h
    <3>1. PICK w : w = dirtyReq[r].linked
      OBVIOUS
    <3>2. w \in Works /\ work'[w] = work[w] /\ work[w] \in WorkRow
      BY <1>5, <2>4, <3>1, RowsTyped DEF CommitStep, PairsInv
    <3>3. MovedUnseen(r)
      BY <2>1, <2>4 DEF RequestSettled
    <3>4. (dirtyReq[r].flagged = FALSE) /\ (work[w].flagged = FALSE)
      BY <1>1, <1>3, <1>5, <2>4, <3>1, <3>2, <3>3 DEF MovedUnseen, PairOK, RequestRow, WorkRow
    <3>5. WorkStatusFor[dirtyReq[r].status] = work[w].status
      BY <3>1, <3>3 DEF MovedUnseen
    <3>6. PairOK(req[r], work[req[r].linked])'
      BY <2>1, <3>1, <3>2, <3>4, <3>5 DEF PairOK, Agree
    <3>7. QED
      BY <2>1, <2>4, <3>6
  <2>5. QED
    BY <2>2, <2>3, <2>4
<1>7. CASE reqLock[r] # h
  <2>1. req'[r] = req[r]
    BY <1>7 DEF CommitStep
  <2>2. req[r].linked # None
    BY <1>1, <2>1
  <2>3. CASE req[r].linked # None /\ workLock[req[r].linked] # h
    <3>1. work'[req[r].linked] = work[req[r].linked]
      BY <1>5, <2>3 DEF CommitStep
    <3>2. QED
      BY <1>3, <2>1, <2>3, <3>1 DEF PairOK, Agree
  <2>4. CASE req[r].linked # None /\ workLock[req[r].linked] = h
    <3>1. PICK w : w = req[r].linked
      OBVIOUS
    <3>2. /\ w \in Works /\ work'[w] = dirtyWork[w]
          /\ work[w] \in WorkRow /\ dirtyWork[w] \in WorkRow
      BY <1>5, <2>4, <3>1, RowsTyped DEF CommitStep, PairsInv
    <3>3. WorkSettled(w)
      BY <1>2, <1>4, <1>7, <2>4, <3>1 DEF Settled
    <3>4. (dirtyWork[w].flagged = work[w].flagged) /\ dirtyWork[w].status = work[w].status
      BY <3>2, <3>3 DEF WorkSettled, WorkRow
    <3>5. QED
      BY <1>3, <2>1, <2>4, <3>1, <3>2, <3>4 DEF PairOK, Agree
  <2>5. QED
    BY <2>2, <2>3, <2>4
<1>8. QED
    BY <1>6, <1>7

\* What a commit may change in a row somebody else goes by: a work item whose request
\* another call holds shows the status it showed; and a request whose work item another
\* call holds has moved along an edge the work item does not show.
LEMMA CommitUnseen ==
    ASSUME PairsInv, NEW h \in Handlers, CommitStep(h), NEW r \in Requests, r \notin loose
    PROVE  /\ \A w \in Works : w = req[r].linked /\ reqLock[r] # h =>
                 /\ work'[w].status = work[w].status
                 /\ workLock[w] = h => WorkSettled(w)
           /\ \A w \in Works :
                 w = req'[r].linked /\ workLock[w] # h /\ reqLock[r] = h /\ ~work[w].flagged =>
                 /\ WorkStatusFor[req[r].status] = WorkStatusFor[req'[r].status]
                 /\ EdgeExists(RequestEdges, req[r].status, req'[r].status)
<1>1. Settled(h) /\ call[h].step = "commit"
    BY DEF PairsInv, Local, CommitStep
<1>2. ASSUME NEW w \in Works, w = req[r].linked, reqLock[r] # h
      PROVE  /\ work'[w].status = work[w].status
             /\ workLock[w] = h => WorkSettled(w)
  <2>1. w # None
    BY IdsAssumption
  <2>2. workLock[w] = h => WorkSettled(w)
    BY <1>1, <1>2, <2>1 DEF Settled
  <2>3. QED
    BY <2>2 DEF WorkSettled, CommitStep
<1>3. ASSUME NEW w \in Works, w = req'[r].linked, workLock[w] # h, reqLock[r] = h,
             ~work[w].flagged
      PROVE  /\ WorkStatusFor[req[r].status] = WorkStatusFor[req'[r].status]
             /\ EdgeExists(RequestEdges, req[r].status, req'[r].status)
  <2>1. w # None /\ req'[r] = dirtyReq[r] /\ w = dirtyReq[r].linked
    BY <1>3, IdsAssumption DEF CommitStep
  <2>2. MovedUnseen(r)
    BY <1>1, <1>3, <2>1 DEF Settled, RequestSettled
  <2>3. w = req[r].linked
    BY <2>1, <2>2 DEF MovedUnseen
  <2>4. WorkStatusFor[req[r].status] = work[w].status
    BY <1>3, <2>1, <2>3, ShowsTheSame
  <2>5. QED
    BY <2>1, <2>2, <2>4 DEF MovedUnseen
<1>4. QED
    BY <1>2, <1>3

\* What another call knows survives a commit.
LEMMA CommitOthersKnow ==
    ASSUME PairsInv, NEW h \in Handlers, CommitStep(h), NEW g \in Handlers, g # h
    PROVE  HoldsItsRows(g)' /\ CallKnows(g)' /\ Settled(g)'
<1>1. PICK c : c = call[g]
    OBVIOUS
<1>2. c \in Call /\ CallOK(c) /\ call'[g] = c /\ g # None /\ h # None
    BY <1>1, CallTyped, IdsAssumption DEF CommitStep, PairsInv
<1>3. c.w \in Works \union {None} /\ c.r \in Requests \union {None}
    BY <1>2 DEF Call
<1>4. /\ \A r \in Requests : /\ reqLock'[r] = g <=> reqLock[r] = g
                             /\ reqLock[r] = g => req'[r] = req[r] /\ dirtyReq'[r] = dirtyReq[r]
      /\ \A w \in Works : /\ workLock'[w] = g <=> workLock[w] = g
                          /\ workLock[w] = g => work'[w] = work[w] /\ dirtyWork'[w] = dirtyWork[w]
    BY <1>2 DEF CommitStep
<1>5. HoldsItsRows(g) /\ CallKnows(g) /\ Settled(g)
    BY DEF PairsInv, Local
<1>6. /\ loose' = loose
      /\ \A r \in Requests : req[r].linked # None => req'[r].linked = req[r].linked
      /\ \A w \in Works : work[w].version > 0 =>
            work'[w].version > 0 /\ work'[w].source = work[w].source
      /\ \A r \in Requests : req[r] = GoneRequest => req'[r] = GoneRequest
      /\ \A w \in Works : work[w] = GoneWork => work'[w] = GoneWork
      /\ \A r \in Requests : req[r] # NoRequest => req'[r] # NoRequest
  <2>1. NoRequest.version = 0
    BY DEF NoRequest
  <2>2. \A r \in Requests : req[r] # NoRequest => req'[r] # NoRequest
    BY <2>1, CommitLinks DEF CommitStep
  <2>3. QED
    BY <2>2, CommitLinks DEF HasMadeWork, CommitStep
<1>7. HoldsItsRows(g)'
    BY <1>2, <1>4, <1>5 DEF HoldsItsRows, CommitStep
<1>8. CallKnows(g)'
  <2>1. c.step \in {"readWork", "writeWork"} => RequestMoved(g)'
    BY <1>1, <1>2, <1>3, <1>4, <1>5 DEF CallKnows, CallOK, RequestMoved
  <2>2. c.step \in {"readRequest", "writeRequest"} => WorkMoved(g)'
    BY <1>1, <1>2, <1>4, <1>5 DEF CallKnows, CallOK, WorkMoved
  <2>3. c.step \in {"flagRequest", "flagWork"} => Related(g)'
    BY <1>1, <1>2, <1>4, <1>5, <1>6 DEF CallKnows, CallOK, Related
  <2>4. c.step \in {"resolveNotes", "resolveLoad", "resolveRequest", "resolveWork"} =>
           /\ req'[c.r] # NoRequest
           /\ c.w # None => c.w = req'[c.r].linked \/ Cut(c)'
    <3>1. SUFFICES ASSUME c.step \in {"resolveNotes", "resolveLoad", "resolveRequest", "resolveWork"}
                   PROVE  /\ req'[c.r] # NoRequest
                          /\ c.w # None => c.w = req'[c.r].linked \/ Cut(c)'
      OBVIOUS
    <3>2. c.r \in Requests /\ req[c.r] # NoRequest /\ (c.w # None => c.w = req[c.r].linked \/ Cut(c))
      BY <1>1, <1>2, <1>5, <3>1 DEF CallKnows, CallOK
    <3>3. c.w # None /\ Cut(c) => Cut(c)'
      BY <1>3, <1>6, <3>2 DEF Cut
    <3>4. QED
      BY <1>6, <3>2, <3>3
  <2>5. c.step = "resolveWork" =>
           \/ req'[c.r] = GoneRequest
           \/ /\ reqLock'[c.r] = g /\ dirtyReq'[c.r].status = c.to /\ ~dirtyReq'[c.r].flagged
              /\ c.r \notin loose' => req'[c.r].linked \in {None, c.w}
    BY <1>1, <1>2, <1>4, <1>5, <1>6 DEF CallKnows, CallOK
  <2>6. c.step = "flagWork" => reqLock'[c.r] = g /\ dirtyReq'[c.r].flagged
    BY <1>1, <1>2, <1>4, <1>5 DEF CallKnows, CallOK
  <2>7. /\ c.step = "ownRequest" =>
             /\ ~c.seenReq.flagged /\ c.w = c.seenReq.linked
             /\ EdgeExists(RequestEdges, c.seenReq.status, c.to)
        /\ c.step = "ownWork" => ~c.seenWork.flagged /\ c.seenWork.version > 0
        /\ c.step = "resolveNotes" => c.body \in Bodies
    BY <1>1, <1>5 DEF CallKnows
  <2>8. QED
    BY <1>2, <2>1, <2>2, <2>3, <2>4, <2>5, <2>6, <2>7 DEF CallKnows
<1>9. Settled(g)'
  <2>1. SUFFICES ASSUME c.step = "commit", NEW r \in Requests, r \notin loose
                 PROVE  /\ (reqLock[r] = g => RequestSettled(g, r))'
                        /\ (req[r].linked # None /\ workLock[req[r].linked] = g /\ reqLock[r] # g =>
                              WorkSettled(req[r].linked))'
    BY <1>2, <1>6 DEF Settled
  <2>2. r \notin loose
    BY <2>1
  <2>3. /\ reqLock[r] = g => RequestSettled(g, r)
        /\ req[r].linked # None /\ workLock[req[r].linked] = g /\ reqLock[r] # g =>
              WorkSettled(req[r].linked)
    BY <1>1, <1>5, <2>1, <2>2 DEF Settled
  <2>4. req[r].linked \in Works \union {None} /\ dirtyReq[r].linked \in Works \union {None}
    BY RowsTyped DEF PairsInv
  <2>5. ASSUME reqLock[r] = g PROVE RequestSettled(g, r)'
    <3>1. PICK w : w = dirtyReq[r].linked
      OBVIOUS
    <3>2. req'[r] = req[r] /\ dirtyReq'[r] = dirtyReq[r] /\ RequestSettled(g, r)
      BY <1>4, <2>3, <2>5
    <3>3. CASE w = None
      BY <3>1, <3>2, <3>3 DEF RequestSettled
    <3>4. CASE w \in Works /\ workLock[w] = g
      BY <1>2, <1>4, <3>1, <3>2, <3>4, IdsAssumption DEF RequestSettled, PairOK, Agree
    <3>5. CASE w \in Works /\ workLock[w] # g
      <4>1. MovedUnseen(r) /\ workLock'[w] # g /\ w # None
        BY <1>4, <3>1, <3>2, <3>5, IdsAssumption DEF RequestSettled
      <4>2. work'[w].status = work[w].status
        BY <1>2, <2>2, <2>5, <3>1, <3>5, <4>1, CommitUnseen DEF MovedUnseen
      <4>3. MovedUnseen(r)'
        BY <3>1, <3>2, <4>1, <4>2 DEF MovedUnseen
      <4>4. QED
        BY <3>1, <3>2, <4>1, <4>3 DEF RequestSettled
    <3>6. QED
      BY <2>4, <3>1, <3>3, <3>4, <3>5
  <2>6. ASSUME req'[r].linked # None, workLock'[req'[r].linked] = g, reqLock'[r] # g
        PROVE  WorkSettled(req[r].linked)'
    <3>1. PICK w : w = req'[r].linked
      OBVIOUS
    <3>2. w = req[r].linked
      <4>1. CASE reqLock[r] = h /\ HasMadeWork(r, dirtyReq[r].linked)
        BY <1>2, <2>4, <2>6, <3>1, <4>1 DEF HasMadeWork, CommitStep
      <4>2. QED
        BY <3>1, <4>1, CommitLinks
    <3>3. w \in Works /\ workLock[w] = g /\ reqLock[r] # g
      BY <1>4, <2>4, <2>6, <3>1, <3>2
    <3>4. WorkSettled(w)
      BY <2>3, <2>6, <3>1, <3>2, <3>3
    <3>5. WorkSettled(w)'
      BY <1>4, <3>3, <3>4 DEF WorkSettled
    <3>6. QED
      BY <3>1, <3>5 DEF WorkSettled
  <2>7. QED
    BY <1>4, <2>5, <2>6
<1>10. QED
    BY <1>7, <1>8, <1>9

\* And what another call is about to do is still what it decided on.
LEMMA CommitOthersStand ==
    ASSUME PairsInv, NEW h \in Handlers, CommitStep(h), NEW g \in Handlers, g # h
    PROVE  StepStands(g)' /\ (Clean => ReadStands(g))'
<1>1. PICK c : c = call[g]
    OBVIOUS
<1>2. c \in Call /\ CallOK(c) /\ call'[g] = c /\ g # None /\ h # None
    BY <1>1, CallTyped, IdsAssumption DEF CommitStep, PairsInv
<1>3. /\ \A r \in Requests : /\ reqLock'[r] = g <=> reqLock[r] = g
                             /\ reqLock[r] = g => req'[r] = req[r] /\ dirtyReq'[r] = dirtyReq[r]
      /\ \A w \in Works : /\ workLock'[w] = g <=> workLock[w] = g
                          /\ workLock[w] = g => work'[w] = work[w] /\ dirtyWork'[w] = dirtyWork[w]
    BY <1>2 DEF CommitStep
<1>4. /\ loose' = loose /\ (Clean' <=> Clean)
      /\ \A r \in Requests : req[r].linked # None => req'[r].linked = req[r].linked
      /\ \A r \in Requests : req[r] = GoneRequest => req'[r] = GoneRequest
    BY CommitLinks DEF HasMadeWork, CommitStep, Clean
<1>5. CallKnows(g) /\ StepStands(g) /\ (Clean => ReadStands(g))
    BY DEF PairsInv, Local
<1>6. ASSUME c.step = "writeWork", c.r \notin loose
      PROVE  (VisibleWork(g, c.w).status)' = VisibleWork(g, c.w).status
  <2>1. c.r \in Requests /\ c.w \in Works
    BY <1>2, <1>6 DEF CallOK
  <2>2. reqLock[c.r] = g /\ c.w = dirtyReq[c.r].linked
    BY <1>1, <1>5, <1>6 DEF CallKnows, RequestMoved
  <2>3. CASE workLock[c.w] = g
    BY <1>3, <2>1, <2>3 DEF VisibleWork
  <2>4. CASE workLock[c.w] # g
    <3>1. c.w = req[c.r].linked
      BY <2>1, <2>2, <2>4 DEF PairsInv, LinksOK, DirtyLinksMatch, HasMadeWork
    <3>2. work'[c.w].status = work[c.w].status
      BY <1>2, <1>6, <2>1, <2>2, <3>1, CommitUnseen
    <3>3. QED
      BY <1>3, <2>1, <2>4, <3>2 DEF VisibleWork
  <2>5. QED
    BY <2>3, <2>4
<1>7. ASSUME c.step = "writeRequest", c.r \notin loose, req'[c.r] # req[c.r]
      PROVE  /\ WorkStatusFor[req[c.r].status] = WorkStatusFor[req'[c.r].status]
             /\ EdgeExists(RequestEdges, req[c.r].status, req'[c.r].status)
             /\ c.r \in Requests /\ c.to \in WorkStatuses
  <2>1. /\ c.r \in Requests /\ c.w \in Works /\ c.to \in WorkStatuses
        /\ reqLock[c.r] = h
    BY <1>2, <1>4, <1>7 DEF CallOK, CommitStep
  <2>2. /\ workLock[c.w] = g /\ work[c.w].version > 0 /\ ~work[c.w].flagged
        /\ c.r = work[c.w].source
    BY <1>1, <1>5, <1>7 DEF CallKnows, WorkMoved
  <2>3. c.w = req'[c.r].linked
    <3>1. c.w = req[c.r].linked /\ c.w # None
      BY <1>7, <2>1, <2>2, IdsAssumption DEF PairsInv, LinksOK, SoleWorks, SoleWork
    <3>2. QED
      BY <1>4, <2>1, <3>1
  <2>4. QED
    BY <1>2, <1>7, <2>1, <2>2, <2>3, CommitUnseen
<1>8. StepStands(g)'
  <2>1. TableKeepsSteps' <=> TableKeepsSteps
    BY DEF TableKeepsSteps
  <2>2. ASSUME c.step = "writeWork", c.r \notin loose
        PROVE  EdgeExists(WorkEdges, (VisibleWork(g, c.w).status)', WorkStatusFor[c.to])
    BY <1>1, <1>2, <1>4, <1>5, <1>6, <2>2 DEF StepStands, CallOK
  <2>3. ASSUME c.step = "writeRequest", c.r \notin loose, TableKeepsSteps
        PROVE  EdgeExists(RequestEdges, req'[c.r].status, RequestStatusFor[c.to])
    <3>1. EdgeExists(RequestEdges, req[c.r].status, RequestStatusFor[c.to])
      BY <1>1, <1>2, <1>4, <1>5, <2>3 DEF StepStands, CallOK
    <3>2. CASE req'[c.r] = req[c.r]
      BY <3>1, <3>2
    <3>3. CASE req'[c.r] # req[c.r]
      <4>1. PICK e \in RequestEdges : e.from = req[c.r].status /\ e.to = req'[c.r].status
        BY <1>7, <2>3, <3>3 DEF EdgeExists
      <4>2. QED
        BY <1>7, <2>3, <3>1, <3>3, <4>1 DEF TableKeepsSteps
    <3>4. QED
      BY <3>2, <3>3
  <2>4. QED
    BY <1>2, <1>4, <2>1, <2>2, <2>3 DEF StepStands, VisibleWork
<1>9. ASSUME Clean' PROVE ReadStands(g)'
  <2>1. ReadStands(g) /\ Clean
    BY <1>4, <1>5, <1>9
  <2>2. c.step = "writeWork" /\ c.r \notin loose =>
           (IsDone(c.seenWork) <=> IsDone(VisibleWork(g, c.w))')
    BY <1>1, <1>2, <1>6, <2>1 DEF ReadStands, IsDone, CallOK
  <2>3. ASSUME c.step = "writeRequest", c.r \notin loose
        PROVE  IsDone(c.seenReq) <=> IsDone(req'[c.r])
    <3>1. c.r \in Requests
      BY <1>2, <2>3 DEF CallOK
    <3>2. (IsDone(c.seenReq) <=> IsDone(req[c.r]))
      BY <1>1, <2>1, <2>3 DEF ReadStands
    <3>3. CASE req'[c.r] # req[c.r]
      <4>1. WorkStatusFor[req[c.r].status] = WorkStatusFor[req'[c.r].status]
        BY <1>7, <2>1, <2>3, <3>1, <3>3
      <4>2. req[c.r].status \in RequestStatuses /\ req'[c.r].status \in RequestStatuses
        BY <3>1, RowsTyped DEF PairsInv, RequestRow, CommitStep
      <4>3. QED
        BY <3>2, <4>1, <4>2, StatusesMatch DEF IsDone
    <3>4. QED
      BY <3>2, <3>3
  <2>4. /\ c.step = "resolveLoad" => reqLock'[c.r] = g \/ req'[c.r] = GoneRequest
        /\ c.step \in {"resolveRequest", "resolveWork"} => reqLock'[c.r] = g
        /\ c.step = "resolveRequest" => (IsDone(c.seenReq) <=> IsDone(dirtyReq'[c.r]))
    BY <1>1, <1>2, <1>3, <1>4, <2>1 DEF ReadStands, CallOK
  <2>5. ASSUME c.step \in {"resolveRequest", "resolveWork"}, c.w # None,
               c.w = req'[c.r].linked, c.r \notin loose
        PROVE  IsDone(c.seenWork) <=> IsDone(work'[c.w])
    <3>1. c.r \in Requests /\ c.w \in Works /\ reqLock[c.r] = g
      BY <1>1, <2>1, <2>5, ResolveIs, CallAt DEF ReadStands
    <3>2. c.w = req[c.r].linked
      BY <1>3, <2>5, <3>1
    <3>3. work'[c.w].status = work[c.w].status
      BY <1>2, <2>5, <3>1, <3>2, CommitUnseen
    <3>4. QED
      BY <1>1, <2>1, <2>5, <3>2, <3>3 DEF ReadStands, IsDone
  <2>6. QED
    BY <1>2, <1>4, <2>2, <2>3, <2>4, <2>5 DEF ReadStands, IsDone
<1>10. QED
    BY <1>8, <1>9

\* A commit, altogether.
LEMMA CommitPairs ==
    ASSUME PairsInv, NEW h \in Handlers, Commit(h)
    PROVE  PairsInv'
<1>1. IInv' /\ CommitStep(h)
    BY CommitInvariant, CommitIs DEF PairsInv
<1>2. LinksOK' /\ (Clean => Marked)' /\ Paired'
    BY <1>1, CommitKeepsLinks, CommitKeepsPairs
<1>3. ASSUME NEW g \in Handlers, g # h PROVE Local(g)'
    BY <1>1, <1>3, CommitOthersKnow, CommitOthersStand DEF Local
<1>4. Local(h)'
  <2>1. call'[h] = Idle /\ h # None
    BY <1>1, IdsAssumption DEF CommitStep
  <2>2. (\A r \in Requests : reqLock'[r] # h) /\ (\A w \in Works : workLock'[w] # h)
    BY <1>1, <2>1 DEF CommitStep
  <2>3. QED
    BY <2>1, <2>2 DEF Local, HoldsItsRows, CallKnows, Settled, StepStands, ReadStands, Idle
<1>5. QED
    BY <1>1, <1>2, <1>3, <1>4 DEF PairsInv

-----------------------------------------------------------------------------
(* The handlers of one step: rows that no transaction holds.  They change  *)
(* no status and no mark; a row may come, or go and take the links to it   *)
(* along.                                                                  *)

Same(row, new) ==
    /\ new.status = row.status
    /\ new.flagged = row.flagged /\ new.completed = row.completed

ReqSmall(r) ==
    \/ req'[r] = req[r] /\ dirtyReq'[r] = dirtyReq[r]
    \/ /\ reqLock[r] = None /\ dirtyReq'[r] = req'[r] /\ req[r] # GoneRequest
       /\ \/ req'[r] = GoneRequest
          \/ /\ req'[r].version > 0 /\ Same(req[r], req'[r])
             /\ \/ req'[r].linked = req[r].linked
                \/ req'[r].linked = None /\ work'[req[r].linked] = GoneWork

WorkSmall(w) ==
    \/ work'[w] = work[w] /\ dirtyWork'[w] = dirtyWork[w]
    \/ /\ workLock[w] = None /\ dirtyWork'[w] = work'[w] /\ work[w] # GoneWork
       /\ \/ work'[w] = GoneWork
          \/ /\ work'[w].version > 0 /\ Same(work[w], work'[w])
             /\ \/ work[w].version > 0 /\ work'[w].source = work[w].source
                \/ /\ work[w].version > 0 /\ work'[w].source = None
                   /\ req'[work[w].source] = GoneRequest
                   /\ work[w].source \in loose => w \in loose'
                \/ /\ work[w].version = 0
                   /\ work'[w].source # None => work'[w].source \in loose'

\* What a row points to is there.
NamesAreThere ==
    /\ \A w \in Works : work[w].source # None => req[work[w].source].version > 0
    /\ \A r \in Requests : req[r].linked # None => work[req[r].linked].version > 0

SmallStep ==
    /\ UNCHANGED <<reqLock, workLock, call>> /\ loose \subseteq loose'
    /\ \A r \in Requests : ReqSmall(r)
    /\ \A w \in Works : WorkSmall(w)
    /\ NamesAreThere'

\* A handler that writes one request.
LEMMA PutReqIs ==
    ASSUME PairsInv, NEW r \in Requests, NEW row, PutReq(r, row), req[r] # GoneRequest,
           Same(req[r], row), row.linked = req[r].linked, row.version > 0
    PROVE  SmallStep
<1>1. /\ reqLock[r] = None
      /\ UNCHANGED <<work, dirtyWork, reqLock, workLock, call, loose>>
    BY DEF PutReq
<1>2. \A q \in Requests : /\ req'[q] = IF q = r THEN row ELSE req[q]
                          /\ dirtyReq'[q] = IF q = r THEN row ELSE dirtyReq[q]
    BY DEF PutReq, PairsInv, IInv, TypeOK
<1>3. (\A q \in Requests : ReqSmall(q)) /\ (\A w \in Works : WorkSmall(w))
    BY <1>1, <1>2 DEF ReqSmall, WorkSmall, Same
<1>4. NamesAreThere'
  <2>1. \A w \in Works : work[w].source \in Requests \union {None}
    BY RowsTyped DEF PairsInv, WorkRow
  <2>2. QED
    BY <1>1, <1>2, <2>1 DEF NamesAreThere, PairsInv, LinksOK, RowsThere, LinksMatch
<1>5. QED
    BY <1>1, <1>3, <1>4 DEF SmallStep

\* A handler that writes one work item: the row keeps its source, or it is new.
LEMMA PutWorkIs ==
    ASSUME PairsInv, NEW w \in Works, NEW row, PutWorkRow(w, row), work[w] # GoneWork,
           Same(work[w], row), row.version > 0, loose \subseteq loose',
           \/ work[w].version > 0 /\ row.source = work[w].source
           \/ /\ work[w].version = 0
              /\ row.source # None => req[row.source].version > 0 /\ row.source \in loose'
    PROVE  SmallStep
<1>1. /\ workLock[w] = None
      /\ UNCHANGED <<req, dirtyReq, reqLock, workLock, call>>
    BY DEF PutWorkRow
<1>2. \A v \in Works : /\ work'[v] = IF v = w THEN row ELSE work[v]
                       /\ dirtyWork'[v] = IF v = w THEN row ELSE dirtyWork[v]
    BY DEF PutWorkRow, PairsInv, IInv, TypeOK
<1>3. (\A r \in Requests : ReqSmall(r)) /\ (\A v \in Works : WorkSmall(v))
    BY <1>1, <1>2 DEF ReqSmall, WorkSmall, Same
<1>4. NamesAreThere'
  <2>1. \A r \in Requests : req[r].linked \in Works \union {None}
    BY RowsTyped DEF PairsInv
  <2>2. QED
    BY <1>1, <1>2, <2>1 DEF NamesAreThere, PairsInv, LinksOK, RowsThere, LinksMatch
<1>5. QED
    BY <1>1, <1>3, <1>4 DEF SmallStep

\* What the handlers make of a request.
LEMMA SmallRequestIs ==
    ASSUME PairsInv, NEW r \in Requests,
           \/ CreateRequest(r)
           \/ \E body \in Bodies : UpdateRequest(r, body)
           \/ RemoveRequest(r)
           \/ RestoreRequest(r)
    PROVE  SmallStep
<1>1. req[r] \in RequestRow /\ req[r].version \in Nat
    BY RowsTyped DEF PairsInv
<1>2. PICK version : version = req[r].version + 1 /\ version > 0
    BY <1>1
<1>3. req[r].version > 0 \/ req[r] = NoRequest => req[r] # GoneRequest
    BY DEF GoneRequest, NoRequest
<1>4. CASE CreateRequest(r)
  <2>1. PICK row : row = [NoRequest EXCEPT !.version = 1]
    OBVIOUS
  <2>2. req[r] = NoRequest /\ PutReq(r, row)
    BY <1>4, <2>1 DEF CreateRequest
  <2>3. Same(req[r], row) /\ row.version > 0 /\ row.linked = req[r].linked
    BY <2>1, <2>2 DEF NoRequest, Same
  <2>4. QED
    BY <1>3, <2>2, <2>3, PutReqIs
<1>5. ASSUME NEW body \in Bodies, UpdateRequest(r, body) PROVE SmallStep
  <2>1. PICK row : row = [req[r] EXCEPT !.filled = FilledBy(req[r], body), !.version = @ + 1]
    OBVIOUS
  <2>2. Same(req[r], row) /\ row.version > 0 /\ row.linked = req[r].linked
    BY <1>1, <1>2, <2>1 DEF RequestRow, Same
  <2>3. PutReq(r, row) /\ req[r].version > 0
    BY <1>5, <2>1 DEF UpdateRequest, Live
  <2>4. QED
    BY <1>3, <2>2, <2>3, PutReqIs
<1>6. ASSUME NEW deleted \in BOOLEAN, req[r].version > 0,
             PutReq(r, [req[r] EXCEPT !.deleted = deleted, !.version = @ + 1])
      PROVE  SmallStep
  <2>1. PICK row : row = [req[r] EXCEPT !.deleted = deleted, !.version = @ + 1]
    OBVIOUS
  <2>2. Same(req[r], row) /\ row.version > 0 /\ row.linked = req[r].linked
    BY <1>1, <1>2, <2>1 DEF RequestRow, Same
  <2>3. QED
    BY <1>3, <1>6, <2>1, <2>2, PutReqIs
<1>7. QED
    BY <1>4, <1>5, <1>6 DEF RemoveRequest, RestoreRequest, Live

\* What the handlers make of a work item.
LEMMA SmallWorkIs ==
    ASSUME PairsInv, NEW w \in Works,
           \/ \E r \in Requests \union {None}, pic \in BOOLEAN : CreateWork(w, r, pic)
           \/ \E body \in Bodies : UpdateWork(w, body)
           \/ \E pic \in BOOLEAN : SetPic(w, pic)
           \/ RemoveWork(w)
           \/ RestoreWork(w)
    PROVE  SmallStep
<1>1. work[w] \in WorkRow /\ work[w].version \in Nat
    BY RowsTyped DEF PairsInv
<1>2. work[w].version + 1 > 0
    BY <1>1
<1>3. work[w].version > 0 \/ work[w] = NoWork => work[w] # GoneWork
    BY DEF GoneWork, NoWork
<1>4. ASSUME NEW r \in Requests \union {None}, NEW pic \in BOOLEAN, CreateWork(w, r, pic)
      PROVE  SmallStep
  <2>1. PICK row : row = NewWork(r, pic)
    OBVIOUS
  <2>2. /\ work[w] = NoWork /\ PutWorkRow(w, row)
        /\ r # None => req[r].version > 0
        /\ loose' = loose \union ({r} \ {None})
    BY <1>4, <2>1 DEF CreateWork
  <2>3. Same(work[w], row) /\ row.version > 0 /\ row.source = r /\ work[w].version = 0
    BY <2>1, <2>2 DEF NewWork, NoWork, Same
  <2>4. QED
    BY <1>3, <2>2, <2>3, PutWorkIs
<1>5. ASSUME NEW row, PutWork(w, row), work[w].version > 0, Same(work[w], row),
             row.version > 0, row.source = work[w].source
      PROVE  SmallStep
    BY <1>3, <1>5, PutWorkIs DEF PutWork
<1>6. ASSUME NEW body \in Bodies, UpdateWork(w, body) PROVE SmallStep
  <2>1. PICK row : row = [work[w] EXCEPT !.filled = FilledBy(work[w], body), !.version = @ + 1]
    OBVIOUS
  <2>2. Same(work[w], row) /\ row.version > 0 /\ row.source = work[w].source
    BY <1>1, <1>2, <2>1 DEF WorkRow, Same
  <2>3. PutWork(w, row) /\ work[w].version > 0
    BY <1>6, <2>1 DEF UpdateWork, Live
  <2>4. QED
    BY <1>5, <2>2, <2>3
<1>7. ASSUME NEW pic \in BOOLEAN, SetPic(w, pic) PROVE SmallStep
  <2>1. PICK row : row = [work[w] EXCEPT !.pic = pic, !.version = @ + 1]
    OBVIOUS
  <2>2. Same(work[w], row) /\ row.version > 0 /\ row.source = work[w].source
    BY <1>1, <1>2, <2>1 DEF WorkRow, Same
  <2>3. PutWork(w, row) /\ work[w].version > 0
    BY <1>7, <2>1 DEF SetPic, Live
  <2>4. QED
    BY <1>5, <2>2, <2>3
<1>8. ASSUME NEW deleted \in BOOLEAN, work[w].version > 0,
             PutWork(w, [work[w] EXCEPT !.deleted = deleted, !.version = @ + 1])
      PROVE  SmallStep
  <2>1. PICK row : row = [work[w] EXCEPT !.deleted = deleted, !.version = @ + 1]
    OBVIOUS
  <2>2. Same(work[w], row) /\ row.version > 0 /\ row.source = work[w].source
    BY <1>1, <1>2, <2>1 DEF WorkRow, Same
  <2>3. QED
    BY <1>5, <1>8, <2>1, <2>2
<1>9. QED
    BY <1>4, <1>6, <1>7, <1>8 DEF RemoveWork, RestoreWork, Live

\* A request is deleted for good: its work items lose their source.
LEMMA PurgeRequestIs ==
    ASSUME PairsInv, NEW r \in Requests, PurgeRequest(r)
    PROVE  SmallStep
<1>1. /\ req[r].version > 0 /\ reqLock[r] = None
      /\ \A w \in Works : work[w].source = r => workLock[w] = None
      /\ UNCHANGED <<reqLock, workLock, call>>
      /\ loose' = IF r \in loose THEN loose \union {w \in Works : work[w].source = r} ELSE loose
    BY DEF PurgeRequest
<1>2. \A q \in Requests : /\ req'[q] = IF q = r THEN GoneRequest ELSE req[q]
                          /\ dirtyReq'[q] = IF q = r THEN GoneRequest ELSE dirtyReq[q]
    BY DEF PurgeRequest, PairsInv, IInv, TypeOK
<1>3. \A w \in Works :
         /\ work'[w] = IF work[w].source = r THEN [work[w] EXCEPT !.source = None] ELSE work[w]
         /\ dirtyWork'[w] = IF dirtyWork[w].source = r THEN [dirtyWork[w] EXCEPT !.source = None]
                            ELSE dirtyWork[w]
    BY DEF PurgeRequest, WithoutSource
<1>4. req[r] # GoneRequest /\ GoneRequest.linked = None
    BY <1>1 DEF GoneRequest, NoRequest
<1>5. \A q \in Requests : ReqSmall(q)
    BY <1>1, <1>2, <1>4 DEF ReqSmall
<1>6. ASSUME NEW w \in Works PROVE WorkSmall(w) /\ work'[w].source # r
                                   /\ work'[w].source \in {None, work[w].source}
                                   /\ (work[w].version > 0 => work'[w].version > 0)
  <2>1. /\ work[w] \in WorkRow /\ work[w].version \in Nat
        /\ workLock[w] = None => dirtyWork[w] = work[w]
    BY RowsTyped DEF PairsInv
  <2>2. r # None
    BY IdsAssumption
  <2>3. CASE work[w].source = r
    <3>1. workLock[w] = None /\ dirtyWork[w] = work[w] /\ work[w].version > 0
      <4>1. work[w].version = 0 => work[w].source = None
        BY DEF PairsInv, LinksOK, RowsThere, NoWork, GoneWork
      <4>2. QED
        BY <1>1, <2>1, <2>2, <2>3, <4>1
    <3>2. PICK row : row = [work[w] EXCEPT !.source = None]
      OBVIOUS
    <3>3. Same(work[w], row) /\ row.version = work[w].version /\ row.source = None
      BY <2>1, <3>2 DEF Same, WorkRow
    <3>4. work'[w] = row /\ dirtyWork'[w] = row
      BY <1>3, <2>3, <3>1, <3>2
    <3>5. work[w] # GoneWork
      BY <3>1 DEF GoneWork, NoWork
    <3>6. (work[w].source \in loose => w \in loose') /\ req'[work[w].source] = GoneRequest
      BY <1>1, <1>2, <2>3
    <3>7. QED
      BY <2>2, <3>1, <3>3, <3>4, <3>5, <3>6 DEF WorkSmall
  <2>4. CASE work[w].source # r
    <3>1. work'[w] = work[w]
      BY <1>3, <2>4
    <3>2. dirtyWork[w].source # r
      <4>1. SUFFICES ASSUME dirtyWork[w].source = r PROVE FALSE
        OBVIOUS
      <4>2. work[w].version = 0
        BY <2>1, <2>4, <4>1 DEF PairsInv, LinksOK, DirtyLinksMatch
      <4>3. reqLock[r] # None
        BY <2>2, <4>1, <4>2 DEF PairsInv, LinksOK, MadeForRequests
      <4>4. QED
        BY <1>1, <4>3
    <3>3. dirtyWork'[w] = dirtyWork[w]
      BY <1>3, <3>2
    <3>4. QED
      BY <2>4, <3>1, <3>3 DEF WorkSmall
  <2>5. QED
    BY <2>3, <2>4
<1>7. NamesAreThere'
  <2>1. ASSUME NEW w \in Works, work'[w].source # None PROVE req'[work'[w].source].version > 0
    <3>1. work'[w].source = work[w].source /\ work[w].source # r
      BY <1>6, <2>1
    <3>2. work[w].source \in Requests
      BY <2>1, <3>1, RowsTyped DEF PairsInv, WorkRow
    <3>3. req[work[w].source].version > 0
      BY <2>1, <3>1 DEF PairsInv, LinksOK, RowsThere
    <3>4. QED
      BY <1>2, <3>1, <3>2, <3>3
  <2>2. ASSUME NEW q \in Requests, req'[q].linked # None PROVE work'[req'[q].linked].version > 0
    <3>1. req'[q] = req[q]
      BY <1>2, <1>4, <2>2
    <3>2. req[q].linked \in Works /\ work[req[q].linked].version > 0
      BY <2>2, <3>1, RowsTyped DEF PairsInv, LinksOK, LinksMatch
    <3>3. QED
      BY <1>6, <3>1, <3>2
  <2>3. QED
    BY <2>1, <2>2 DEF NamesAreThere
<1>8. QED
    BY <1>1, <1>5, <1>6, <1>7 DEF SmallStep

\* A work item is deleted for good: its request loses the link.
LEMMA PurgeWorkIs ==
    ASSUME PairsInv, NEW w \in Works, PurgeWork(w)
    PROVE  SmallStep
<1>1. /\ work[w].version > 0 /\ workLock[w] = None
      /\ \A r \in Requests : req[r].linked = w => reqLock[r] = None
      /\ UNCHANGED <<reqLock, workLock, call, loose>>
    BY DEF PurgeWork
<1>2. \A v \in Works : /\ work'[v] = IF v = w THEN GoneWork ELSE work[v]
                       /\ dirtyWork'[v] = IF v = w THEN GoneWork ELSE dirtyWork[v]
    BY DEF PurgeWork, PairsInv, IInv, TypeOK
<1>3. \A r \in Requests :
         /\ req'[r] = IF req[r].linked = w THEN [req[r] EXCEPT !.linked = None] ELSE req[r]
         /\ dirtyReq'[r] = IF dirtyReq[r].linked = w THEN [dirtyReq[r] EXCEPT !.linked = None]
                           ELSE dirtyReq[r]
    BY DEF PurgeWork, WithoutLink
<1>4. work[w] # GoneWork /\ GoneWork.source = None /\ w # None
    BY <1>1, IdsAssumption DEF GoneWork, NoWork
<1>5. \A v \in Works : WorkSmall(v)
    BY <1>1, <1>2, <1>4 DEF WorkSmall
<1>6. ASSUME NEW r \in Requests PROVE ReqSmall(r) /\ req'[r].linked # w
                                      /\ req'[r].linked \in {None, req[r].linked}
                                      /\ (req[r].version > 0 => req'[r].version > 0)
  <2>1. /\ req[r] \in RequestRow /\ req[r].version \in Nat
        /\ reqLock[r] = None => dirtyReq[r] = req[r]
    BY RowsTyped DEF PairsInv
  <2>3. CASE req[r].linked = w
    <3>1. reqLock[r] = None /\ dirtyReq[r] = req[r] /\ req[r].version > 0
      <4>1. req[r].version = 0 => req[r].linked = None
        BY DEF PairsInv, LinksOK, RowsThere, NoRequest, GoneRequest
      <4>2. QED
        BY <1>1, <1>4, <2>1, <2>3, <4>1
    <3>2. PICK row : row = [req[r] EXCEPT !.linked = None]
      OBVIOUS
    <3>3. Same(req[r], row) /\ row.version = req[r].version /\ row.linked = None
      BY <2>1, <3>2 DEF Same, RequestRow
    <3>4. req'[r] = row /\ dirtyReq'[r] = row
      BY <1>3, <2>3, <3>1, <3>2
    <3>5. req[r] # GoneRequest
      BY <3>1 DEF GoneRequest, NoRequest
    <3>6. work'[req[r].linked] = GoneWork
      BY <1>2, <2>3
    <3>7. QED
      BY <1>4, <3>1, <3>3, <3>4, <3>5, <3>6 DEF ReqSmall
  <2>4. CASE req[r].linked # w
    <3>1. req'[r] = req[r]
      BY <1>3, <2>4
    <3>2. dirtyReq[r].linked # w
      BY <1>1, <2>4 DEF PairsInv, LinksOK, DirtyLinksMatch, HasMadeWork
    <3>3. dirtyReq'[r] = dirtyReq[r]
      BY <1>3, <3>2
    <3>4. QED
      BY <2>4, <3>1, <3>3 DEF ReqSmall
  <2>5. QED
    BY <2>3, <2>4
<1>7. NamesAreThere'
  <2>1. ASSUME NEW v \in Works, work'[v].source # None PROVE req'[work'[v].source].version > 0
    <3>1. work'[v] = work[v]
      BY <1>2, <1>4, <2>1
    <3>2. work[v].source \in Requests
      BY <2>1, <3>1, RowsTyped DEF PairsInv, WorkRow
    <3>3. req[work[v].source].version > 0
      BY <2>1, <3>1 DEF PairsInv, LinksOK, RowsThere
    <3>4. QED
      BY <1>6, <3>1, <3>2, <3>3
  <2>2. ASSUME NEW r \in Requests, req'[r].linked # None PROVE work'[req'[r].linked].version > 0
    <3>1. req'[r].linked = req[r].linked /\ req[r].linked # w
      BY <1>6, <2>2
    <3>2. req[r].linked \in Works /\ work[req[r].linked].version > 0
      BY <2>2, <3>1, RowsTyped DEF PairsInv, LinksOK, LinksMatch
    <3>3. QED
      BY <1>2, <3>1, <3>2
  <2>3. QED
    BY <2>1, <2>2 DEF NamesAreThere
<1>8. QED
    BY <1>1, <1>5, <1>6, <1>7 DEF SmallStep

\* Every handler of one step, and a stutter.
LEMMA SmallIs ==
    ASSUME PairsInv, SmallHandlers \/ UNCHANGED vars
    PROVE  SmallStep
<1>1. CASE SmallHandlers
    BY <1>1, SmallRequestIs, SmallWorkIs, PurgeRequestIs, PurgeWorkIs DEF SmallHandlers
<1>2. CASE UNCHANGED vars
    BY <1>2 DEF vars, SmallStep, ReqSmall, WorkSmall, NamesAreThere, PairsInv, LinksOK,
                RowsThere, LinksMatch
<1>3. QED
    BY <1>1, <1>2

\* What such a step leaves of a row that a call goes by: one that is locked as it is, and
\* the two ends of a link in the status they had.
LEMMA SmallLeaves ==
    ASSUME PairsInv, SmallStep
    PROVE  /\ reqLock' = reqLock /\ workLock' = workLock /\ call' = call
           /\ \A r \in Requests : reqLock[r] # None => req'[r] = req[r] /\ dirtyReq'[r] = dirtyReq[r]
           /\ \A w \in Works : workLock[w] # None => work'[w] = work[w] /\ dirtyWork'[w] = dirtyWork[w]
           /\ \A r \in Requests : req'[r].linked # None => req'[r].linked = req[r].linked
           /\ \A r \in Requests : req'[r] = req[r] \/ req'[r].version > 0 \/ req'[r] = GoneRequest
           /\ \A w \in Works : work'[w] = work[w] \/ work'[w].version > 0 \/ work'[w] = GoneWork
           /\ \A r \in Requests : req'[r].version > 0 => Same(req[r], req'[r])
           /\ \A w \in Works : work'[w].version > 0 => Same(work[w], work'[w])
           /\ \A r \in Requests : req[r] = GoneRequest => req'[r] = GoneRequest
           /\ \A w \in Works : work[w] = GoneWork => work'[w] = GoneWork
           /\ \A w \in Works : work'[w].source # None /\ work[w].version > 0 =>
                 work'[w].source = work[w].source
<1>1. /\ GoneRequest.linked = None /\ GoneWork.source = None
      /\ GoneRequest.version = 0 /\ GoneWork.version = 0
    BY DEF GoneRequest, GoneWork, NoRequest, NoWork
<1>2. (\A r \in Requests : ReqSmall(r)) /\ (\A w \in Works : WorkSmall(w))
    BY DEF SmallStep
<1>3. /\ \A r \in Requests : reqLock[r] # None => req'[r] = req[r] /\ dirtyReq'[r] = dirtyReq[r]
      /\ \A r \in Requests : req'[r].linked # None => req'[r].linked = req[r].linked
      /\ \A r \in Requests : req'[r] = req[r] \/ req'[r].version > 0 \/ req'[r] = GoneRequest
      /\ \A r \in Requests : req'[r].version > 0 => Same(req[r], req'[r])
      /\ \A r \in Requests : req[r] = GoneRequest => req'[r] = GoneRequest
    BY <1>1, <1>2 DEF ReqSmall, Same
<1>4. ASSUME NEW w \in Works
      PROVE  /\ workLock[w] # None => work'[w] = work[w] /\ dirtyWork'[w] = dirtyWork[w]
             /\ work'[w] = work[w] \/ work'[w].version > 0 \/ work'[w] = GoneWork
             /\ work'[w].version > 0 => Same(work[w], work'[w])
             /\ work[w] = GoneWork => work'[w] = GoneWork
             /\ work'[w].source # None /\ work[w].version > 0 => work'[w].source = work[w].source
  <2>1. ~(work[w].version > 0 /\ work[w].version = 0)
    BY RowsTyped DEF PairsInv
  <2>2. QED
    BY <1>1, <1>2, <2>1 DEF WorkSmall, Same
<1>5. QED
    BY <1>3, <1>4 DEF SmallStep

\* The links that are committed, and those to come.
LEMMA SmallKeepsLinks ==
    ASSUME PairsInv, SmallStep
    PROVE  LinksOK'
<1>1. /\ reqLock' = reqLock /\ workLock' = workLock /\ loose \subseteq loose'
      /\ \A r \in Requests : ReqSmall(r)
      /\ \A w \in Works : WorkSmall(w)
      /\ NamesAreThere'
    BY DEF SmallStep
<1>2. /\ GoneRequest.linked = None /\ GoneWork.source = None
      /\ GoneRequest.version = 0 /\ GoneWork.version = 0
    BY DEF GoneRequest, GoneWork, NoRequest, NoWork
<1>3. RowsThere'
  <2>1. \A r \in Requests : req'[r].version = 0 => req'[r] \in {NoRequest, GoneRequest}
    BY SmallLeaves DEF RowsThere, PairsInv, LinksOK
  <2>2. \A w \in Works : work'[w].version = 0 => work'[w] \in {NoWork, GoneWork}
    BY SmallLeaves DEF RowsThere, PairsInv, LinksOK
  <2>3. QED
    BY <1>1, <2>1, <2>2 DEF RowsThere, NamesAreThere
<1>4. LinksMatch'
  <2>1. SUFFICES ASSUME NEW r \in Requests, NEW w, w = req'[r].linked, w # None
                 PROVE  work'[w].version > 0 /\ work'[w].source = r
    BY DEF LinksMatch
  <2>2. w = req[r].linked /\ w \in Works /\ work'[w].version > 0
    BY <1>1, <2>1, SmallLeaves, RowsTyped DEF NamesAreThere, PairsInv
  <2>3. work[w].version > 0 /\ work[w].source = r
    BY <2>1, <2>2 DEF PairsInv, LinksOK, LinksMatch
  <2>4. ~(work[w].version = 0) /\ req'[r] # GoneRequest
    BY <1>2, <2>1, <2>3
  <2>5. QED
    BY <1>1, <1>2, <2>2, <2>3, <2>4 DEF WorkSmall
<1>5. DirtyLinksMatch'
  <2>1. ASSUME NEW r \in Requests
        PROVE  (dirtyReq[r].linked = req[r].linked \/ HasMadeWork(r, dirtyReq[r].linked))'
    <3>1. CASE dirtyReq'[r] = req'[r]
      BY <3>1
    <3>2. CASE req'[r] = req[r] /\ dirtyReq'[r] = dirtyReq[r]
      <4>1. CASE dirtyReq[r].linked = req[r].linked
        BY <3>2, <4>1
      <4>2. CASE reqLock[r] # None /\ HasMadeWork(r, dirtyReq[r].linked)
        <5>1. PICK w : w = dirtyReq[r].linked
          OBVIOUS
        <5>2. w \in Works /\ workLock[w] # None /\ HasMadeWork(r, w)
          BY <4>2, <5>1 DEF HasMadeWork
        <5>3. work'[w] = work[w] /\ dirtyWork'[w] = dirtyWork[w]
          BY <5>2, SmallLeaves
        <5>4. HasMadeWork(r, w)'
          BY <1>1, <3>2, <5>2, <5>3 DEF HasMadeWork
        <5>5. QED
          BY <3>2, <5>1, <5>4 DEF HasMadeWork
      <4>3. QED
        BY <4>1, <4>2, RowsTyped DEF PairsInv, LinksOK, DirtyLinksMatch
    <3>3. QED
      BY <1>1, <3>1, <3>2 DEF ReqSmall
  <2>2. \A w \in Works : work'[w].version > 0 => dirtyWork'[w].source = work'[w].source
    BY <1>1 DEF WorkSmall, PairsInv, LinksOK, DirtyLinksMatch
  <2>3. QED
    BY <2>1, <2>2 DEF DirtyLinksMatch
<1>6. MadeForRequests'
  <2>1. SUFFICES ASSUME NEW w \in Works, NEW r, r = dirtyWork'[w].source,
                        work'[w].version = 0, r # None
                 PROVE  workLock'[w] # None /\ reqLock'[r] = workLock'[w] /\ dirtyReq'[r].linked = w
    BY DEF MadeForRequests
  <2>2. work'[w] = work[w] /\ dirtyWork'[w] = dirtyWork[w]
    BY <1>1, <1>2, <2>1 DEF WorkSmall
  <2>3. dirtyWork[w].source = r /\ r \in Requests
    BY <2>1, <2>2, RowsTyped DEF PairsInv, WorkRow
  <2>4. workLock[w] # None /\ reqLock[r] = workLock[w] /\ dirtyReq[r].linked = w
    BY <2>1, <2>2, <2>3 DEF PairsInv, LinksOK, MadeForRequests
  <2>5. QED
    BY <1>1, <2>3, <2>4, SmallLeaves
<1>7. SoleWorks'
  <2>1. SUFFICES ASSUME NEW r \in Requests, r \notin loose', NEW w \in Works, work'[w].source = r
                 PROVE  w = req'[r].linked
    BY DEF SoleWorks, SoleWork
  <2>2. r # None /\ r \notin loose
    BY <1>1, <2>1, IdsAssumption
  <2>3. req'[r].version > 0
    BY <1>1, <2>1, <2>2 DEF NamesAreThere
  <2>4. work[w].source = r
    BY <1>1, <1>2, <2>1, <2>2 DEF WorkSmall
  <2>5. w = req[r].linked
    BY <2>2, <2>4 DEF PairsInv, LinksOK, SoleWorks, SoleWork
  <2>6. work'[w] # GoneWork /\ req'[r] # GoneRequest
    BY <1>2, <2>1, <2>2, <2>3
  <2>7. QED
    BY <1>1, <2>5, <2>6 DEF ReqSmall
<1>8. QED
    BY <1>3, <1>4, <1>5, <1>6, <1>7 DEF LinksOK

\* The pairs that are committed, and the marks of what is done.
LEMMA SmallKeepsRows ==
    ASSUME PairsInv, SmallStep
    PROVE  Paired' /\ (Clean => Marked)'
<1>1. /\ loose \subseteq loose'
      /\ \A r \in Requests : ReqSmall(r)
      /\ \A w \in Works : WorkSmall(w)
      /\ NamesAreThere'
    BY DEF SmallStep
<1>2. Paired'
  <2>1. SUFFICES ASSUME NEW r \in Requests, r \notin loose, NEW w, w = req'[r].linked, w # None
                 PROVE  PairOK(req[r], work[w])'
    BY <1>1 DEF Paired, PairOK, Agree
  <2>2. w = req[r].linked /\ w \in Works /\ work'[w].version > 0
    BY <1>1, <2>1, SmallLeaves, RowsTyped DEF NamesAreThere, PairsInv
  <2>3. PairOK(req[r], work[w])
    BY <2>1, <2>2 DEF PairsInv, Paired
  <2>4. Same(work[w], work'[w])
    BY <2>2, SmallLeaves
  <2>5. req'[r] # GoneRequest
    BY <2>1 DEF GoneRequest, NoRequest
  <2>6. Same(req[r], req'[r])
    BY <2>5, SmallLeaves DEF Same
  <2>7. QED
    BY <2>3, <2>4, <2>6 DEF PairOK, Agree, Same
<1>3. (Clean => Marked)'
  <2>1. SUFFICES ASSUME Clean PROVE Marked'
    BY DEF Clean
  <2>2. Marked
    BY <2>1 DEF PairsInv
  <2>3. MarkOK(GoneRequest) /\ MarkOK(GoneWork) /\ MarkOK(NoWork) /\ NoWork.source = None
    BY DEF MarkOK, IsDone, GoneRequest, GoneWork, NoRequest, NoWork
  <2>4. ASSUME NEW r \in Requests, r \notin loose' PROVE MarkOK(req'[r]) /\ MarkOK(dirtyReq'[r])
    <3>1. MarkOK(req[r]) /\ MarkOK(dirtyReq[r])
      BY <1>1, <2>2, <2>4 DEF Marked
    <3>2. CASE req'[r] = req[r] /\ dirtyReq'[r] = dirtyReq[r]
      BY <3>1, <3>2
    <3>3. CASE dirtyReq'[r] = req'[r] /\ (req'[r] = GoneRequest \/ Same(req[r], req'[r]))
      BY <2>3, <3>1, <3>3 DEF MarkOK, IsDone, Same
    <3>4. QED
      BY <1>1, <3>2, <3>3 DEF ReqSmall
  <2>5. ASSUME NEW w \in Works, Free(w)' PROVE MarkOK(work'[w]) /\ MarkOK(dirtyWork'[w])
    <3>1. w \notin loose /\ w \notin loose' /\ dirtyWork'[w].source \notin loose'
          /\ dirtyWork'[w].source \notin loose
      BY <1>1, <2>5 DEF Free
    <3>2. CASE work'[w] = work[w] /\ dirtyWork'[w] = dirtyWork[w]
      BY <2>2, <3>1, <3>2 DEF Free, Marked
    <3>3. CASE dirtyWork'[w] = work'[w] /\ work'[w] = GoneWork
      BY <2>3, <3>3
    <3>4. CASE /\ workLock[w] = None /\ dirtyWork'[w] = work'[w] /\ Same(work[w], work'[w])
               /\ \/ work'[w].source = work[w].source
                  \/ work[w].source \in loose => w \in loose'
      <4>1. dirtyWork[w] = work[w]
        BY <3>4, RowsTyped DEF PairsInv
      <4>2. Free(w)
        BY <3>1, <3>4, <4>1 DEF Free
      <4>3. QED
        BY <2>2, <3>4, <4>2 DEF Marked, MarkOK, IsDone, Same
    <3>5. CASE /\ work[w].version = 0 /\ dirtyWork'[w] = work'[w] /\ Same(work[w], work'[w])
      <4>1. MarkOK(work[w])
        BY <2>3, <3>5 DEF PairsInv, LinksOK, RowsThere
      <4>2. QED
        BY <3>5, <4>1 DEF MarkOK, IsDone, Same
    <3>6. QED
      BY <1>1, <3>2, <3>3, <3>4, <3>5 DEF WorkSmall
  <2>6. QED
    BY <2>4, <2>5 DEF Marked, MarkOK, IsDone
<1>4. QED
    BY <1>2, <1>3

\* What a call knows, has settled and has decided on survives such a step.
LEMMA SmallKeepsCalls ==
    ASSUME PairsInv, SmallStep, NEW g \in Handlers
    PROVE  Local(g)'
<1>1. PICK c : c = call[g]
    OBVIOUS
<1>2. /\ c \in Call /\ CallOK(c) /\ call'[g] = c /\ g # None
      /\ c.w \in Works \union {None} /\ c.r \in Requests \union {None}
      /\ HoldsItsRows(g) /\ CallKnows(g) /\ Settled(g) /\ StepStands(g)
      /\ (Clean => ReadStands(g))
    BY <1>1, CallAt, SmallLeaves DEF PairsInv, Local
<1>3. /\ reqLock' = reqLock /\ workLock' = workLock /\ loose \subseteq loose' /\ NamesAreThere'
      /\ \A r \in Requests : ReqSmall(r)
      /\ \A w \in Works : WorkSmall(w)
    BY DEF SmallStep
<1>4. /\ \A r \in Requests : reqLock[r] = g => req'[r] = req[r] /\ dirtyReq'[r] = dirtyReq[r]
      /\ \A w \in Works : workLock[w] = g => work'[w] = work[w] /\ dirtyWork'[w] = dirtyWork[w]
    BY <1>2, SmallLeaves
<1>5. HoldsItsRows(g)'
    BY <1>1, <1>2, <1>3 DEF HoldsItsRows
<1>6. CallKnows(g)'
  <2>1. c.step \in {"readWork", "writeWork"} => RequestMoved(g)'
    BY <1>1, <1>2, <1>3, <1>4 DEF CallKnows, CallOK, RequestMoved
  <2>2. c.step \in {"readRequest", "writeRequest"} => WorkMoved(g)'
    BY <1>1, <1>2, <1>3, <1>4 DEF CallKnows, CallOK, WorkMoved
  <2>3. c.step \in {"flagRequest", "flagWork"} => Related(g)'
    BY <1>1, <1>2, <1>3, <1>4 DEF CallKnows, CallOK, Related
  <2>4. ASSUME c.step \in {"resolveNotes", "resolveLoad", "resolveRequest", "resolveWork"}
        PROVE  /\ req'[c.r] # NoRequest
               /\ c.w # None => c.w = req'[c.r].linked \/ Cut(c)'
    <3>1. c.r \in Requests /\ req[c.r] # NoRequest /\ (c.w # None => c.w = req[c.r].linked \/ Cut(c))
      BY <1>1, <1>2, <2>4 DEF CallKnows, CallOK
    <3>2. /\ NoRequest.version = 0 /\ NoRequest # GoneRequest
          /\ GoneRequest.version = 0
      BY DEF NoRequest, GoneRequest
    <3>3. req'[c.r] # NoRequest
      BY <3>1, <3>2, SmallLeaves
    <3>4. ASSUME c.w # None, c.w = req[c.r].linked, c.w # req'[c.r].linked PROVE Cut(c)'
      <4>1. c.w \in Works /\ work[c.w].version > 0 /\ work[c.w].source = c.r
        BY <1>2, <3>1, <3>4 DEF PairsInv, LinksOK, LinksMatch
      <4>2. CASE work'[c.w] = GoneWork
        BY <4>2 DEF Cut
      <4>3. CASE work'[c.w] # GoneWork
        <5>1. req'[c.r] = GoneRequest
          BY <1>3, <3>1, <3>4, <4>3 DEF ReqSmall
        <5>2. c.r # None /\ work'[c.w].source # c.r
          BY <1>3, <3>1, <3>2, <4>1, <5>1, IdsAssumption DEF NamesAreThere
        <5>3. work'[c.w].source = None
          BY <4>1, <5>2, SmallLeaves
        <5>4. work'[c.w].version > 0
          BY <4>1, <4>3, SmallLeaves
        <5>5. QED
          BY <5>1, <5>3, <5>4 DEF Cut
      <4>4. QED
        BY <4>2, <4>3
    <3>5. ASSUME c.w # None, Cut(c) PROVE Cut(c)'
      <4>1. CASE work[c.w] = GoneWork
        BY <1>2, <3>5, <4>1, SmallLeaves DEF Cut
      <4>2. CASE req[c.r] = GoneRequest /\ work[c.w].version > 0 /\ work[c.w].source = None
        <5>1. c.w \in Works /\ req'[c.r] = GoneRequest
          BY <1>2, <3>1, <3>5, <4>2, SmallLeaves
        <5>2. work'[c.w] = GoneWork \/ work'[c.w].version > 0
          BY <4>2, <5>1, SmallLeaves
        <5>3. work'[c.w].source = None
          BY <4>2, <5>1, SmallLeaves
        <5>4. QED
          BY <5>1, <5>2, <5>3 DEF Cut
      <4>3. QED
        BY <3>5, <4>1, <4>2 DEF Cut
    <3>6. QED
      BY <3>1, <3>3, <3>4, <3>5
  <2>5. /\ c.step = "resolveWork" =>
              \/ req'[c.r] = GoneRequest
              \/ /\ reqLock'[c.r] = g /\ dirtyReq'[c.r].status = c.to /\ ~dirtyReq'[c.r].flagged
                 /\ c.r \notin loose' => req'[c.r].linked \in {None, c.w}
        /\ c.step = "flagWork" => reqLock'[c.r] = g /\ dirtyReq'[c.r].flagged
    BY <1>1, <1>2, <1>3, <1>4, SmallLeaves DEF CallKnows, CallOK
  <2>6. /\ c.step = "ownRequest" =>
              /\ ~c.seenReq.flagged /\ c.w = c.seenReq.linked
              /\ EdgeExists(RequestEdges, c.seenReq.status, c.to)
        /\ c.step = "ownWork" => ~c.seenWork.flagged /\ c.seenWork.version > 0
        /\ c.step = "resolveNotes" => c.body \in Bodies
    BY <1>1, <1>2 DEF CallKnows
  <2>7. QED
    BY <1>2, <2>1, <2>2, <2>3, <2>4, <2>5, <2>6 DEF CallKnows
<1>7. Settled(g)'
  <2>1. SUFFICES ASSUME c.step = "commit", NEW r \in Requests, r \notin loose
                 PROVE  /\ (reqLock[r] = g => RequestSettled(g, r))'
                        /\ (req[r].linked # None /\ workLock[req[r].linked] = g /\ reqLock[r] # g =>
                              WorkSettled(req[r].linked))'
    BY <1>2, <1>3 DEF Settled
  <2>2. /\ reqLock[r] = g => RequestSettled(g, r)
        /\ req[r].linked # None /\ workLock[req[r].linked] = g /\ reqLock[r] # g =>
              WorkSettled(req[r].linked)
    BY <1>1, <1>2, <2>1 DEF Settled
  <2>3. req[r].linked \in Works \union {None} /\ dirtyReq[r].linked \in Works \union {None}
    BY RowsTyped DEF PairsInv
  <2>4. ASSUME reqLock[r] = g PROVE RequestSettled(g, r)'
    <3>1. PICK w : w = dirtyReq[r].linked
      OBVIOUS
    <3>2. req'[r] = req[r] /\ dirtyReq'[r] = dirtyReq[r] /\ RequestSettled(g, r)
      BY <1>4, <2>2, <2>4
    <3>3. CASE w = None
      BY <3>1, <3>2, <3>3 DEF RequestSettled
    <3>4. CASE w \in Works /\ workLock[w] = g
      BY <1>3, <1>4, <3>1, <3>2, <3>4, IdsAssumption DEF RequestSettled, PairOK, Agree
    <3>5. CASE w \in Works /\ workLock[w] # g
      <4>1. MovedUnseen(r) /\ w # None
        BY <3>1, <3>2, <3>5, IdsAssumption DEF RequestSettled
      <4>2. w = req'[r].linked
        BY <3>1, <3>2, <4>1 DEF MovedUnseen
      <4>3. work'[w].version > 0
        BY <1>3, <4>1, <4>2 DEF NamesAreThere
      <4>4. work'[w].status = work[w].status
        BY <3>5, <4>3, SmallLeaves DEF Same
      <4>5. MovedUnseen(r)'
        BY <3>1, <3>2, <4>1, <4>4 DEF MovedUnseen
      <4>6. QED
        BY <1>3, <3>1, <3>2, <3>5, <4>1, <4>5 DEF RequestSettled
    <3>6. QED
      BY <2>3, <3>1, <3>3, <3>4, <3>5
  <2>5. ASSUME NEW w, w = req'[r].linked, w # None, workLock[w] = g, reqLock[r] # g
        PROVE  WorkSettled(w)'
    <3>1. w = req[r].linked /\ w \in Works
      BY <2>3, <2>5, SmallLeaves
    <3>2. WorkSettled(w)
      BY <2>2, <2>5, <3>1
    <3>3. QED
      BY <1>4, <2>5, <3>1, <3>2 DEF WorkSettled
  <2>6. (req[r].linked # None /\ workLock[req[r].linked] = g /\ reqLock[r] # g =>
              WorkSettled(req[r].linked))'
    BY <1>3, <2>5 DEF WorkSettled
  <2>7. QED
    BY <1>3, <2>4, <2>6
<1>8. ASSUME c.step = "writeWork" PROVE (VisibleWork(g, c.w).status)' = VisibleWork(g, c.w).status
  <2>1. c.r \in Requests /\ c.w \in Works /\ reqLock[c.r] = g /\ c.w = dirtyReq[c.r].linked
    BY <1>1, <1>2, <1>8 DEF CallOK, CallKnows, RequestMoved
  <2>2. CASE workLock[c.w] = g
    BY <1>3, <1>4, <2>1, <2>2 DEF VisibleWork
  <2>3. CASE workLock[c.w] # g
    <3>1. c.w = req'[c.r].linked /\ c.w # None
      BY <1>4, <2>1, <2>3, IdsAssumption DEF PairsInv, LinksOK, DirtyLinksMatch, HasMadeWork
    <3>2. work'[c.w].version > 0
      BY <1>3, <2>1, <3>1 DEF NamesAreThere
    <3>3. QED
      BY <1>3, <2>1, <2>3, <3>2, SmallLeaves DEF VisibleWork, Same
  <2>4. QED
    BY <2>2, <2>3
<1>9. ASSUME c.step = "writeRequest" PROVE req'[c.r].status = req[c.r].status
  <2>1. /\ c.r \in Requests /\ c.w \in Works /\ workLock[c.w] = g
        /\ c.r = work[c.w].source /\ c.r # None
    BY <1>1, <1>2, <1>9, IdsAssumption DEF CallOK, CallKnows, WorkMoved
  <2>2. req'[c.r].version > 0
    BY <1>3, <1>4, <2>1 DEF NamesAreThere
  <2>3. QED
    BY <2>1, <2>2, SmallLeaves DEF Same
<1>10. StepStands(g)'
  <2>1. TableKeepsSteps' <=> TableKeepsSteps
    BY DEF TableKeepsSteps
  <2>2. c.step = "writeWork" /\ c.r \notin loose =>
           EdgeExists(WorkEdges, (VisibleWork(g, c.w).status)', WorkStatusFor[c.to])
    BY <1>1, <1>2, <1>8 DEF StepStands
  <2>3. c.step = "writeRequest" /\ c.r \notin loose /\ TableKeepsSteps =>
           EdgeExists(RequestEdges, req'[c.r].status, RequestStatusFor[c.to])
    BY <1>1, <1>2, <1>9 DEF StepStands
  <2>4. QED
    BY <1>2, <1>3, <2>1, <2>2, <2>3 DEF StepStands, VisibleWork
<1>11. (Clean => ReadStands(g))'
  <2>1. SUFFICES ASSUME Clean PROVE ReadStands(g)'
    BY DEF Clean
  <2>2. ReadStands(g)
    BY <1>2, <2>1
  <2>3. c.step = "writeWork" /\ c.r \notin loose =>
           (IsDone(c.seenWork) <=> IsDone(VisibleWork(g, c.w))')
    BY <1>1, <1>8, <2>2 DEF ReadStands, IsDone
  <2>4. c.step = "writeRequest" /\ c.r \notin loose =>
           (IsDone(c.seenReq) <=> IsDone(req'[c.r]))
    BY <1>1, <1>9, <2>2 DEF ReadStands, IsDone
  <2>5. /\ c.step = "resolveLoad" => reqLock'[c.r] = g \/ req'[c.r] = GoneRequest
        /\ c.step \in {"resolveRequest", "resolveWork"} => reqLock'[c.r] = g
        /\ c.step = "resolveRequest" => (IsDone(c.seenReq) <=> IsDone(dirtyReq'[c.r]))
    BY <1>1, <1>2, <1>3, <1>4, <2>2, SmallLeaves DEF ReadStands, CallOK
  <2>6. ASSUME c.step \in {"resolveRequest", "resolveWork"}, c.w # None,
               c.w = req'[c.r].linked, c.r \notin loose
        PROVE  IsDone(c.seenWork) <=> IsDone(work'[c.w])
    <3>1. c.r \in Requests /\ c.w \in Works /\ reqLock[c.r] = g
      BY <1>1, <1>2, <2>2, <2>6 DEF ReadStands, CallOK
    <3>2. c.w = req[c.r].linked
      BY <1>4, <2>6, <3>1
    <3>3. work'[c.w].version > 0
      BY <1>3, <2>6, <3>1 DEF NamesAreThere
    <3>4. work'[c.w].status = work[c.w].status
      BY <3>1, <3>3, SmallLeaves DEF Same
    <3>5. QED
      BY <1>1, <2>2, <2>6, <3>2, <3>4 DEF ReadStands, IsDone
  <2>7. QED
    BY <1>2, <1>3, <2>3, <2>4, <2>5, <2>6 DEF ReadStands, IsDone
<1>12. QED
    BY <1>5, <1>6, <1>7, <1>10, <1>11 DEF Local

\* Such a step, altogether.
LEMMA SmallPairs ==
    ASSUME PairsInv, SmallStep, IInv'
    PROVE  PairsInv'
<1>1. LinksOK' /\ Paired' /\ (Clean => Marked)'
    BY SmallKeepsLinks, SmallKeepsRows
<1>2. \A g \in Handlers : Local(g)'
    BY SmallKeepsCalls
<1>3. QED
    BY <1>1, <1>2 DEF PairsInv

-----------------------------------------------------------------------------
(* The invariant as a whole, and what it is for.                           *)

\* Before anything is created there is no link and no call.
LEMMA PairsStart == Init => PairsInv
<1> SUFFICES ASSUME Init PROVE PairsInv
    OBVIOUS
<1>1. IInv
    BY InitInvariant
<1>2. /\ \A r \in Requests :
            req[r] = NoRequest /\ dirtyReq[r] = NoRequest /\ reqLock[r] = None /\ r # None
      /\ \A w \in Works : work[w] = NoWork /\ dirtyWork[w] = NoWork /\ workLock[w] = None
      /\ \A h \in Handlers : call[h] = Idle /\ h # None
    BY IdsAssumption DEF Init
<1>3. LinksOK
  <2>1. RowsThere
    BY <1>2 DEF RowsThere, NoWork
  <2>2. LinksMatch
    BY <1>2 DEF LinksMatch, NoRequest
  <2>3. DirtyLinksMatch
    BY <1>2 DEF DirtyLinksMatch
  <2>4. MadeForRequests
    BY <1>2 DEF MadeForRequests, NoWork
  <2>5. SoleWorks
    BY <1>2 DEF SoleWorks, SoleWork, NoWork
  <2>6. QED
    BY <2>1, <2>2, <2>3, <2>4, <2>5 DEF LinksOK
<1>4. Paired
    BY <1>2 DEF Paired, NoRequest
<1>5. Marked
    BY <1>2 DEF Marked, MarkOK, IsDone, NoRequest, NoWork
<1>6. \A h \in Handlers : Local(h)
    BY <1>2 DEF Local, HoldsItsRows, CallKnows, Settled, StepStands, ReadStands, Idle
<1>7. QED
    BY <1>1, <1>3, <1>4, <1>5, <1>6 DEF PairsInv

\* Every step keeps it.
LEMMA PairsStep ==
    ASSUME PairsInv, [Next]_vars
    PROVE  PairsInv'
<1>1. CASE SmallHandlers \/ UNCHANGED vars
  <2>1. IInv'
    BY NextInvariant DEF PairsInv
  <2>2. QED
    BY <1>1, <2>1, SmallIs, SmallPairs
<1>2. ASSUME NEW h \in Handlers,
             RefuseRequest(h) \/ RefuseWork(h) \/ AbortDeadlocked(h) \/ Stop(h)
      PROVE  PairsInv'
    BY <1>2, RollbackPairs DEF RefuseRequest, RefuseWork, AbortDeadlocked, Stop
<1>3. ASSUME NEW h \in Handlers, Start(h) \/ Commit(h) PROVE PairsInv'
    BY <1>3, StartPairs, CommitPairs
<1>4. ASSUME NEW h \in Handlers,
             \/ WriteOwnRequest(h) \/ WriteOwnWork(h)
             \/ ReadLinkedWork(h) \/ WriteLinkedWork(h)
             \/ ReadSourceRequest(h) \/ WriteSourceRequest(h)
      PROVE  PairsInv'
    BY <1>4, WriteOwnRequestPairs, WriteOwnWorkPairs, ReadLinkedWorkPairs,
       WriteLinkedWorkPairs, ReadSourceRequestPairs, WriteSourceRequestPairs
<1>5. ASSUME NEW h \in Handlers,
             \/ FlagRequest(h) \/ FlagWork(h)
             \/ WriteResolveNotes(h) \/ LoadPair(h)
             \/ WriteResolvedRequest(h) \/ WriteResolvedWork(h)
      PROVE  PairsInv'
    BY <1>5, FlagRequestPairs, FlagWorkPairs, WriteResolveNotesPairs, LoadPairPairs,
       WriteResolvedRequestPairs, WriteResolvedWorkPairs
<1>6. QED
    BY <1>1, <1>2, <1>3, <1>4, <1>5 DEF Next, Advance

\* What the transactions know of each other's rows holds in every reachable state.
THEOREM PairsInvariant == Spec => []PairsInv
<1>1. Init => PairsInv
    BY PairsStart
<1>2. PairsInv /\ [Next]_vars => PairsInv'
    BY PairsStep
<1>3. QED
    BY <1>1, <1>2, PTL DEF Spec

\* A request and the work item it is linked to show the same status, or both are marked
\* (syncFromRequestWithin, syncFromWorkItemWithin and resolveWithin, interleaved in
\* every way, and with either row deleted for good at any time by permanentlyDelete).
THEOREM PairsAgree == Spec => []LinkedPairAgrees
<1>1. PairsInv => LinkedPairAgrees
    BY DEF PairsInv, Paired, PairOK, LinkedPairAgrees
<1>2. QED
    BY <1>1, PairsInvariant, PTL

\* The conflict flag is on both records or on neither (flagConflict and what clears it).
THEOREM FlagsPaired == Spec => []FlagsArePaired
<1>1. PairsInv => FlagsArePaired
    BY DEF PairsInv, Paired, PairOK, FlagsArePaired
<1>2. QED
    BY <1>1, PairsInvariant, PTL

\* The UPDATE by id of a synchronisation moves a row along an edge, although the row was
\* read without a lock: of a work item whatever the table holds, of a request if what
\* a move the work item does not show closes no step the work item may cause.
THEOREM SyncedSteps ==
    ASSUME TableKeepsSteps
    PROVE  Spec => []SyncedStepIsAnEdge
<1>1. PairsInv => SyncedStepIsAnEdge
  <2>1. SUFFICES ASSUME PairsInv, NEW h \in Handlers, call[h].r \notin loose
                 PROVE  LET c == call[h] IN
                        /\ c.step = "writeWork" =>
                              EdgeExists(WorkEdges, VisibleWork(h, c.w).status,
                                         WorkStatusFor[c.to])
                        /\ c.step = "writeRequest" =>
                              EdgeExists(RequestEdges, VisibleReq(h, c.r).status,
                                         RequestStatusFor[c.to])
    BY DEF SyncedStepIsAnEdge
  <2>2. StepStands(h) /\ CallOK(call[h])
    BY <2>1, CallAt
  <2>3. call[h].step = "writeRequest" => VisibleReq(h, call[h].r) = req[call[h].r]
    BY <2>1, <2>2, WorkMovedIs DEF VisibleReq, CallOK
  <2>4. QED
    BY <2>1, <2>2, <2>3, TableKeepsSteps DEF StepStands, CallOK
<1>2. QED
    BY <1>1, PairsInvariant, PTL

\* completed_at is set exactly in the rows that are done, if every request to resolve a
\* conflict brings a note (and so locks the request before it reads it).
THEOREM DoneMarks ==
    ASSUME NoBody \notin Bodies
    PROVE  Spec => []DoneIsCompleted
<1>1. PairsInv => DoneIsCompleted
  <2>1. SUFFICES ASSUME PairsInv PROVE DoneIsCompleted
    OBVIOUS
  <2>2. Marked /\ RowsThere /\ DirtyLinksMatch
    BY <2>1 DEF PairsInv, Clean, LinksOK
  <2>3. \A r \in Requests \ loose : req[r].completed <=> req[r].status = "done"
    BY <2>2 DEF Marked, MarkOK, IsDone
  <2>4. ASSUME NEW w \in Works, w \notin loose, work[w].source \notin loose
        PROVE  work[w].completed <=> work[w].status = "done"
    <3>1. CASE work[w].version = 0
      <4>1. work[w] \in {NoWork, GoneWork}
        BY <2>2, <3>1 DEF RowsThere
      <4>2. QED
        BY <4>1 DEF NoWork, GoneWork
    <3>2. CASE work[w].version # 0
      <4>1. work[w].version > 0
        BY <2>1, <3>2, RowsTyped DEF PairsInv
      <4>2. Free(w)
        BY <2>2, <2>4, <4>1 DEF Free, DirtyLinksMatch
      <4>3. QED
        BY <2>2, <4>2 DEF Marked, MarkOK, IsDone
    <3>3. QED
      BY <3>1, <3>2
  <2>5. QED
    BY <2>3, <2>4 DEF DoneIsCompleted
<1>2. QED
    BY <1>1, PairsInvariant, PTL
=============================================================================
