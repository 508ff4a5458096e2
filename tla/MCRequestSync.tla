---------------------------- MODULE MCRequestSync ----------------------------
(***************************************************************************)
(* The status_transitions the runs of RequestSync use: the seed's rows for *)
(* 'request', and its rows for 'work_item' with each status renamed as the *)
(* enum work_status was (approved to todo, need_review to in_review, ...). *)
(* What those rows for 'work_item' ask for beyond the notes Columns has    *)
(* (blocker_reason, assistance_needed) is left out: more steps are open.   *)
(***************************************************************************)
EXTENDS RequestSync, TLC

Edge(from, to, needs) == [from |-> from, to |-> to, needs |-> needs]

SeededRequestEdges ==
    {Edge("draft", "submitted", {}),
     Edge("submitted", "accepted", {}),
     Edge("submitted", "need_clarification", {"clarification_note"}),
     Edge("submitted", "rejected", {}),
     Edge("need_clarification", "submitted", {}),
     Edge("accepted", "in_progress", {}),
     Edge("in_progress", "need_review", {}),
     Edge("in_progress", "on_hold", {"hold_reason"}),
     Edge("on_hold", "in_progress", {}),
     Edge("need_review", "done", {"result_summary"}),
     Edge("need_review", "in_progress", {})}

\* The seed's rows are such as the proof of SyncedStepIsAnEdge asks for.
ASSUME SeededTableKeepsSteps == TableKeepsSteps

RenamedWorkEdges ==
    {Edge("backlog", "todo", {}),
     Edge("backlog", "canceled", {}),
     Edge("canceled", "backlog", {}),
     Edge("todo", "in_progress", {}),
     Edge("in_progress", "in_review", {}),
     Edge("in_progress", "blocked", {"hold_reason"}),
     Edge("blocked", "in_progress", {}),
     Edge("in_review", "done", {"completion_summary"}),
     Edge("in_review", "in_progress", {})}

\* Every body brings the notes; the run about CHECKs also has bodies without.
FullBodies == {[fill |-> Columns, clear |-> {}]}

\* Bodies that bring every note or none.
SomeBodies == FullBodies \union {NoBody}

(***************************************************************************)
(* The specification only ever asks whether a row still has the version a  *)
(* handler read.  The view keeps that answer (and whether the row is still *)
(* the one read) and forgets the numbers, so that finitely many states     *)
(* cover histories of every length: MaxVersion is then never reached.      *)
(***************************************************************************)
Unversioned(row) == [row EXCEPT !.version = IF @ = 0 THEN 0 ELSE 1]

Stale(c) ==
    \/ c.step = "ownRequest" /\ c.seenReq.version # req[c.r].version
    \/ c.step = "ownWork" /\ c.seenWork.version # work[c.w].version

\* The source of a work item can be emptied under the version that was read.
UnchangedWork(c) == WithoutItsSource(c.seenWork) = WithoutItsSource(work[c.w])
Unchanged(c) == << c.r # None /\ c.seenReq = req[c.r],
                   c.w # None /\ UnchangedWork(c), c.seenWork.source >>

SeenCall(c) == IF Stale(c)
               THEN <<c.step, c.r, c.w>>
               ELSE <<c.step, c.r, c.w, c.to, c.body, Unchanged(c),
                      c.seenReq.filled, c.seenReq.status = "done",
                    c.seenWork.filled, c.seenWork.status = "done">>

View == <<[r \in Requests |-> <<Unversioned(req[r]), Unversioned(dirtyReq[r])>>],
          [w \in Works |-> <<Unversioned(work[w]), Unversioned(dirtyWork[w])>>],
          loose, reqLock, workLock, [h \in Handlers |-> SeenCall(call[h])]>>

Symmetry == Permutations(Handlers)

\* And where clients create none, the work items are alike.
LinkedSymmetry == Symmetry \union Permutations(Works)
=============================================================================
