------------------------------- MODULE Stories -------------------------------
(***************************************************************************)
(* Work items with a parent: WorkItemsService closes a story with its last *)
(* task, opens it again with the first task that is opened again, and      *)
(* recalculates its story points when a task is added, moved or removed.   *)
(*                                                                         *)
(* Every row of work_items may be a task, a story or both.  A handler      *)
(* reads its own row before the transaction and writes it under a version  *)
(* check; what it does to the parent it does by id, from a SELECT of its   *)
(* own: the steps of a call are those statements.                          *)
(*                                                                         *)
(* PICs, notes and permissions are left out, the points are not counted    *)
(* (their recalculation locks and writes the parent, which is what matters *)
(* here), and the requests that items come from are those of RequestSync:  *)
(* no item has one here.                                                   *)
(***************************************************************************)
EXTENDS ReadCommitted, Integers

CONSTANTS Statuses,    \* of a work item
          Edges,       \* pairs of status_transitions for 'work_item'
          Nesting,     \* bound: the <<item, parent>> pairs clients ask for
          MaxVersion   \* bound: no handler starts on a row beyond it

ASSUME StatusAssumption == /\ {"backlog", "in_progress", "done"} \subseteq Statuses
                           /\ Edges \subseteq Statuses \X Statuses
ASSUME NestingAssumption == Nesting \subseteq Rows \X Rows
ASSUME BoundAssumption == MaxVersion \in Nat

VARIABLE call          \* what each handler is doing

vars == <<tableVars, call>>

-----------------------------------------------------------------------------
Item == [version: Nat, status: Statuses, completed: BOOLEAN,
         parent: Rows \union {None}, deleted: BOOLEAN]

NoItem == [version |-> 0, status |-> "backlog", completed |-> FALSE,
           parent |-> None, deleted |-> FALSE]
\* Deleted for good, and never inserted again (ids are not reused).
GoneItem == [NoItem EXCEPT !.deleted = TRUE]

Steps == {"idle", "move", "siblings", "closeParent", "parentStatus", "reopenParent",
          "patch", "remove", "setPoints", "commit"}

\* seen: the row read before the transaction; to, parent: what the body asks
\* for; parents: those whose points are still to be recalculated.
Call == [step: Steps, i: Rows \union {None}, seen: Item,
         to: Statuses, parent: Rows \union {None}, parents: SUBSET Rows]

Idle == [step |-> "idle", i |-> None, seen |-> NoItem,
         to |-> "backlog", parent |-> None, parents |-> {}]

TypeOK ==
    /\ table \in [Rows -> Item]
    /\ dirty \in [Rows -> Item]
    /\ lock \in [Rows -> Handlers \union {None}]
    /\ call \in [Handlers -> Call]

Init ==
    /\ table = [r \in Rows |-> NoItem]
    /\ dirty = table
    /\ lock = [r \in Rows |-> None]
    /\ call = [h \in Handlers |-> Idle]

-----------------------------------------------------------------------------
\* The API refuses no parent that exists; Nesting bounds what clients try.
MayHaveParent(i, parent) ==
    parent # None => <<i, parent>> \in Nesting /\ table[parent].version > 0

Live(row) == row.version > 0 /\ ~row.deleted

\* The tasks of a story a SELECT of the handler finds.
Tasks(h, p) == {r \in Rows : Live(Visible(h, r)) /\ Visible(h, r).parent = p}

Begin(h, c) ==
    /\ call[h].step = "idle"
    /\ call' = [call EXCEPT ![h] = c]
    /\ UNCHANGED tableVars

Goto(h, c) == call' = [call EXCEPT ![h] = c]

\* What the own row's transaction still has to do to the parents.
Recalculate(c, parents) ==
    [c EXCEPT !.step = IF parents = {} THEN "commit" ELSE "setPoints", !.parents = parents]

\* Of two parents the one the row had is first.
NextParent(c) == IF c.seen.parent \in c.parents THEN c.seen.parent ELSE c.parent

Rollback(h) == RollbackRows(h) /\ Goto(h, Idle)

Commit(h) ==
    /\ call[h].step = "commit"
    /\ CommitRows(h)
    /\ Goto(h, Idle)

Needs(h) ==
    LET c == call[h] IN
    CASE c.step \in {"move", "patch", "remove"} -> {c.i}
      [] c.step \in {"closeParent", "reopenParent"} -> {c.parent}
      [] c.step = "setPoints" -> {NextParent(c)}
      [] OTHER -> {}

AbortDeadlocked(h) == OnCycle(h, [g \in Handlers |-> Needs(g)]) /\ Rollback(h)

\* The instance dies, a statement fails, or Postgres aborts the transaction
\* because it waits on a circle with the DELETE of a row.
Stop(h) == call[h].step # "idle" /\ Rollback(h)

-----------------------------------------------------------------------------
(* Starting a call.                                                        *)

\* WorkItemsService.create: the id is new, so the INSERT waits for nobody.
StartCreate(h, i, parent) ==
    /\ call[h].step = "idle"
    /\ table[i] = NoItem /\ lock[i] = None
    /\ MayHaveParent(i, parent)
    /\ Write(h, i, [NoItem EXCEPT !.version = 1, !.parent = parent])
    /\ Goto(h, Recalculate([Idle EXCEPT !.i = i, !.parent = parent], {parent} \ {None}))

\* WorkItemsService.transition
StartTransition(h, i, to) ==
    /\ Live(table[i]) /\ table[i].version < MaxVersion
    /\ <<table[i].status, to>> \in Edges
    /\ Begin(h, [Idle EXCEPT !.step = "move", !.i = i, !.seen = table[i], !.to = to,
                             !.parent = table[i].parent])

\* WorkItemsService.update of the parent, or of other columns
StartUpdate(h, i, parent) ==
    /\ Live(table[i]) /\ table[i].version < MaxVersion
    /\ MayHaveParent(i, parent)
    /\ Begin(h, [Idle EXCEPT !.step = "patch", !.i = i, !.seen = table[i],
                             !.parent = parent])

\* WorkItemsService.remove
StartRemove(h, i) ==
    /\ Live(table[i]) /\ table[i].version < MaxVersion
    /\ Begin(h, [Idle EXCEPT !.step = "remove", !.i = i, !.seen = table[i],
                             !.parent = table[i].parent])

\* WorkItemsService.createStoryWithTasks: nobody else sees its rows before the
\* commit, so the transaction is one step.
CreateStoryWithTasks(i, tasks) ==
    LET new == {i} \union tasks
        Row(r) == [NoItem EXCEPT !.version = 1, !.parent = IF r = i THEN None ELSE i]
    IN
    /\ tasks \X {i} \subseteq Nesting /\ i \notin tasks
    /\ \A r \in new : table[r] = NoItem /\ lock[r] = None
    /\ table' = [r \in Rows |-> IF r \in new THEN Row(r) ELSE table[r]]
    /\ dirty' = [r \in Rows |-> IF r \in new THEN Row(r) ELSE dirty[r]]
    /\ UNCHANGED <<lock, call>>

\* RecycleBinService.restore: one statement, by id, that recalculates nothing.
Restore(i) ==
    /\ 0 < table[i].version /\ table[i].version < MaxVersion
    /\ WriteThrough(i, [table[i] EXCEPT !.deleted = FALSE, !.version = @ + 1])
    /\ UNCHANGED call

\* The item and the items under it, which the foreign key of parent_id deletes
\* with it (ON DELETE CASCADE).
TreeOf(i) ==
    LET HasItsTasks(S) == \A r \in Rows : table[r].parent \in S => r \in S
    IN {r \in Rows : \A S \in SUBSET Rows : i \in S /\ HasItsTasks(S) => r \in S}

\* RecycleBinService.permanentlyDelete: DELETE by id, whether or not the item is in
\* the bin.  A transaction of its own, which waits for the rows it deletes and for
\* those that are being put under one of them (their foreign key locks it).
PurgeTree(i) ==
    LET gone == TreeOf(i) IN
    /\ table[i].version > 0
    /\ \A r \in Rows : lock[r] # None => r \notin gone /\ dirty[r].parent \notin gone
    /\ table' = [r \in Rows |-> IF r \in gone THEN GoneItem ELSE table[r]]
    /\ dirty' = [r \in Rows |-> IF r \in gone THEN GoneItem ELSE dirty[r]]
    /\ UNCHANGED <<lock, call>>

-----------------------------------------------------------------------------
(* The steps of a transaction.                                             *)

\* WHERE version = If-Match finds the row that was read, or the call ends.
NoIfMatch(row, seen) == TRUE
IfMatch(row, seen) == row.version = seen.version

\* What the SET clause of each handler makes of the row.
OwnRow(c) ==
    LET row == table[c.i] IN
    CASE c.step = "move" ->
             [row EXCEPT !.status = c.to, !.version = @ + 1,
                         !.completed = c.to = "done" \/ (@ /\ c.seen.status # "done")]
      [] c.step = "patch" ->
             [row EXCEPT !.parent = c.parent, !.version = @ + 1]
      [] c.step = "remove" -> [row EXCEPT !.deleted = TRUE, !.version = @ + 1]

\* The parents before and after the write, whose points are recalculated.
ParentsOrNull(c) == {c.seen.parent, c.parent}
Parents(c) == {c.seen.parent, c.parent} \ {None}

\* What follows: a transition rolls its status up to the parent, the others
\* recalculate the points of the parents the row had and has.
AfterOwn(c) ==
    IF c.step = "move"
    THEN [c EXCEPT !.step =
             CASE c.parent # None /\ c.to = "done" -> "siblings"
               [] c.parent # None /\ c.to # "done" /\ c.seen.status = "done" -> "parentStatus"
               [] OTHER -> "commit"]
    ELSE Recalculate(c, Parents(c))

AtOwnRow(h) == call[h].step \in {"move", "patch", "remove"} /\ CanLock(h, call[h].i)

\* The foreign key of parent_id.
ParentThere(c) == c.parent # None => table[c.parent].version > 0

RefuseOwn(h) ==
    /\ AtOwnRow(h)
    /\ IfMatch(table[call[h].i], call[h].seen) => ~ParentThere(call[h])
    /\ Rollback(h)

WriteOwn(h) ==
    /\ AtOwnRow(h)
    /\ IfMatch(table[call[h].i], call[h].seen)
    /\ ParentThere(call[h])
    /\ Write(h, call[h].i, OwnRow(call[h]))
    /\ Goto(h, AfterOwn(call[h]))

\* The roll-up: all the tasks this transaction can see are done.
ReadSiblings(h) ==
    LET c == call[h] IN
    /\ c.step = "siblings"
    /\ Goto(h, [c EXCEPT !.step =
           IF \A r \in Tasks(h, c.parent) : r = c.i \/ Visible(h, r).status = "done"
           THEN "closeParent" ELSE "commit"])
    /\ UNCHANGED tableVars

ClosedQuietly(row) == [row EXCEPT !.status = "done", !.completed = TRUE]
Closed(row) == [row EXCEPT !.status = "done", !.completed = TRUE, !.version = @ + 1]

CloseParent(h) ==
    LET c == call[h]
        p == c.parent
    IN
    /\ c.step = "closeParent" /\ CanLock(h, p)
    /\ Write(h, p, Closed(Visible(h, p)))
    /\ Goto(h, [c EXCEPT !.step = "commit"])

ReadParent(h) ==
    LET c == call[h] IN
    /\ c.step = "parentStatus"
    /\ Goto(h, [c EXCEPT !.step = IF Visible(h, c.parent).status = "done"
                                  THEN "reopenParent" ELSE "commit"])
    /\ UNCHANGED tableVars

Reopened(row) ==
    [row EXCEPT !.status = "in_progress", !.completed = FALSE, !.version = @ + 1]

ReopenParent(h) ==
    LET c == call[h]
        p == c.parent
    IN
    /\ c.step = "reopenParent" /\ CanLock(h, p)
    /\ Write(h, p, Reopened(Visible(h, p)))
    /\ Goto(h, [c EXCEPT !.step = "commit"])

\* recalculateParentStoryPoints: the UPDATE of the parent, by id, does not
\* count the version up.
SetPoints(h) ==
    LET c == call[h]
        p == NextParent(c)
    IN
    /\ c.step = "setPoints" /\ CanLock(h, p)
    /\ Write(h, p, Visible(h, p))
    /\ Goto(h, Recalculate(c, c.parents \ {p}))

-----------------------------------------------------------------------------
Start(h) ==
    \E i \in Rows :
       \/ \E parent \in Rows \union {None} : StartCreate(h, i, parent) \/ StartUpdate(h, i, parent)
       \/ \E to \in Statuses : StartTransition(h, i, to)
       \/ StartRemove(h, i)

Advance(h) ==
    \/ WriteOwn(h) \/ RefuseOwn(h)
    \/ ReadSiblings(h) \/ CloseParent(h)
    \/ ReadParent(h) \/ ReopenParent(h)
    \/ SetPoints(h)
    \/ Commit(h)

Next ==
    \/ \E h \in Handlers : Start(h) \/ Advance(h) \/ AbortDeadlocked(h) \/ Stop(h)
    \/ \E i \in Rows :
          \/ Restore(i)
          \/ PurgeTree(i)
          \/ \E tasks \in SUBSET Rows : CreateStoryWithTasks(i, tasks)

Spec == Init /\ [][Next]_vars

-----------------------------------------------------------------------------
\* A client that knows the version of an item knows its status and its parent:
\* whatever moves one of them, roll-ups included, raises the version, unless the
\* item goes for good.
StatusMovesVersion ==
    [][\A i \in Rows :
          \/ table'[i].version > table[i].version
          \/ table'[i] = GoneItem
          \/ /\ table'[i].version = table[i].version
             /\ table'[i].status = table[i].status
             /\ table'[i].parent = table[i].parent
             /\ table'[i].deleted = table[i].deleted]_vars

\* The transition that commits the last open task of a story as done leaves
\* the story done ("Roll-up ke Story jika semua child task berstatus done").
LastTaskClosesStory ==
    [][\A h \in Handlers :
          LET c == call[h]
              siblings == {r \in Rows : Live(table'[r]) /\ table'[r].parent = c.parent}
          IN
          Commit(h) /\ c.to = "done" /\ c.parent # None
              /\ (\A r \in siblings : table'[r].status = "done")
          => table'[c.parent].status = "done"]_vars
=============================================================================
