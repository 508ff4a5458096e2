---------------------------- MODULE StoriesProofs ----------------------------
(***************************************************************************)
(* The types of Stories' state, and that whatever moves an item's status   *)
(* or its parent raises the version a client may bring as If-Match, for    *)
(* any set of items, handlers, statuses and steps between them.            *)
(***************************************************************************)
EXTENDS Stories, TLAPS

\* A row of the table may become this one without a client of the old version
\* being misled.
Succeeds(new, old) ==
    \/ new.version > old.version
    \/ /\ new.version = old.version
       /\ new.status = old.status
       /\ new.parent = old.parent
       /\ new.deleted = old.deleted

\* What a transaction has written may be committed.
WritesSucceed == \A r \in Rows : lock[r] # None => Succeeds(dirty[r], table[r])

\* What the next statement of a call names is there to be named.
HasRows(c) ==
    /\ c.step \in {"move", "patch", "remove"} => c.i \in Rows
    /\ c.step \in {"siblings", "closeParent", "parentStatus", "reopenParent"} => c.parent \in Rows
    /\ c.parents \subseteq {c.seen.parent, c.parent}
    /\ c.step = "setPoints" => c.parents # {}

CallsHaveRows == \A h \in Handlers : HasRows(call[h])

StoriesInv == TypeOK /\ WritesSucceed /\ CallsHaveRows

-----------------------------------------------------------------------------
\* No row is an item with the types of one.
LEMMA NoItemTyped == NoItem \in Item
BY StatusAssumption DEF NoItem, Item

\* Nor is one that is gone.
LEMMA GoneItemTyped == GoneItem \in Item
BY NoItemTyped DEF GoneItem, Item

\* A handler that does nothing.
LEMMA IdleTyped == Idle \in Call /\ HasRows(Idle)
BY NoItemTyped, StatusAssumption, NoneAssumption DEF Idle, Call, Steps, HasRows

\* Succeeding is transitive, so a transaction may write a row twice.
LEMMA SucceedsTwice ==
    ASSUME NEW a \in Item, NEW b \in Item, NEW c \in Item, Succeeds(a, b), Succeeds(b, c)
    PROVE  Succeeds(a, c)
BY DEF Succeeds, Item

\* A row that is left alone misleads nobody.
LEMMA SucceedsItself == ASSUME NEW a PROVE Succeeds(a, a)
BY DEF Succeeds

\* There is no item and no call.
LEMMA StoriesStart == Init => StoriesInv
<1> SUFFICES ASSUME Init PROVE StoriesInv
    OBVIOUS
<1>1. TypeOK
  BY NoItemTyped, IdleTyped DEF Init, TypeOK
<1>2. WritesSucceed
  BY DEF Init, WritesSucceed
<1>3. CallsHaveRows
  BY IdleTyped DEF Init, CallsHaveRows
<1> QED BY <1>1, <1>2, <1>3 DEF StoriesInv

\* The row a statement finds has its types, and may succeed the committed one.
LEMMA VisibleSucceeds ==
    ASSUME StoriesInv, NEW h \in Handlers, NEW r \in Rows
    PROVE  Visible(h, r) \in Item /\ Succeeds(Visible(h, r), table[r])
<1>1. h # None
  BY NoneAssumption
<1> QED
  BY <1>1, SucceedsItself DEF StoriesInv, TypeOK, WritesSucceed, Visible

\* A step of a call that writes nothing.
LEMMA QuietKeeps ==
    ASSUME StoriesInv, NEW h \in Handlers, NEW c \in Call, HasRows(c),
           Goto(h, c), UNCHANGED tableVars
    PROVE  StoriesInv'
<1>1. TypeOK'
  BY DEF StoriesInv, TypeOK, Goto, tableVars
<1>2. WritesSucceed'
  BY DEF StoriesInv, WritesSucceed, tableVars
<1>3. CallsHaveRows'
  BY DEF StoriesInv, TypeOK, CallsHaveRows, Goto
<1> QED BY <1>1, <1>2, <1>3 DEF StoriesInv

\* A step of a call that writes a row which may succeed the committed one.
LEMMA WriteKeeps ==
    ASSUME StoriesInv, NEW h \in Handlers, NEW c \in Call, HasRows(c),
           NEW r \in Rows, NEW row \in Item, Succeeds(row, table[r]),
           Write(h, r, row), Goto(h, c)
    PROVE  StoriesInv'
<1>1. TypeOK'
  BY DEF StoriesInv, TypeOK, Goto, Write
<1>2. WritesSucceed'
  BY DEF StoriesInv, TypeOK, WritesSucceed, Write
<1>3. CallsHaveRows'
  BY DEF StoriesInv, TypeOK, CallsHaveRows, Goto
<1> QED BY <1>1, <1>2, <1>3 DEF StoriesInv

\* A rollback gives the rows of the transaction back as they were.
LEMMA RollbackKeeps ==
    ASSUME StoriesInv, NEW h \in Handlers, Rollback(h)
    PROVE  StoriesInv'
<1>1. TypeOK'
  BY IdleTyped DEF StoriesInv, TypeOK, Rollback, RollbackRows, Released, Goto
<1>2. WritesSucceed'
  <2> SUFFICES ASSUME NEW r \in Rows, lock'[r] # None
               PROVE  Succeeds(dirty'[r], table'[r])
      BY DEF WritesSucceed
  <2>1. lock[r] # h /\ lock[r] # None
    BY DEF Rollback, RollbackRows, Released
  <2> QED BY <2>1 DEF StoriesInv, WritesSucceed, Rollback, RollbackRows
<1>3. CallsHaveRows'
  BY IdleTyped DEF StoriesInv, TypeOK, CallsHaveRows, Rollback, Goto
<1> QED BY <1>1, <1>2, <1>3 DEF StoriesInv

\* A commit.
LEMMA CommitKeeps ==
    ASSUME StoriesInv, NEW h \in Handlers, Commit(h)
    PROVE  StoriesInv'
<1>1. TypeOK'
  BY IdleTyped, VisibleSucceeds DEF StoriesInv, TypeOK, Commit, CommitRows, Released, Goto
<1>2. WritesSucceed'
  <2> SUFFICES ASSUME NEW r \in Rows, lock'[r] # None
               PROVE  Succeeds(dirty'[r], table'[r])
      BY DEF WritesSucceed
  <2>1. lock[r] # h /\ lock[r] # None
    BY DEF Commit, CommitRows, Released
  <2>2. dirty'[r] = dirty[r] /\ table'[r] = table[r]
    BY <2>1 DEF Commit, CommitRows, Visible
  <2> QED BY <2>1, <2>2 DEF StoriesInv, WritesSucceed
<1>3. CallsHaveRows'
  BY IdleTyped DEF StoriesInv, TypeOK, CallsHaveRows, Commit, Goto
<1> QED BY <1>1, <1>2, <1>3 DEF StoriesInv

-----------------------------------------------------------------------------
\* The points that remain to be recalculated.
LEMMA RecalculateTyped ==
    ASSUME NEW c \in Call, HasRows(c), NEW parents \in SUBSET Rows,
           parents \subseteq {c.seen.parent, c.parent}
    PROVE  Recalculate(c, parents) \in Call /\ HasRows(Recalculate(c, parents))
<1>1. CASE parents = {}
  <2>1. Recalculate(c, parents) = [c EXCEPT !.step = "commit", !.parents = parents]
    BY <1>1 DEF Recalculate
  <2>2. [c EXCEPT !.step = "commit", !.parents = parents] \in Call
    BY DEF Call, Steps
  <2>3. HasRows([c EXCEPT !.step = "commit", !.parents = parents])
    BY DEF HasRows, Call
  <2> QED BY <2>1, <2>2, <2>3
<1>2. CASE parents # {}
  <2>1. Recalculate(c, parents) = [c EXCEPT !.step = "setPoints", !.parents = parents]
    BY <1>2 DEF Recalculate
  <2>2. [c EXCEPT !.step = "setPoints", !.parents = parents] \in Call
    BY DEF Call, Steps
  <2>3. HasRows([c EXCEPT !.step = "setPoints", !.parents = parents])
    BY <1>2 DEF HasRows, Call
  <2> QED BY <2>1, <2>2, <2>3
<1> QED BY <1>1, <1>2

\* An item is inserted under one that may have it.
LEMMA CreateKeeps ==
    ASSUME StoriesInv, NEW h \in Handlers, NEW i \in Rows, NEW parent \in Rows \union {None},
           StartCreate(h, i, parent)
    PROVE  StoriesInv'
<1> DEFINE row == [NoItem EXCEPT !.version = 1, !.parent = parent]
           c   == [Idle EXCEPT !.i = i, !.parent = parent]
           parents == {parent} \ {None}
<1>1. row \in Item /\ row.version = 1
  BY NoItemTyped DEF NoItem, Item
<1>2. Succeeds(row, table[i])
  BY <1>1 DEF Succeeds, StartCreate, NoItem
<1>3. c \in Call /\ c.parent = parent /\ c.step = "idle" /\ c.parents = {}
  BY IdleTyped DEF Idle, Call
<1>4. HasRows(c)
  BY <1>3 DEF HasRows
<1>5. parents \in SUBSET Rows /\ parents \subseteq {c.seen.parent, c.parent}
  BY <1>3
<1>6. Recalculate(c, parents) \in Call /\ HasRows(Recalculate(c, parents))
  BY <1>3, <1>4, <1>5, RecalculateTyped
<1>7. Write(h, i, row) /\ Goto(h, Recalculate(c, parents))
  BY DEF StartCreate
<1> HIDE DEF row, c, parents
<1> QED BY <1>1, <1>2, <1>6, <1>7, WriteKeeps

\* The other calls begin by reading their row.
LEMMA BeginKeeps ==
    ASSUME StoriesInv, NEW h \in Handlers, NEW c \in Call, Begin(h, c),
           c.step \in {"move", "patch", "remove"}, c.i \in Rows, c.parents = {}
    PROVE  StoriesInv'
<1>1. HasRows(c)
  BY DEF HasRows
<1>2. Goto(h, c) /\ UNCHANGED tableVars
  BY DEF Begin, Goto
<1> QED BY <1>1, <1>2, QuietKeeps

\* A call has read its item and passed the checks.
LEMMA StartsKeep ==
    ASSUME StoriesInv, NEW h \in Handlers, Start(h)
    PROVE  StoriesInv'
<1> PICK i \in Rows :
       \/ \E parent \in Rows \union {None} : StartCreate(h, i, parent) \/ StartUpdate(h, i, parent)
       \/ \E to \in Statuses : StartTransition(h, i, to)
       \/ StartRemove(h, i)
    BY DEF Start
<1>0. table[i] \in Item /\ table[i].parent \in Rows \union {None}
  BY DEF StoriesInv, TypeOK, Item
<1>1. ASSUME NEW parent \in Rows \union {None}, StartCreate(h, i, parent)
      PROVE  StoriesInv'
  BY <1>1, CreateKeeps
<1>2. ASSUME NEW parent \in Rows \union {None}, StartUpdate(h, i, parent)
      PROVE  StoriesInv'
  <2> DEFINE c == [Idle EXCEPT !.step = "patch", !.i = i, !.seen = table[i], !.parent = parent]
  <2>1. c \in Call /\ c.step = "patch" /\ c.i = i /\ c.parents = {}
    BY <1>0, IdleTyped DEF Idle, Call, Steps
  <2>2. Begin(h, c)
    BY <1>2 DEF StartUpdate
  <2> HIDE DEF c
  <2> QED BY <2>1, <2>2, BeginKeeps
<1>3. ASSUME NEW to \in Statuses, StartTransition(h, i, to)
      PROVE  StoriesInv'
  <2> DEFINE c == [Idle EXCEPT !.step = "move", !.i = i, !.seen = table[i], !.to = to,
                               !.parent = table[i].parent]
  <2>1. c \in Call /\ c.step = "move" /\ c.i = i /\ c.parents = {}
    BY <1>0, IdleTyped DEF Idle, Call, Steps
  <2>2. Begin(h, c)
    BY <1>3 DEF StartTransition
  <2> HIDE DEF c
  <2> QED BY <2>1, <2>2, BeginKeeps
<1>4. CASE StartRemove(h, i)
  <2> DEFINE c == [Idle EXCEPT !.step = "remove", !.i = i, !.seen = table[i],
                               !.parent = table[i].parent]
  <2>1. c \in Call /\ c.step = "remove" /\ c.i = i /\ c.parents = {}
    BY <1>0, IdleTyped DEF Idle, Call, Steps
  <2>2. Begin(h, c)
    BY <1>4 DEF StartRemove
  <2> HIDE DEF c
  <2> QED BY <2>1, <2>2, BeginKeeps
<1> QED BY <1>1, <1>2, <1>3, <1>4

\* The statements outside the steps of a call: createStoryWithTasks ...
LEMMA CreateStoryKeeps ==
    ASSUME StoriesInv, NEW i \in Rows, NEW tasks \in SUBSET Rows, CreateStoryWithTasks(i, tasks)
    PROVE  StoriesInv'
<1> DEFINE new == {i} \union tasks
           Row(r) == [NoItem EXCEPT !.version = 1, !.parent = IF r = i THEN None ELSE i]
<1>1. \A r \in Rows : Row(r) \in Item
  BY NoItemTyped DEF NoItem, Item
<1>2. \A r \in Rows : /\ table'[r] = IF r \in new THEN Row(r) ELSE table[r]
                      /\ dirty'[r] = IF r \in new THEN Row(r) ELSE dirty[r]
  BY DEF CreateStoryWithTasks
<1>3. UNCHANGED <<lock, call>> /\ \A r \in new : lock[r] = None
  BY DEF CreateStoryWithTasks
<1>4. TypeOK'
  <2>1. table' \in [Rows -> Item] /\ dirty' \in [Rows -> Item]
    BY <1>1 DEF CreateStoryWithTasks, StoriesInv, TypeOK
  <2> QED BY <2>1, <1>3 DEF StoriesInv, TypeOK
<1>5. WritesSucceed'
  BY <1>2, <1>3 DEF StoriesInv, WritesSucceed
<1>6. CallsHaveRows'
  BY <1>3 DEF StoriesInv, CallsHaveRows
<1> QED BY <1>4, <1>5, <1>6 DEF StoriesInv

\* ... the bin's restore ...
LEMMA RestoreKeeps ==
    ASSUME StoriesInv, NEW i \in Rows, Restore(i)
    PROVE  StoriesInv'
<1> DEFINE row == [table[i] EXCEPT !.deleted = FALSE, !.version = @ + 1]
<1>1. row \in Item
  <2>1. table[i] \in Item /\ table[i].version + 1 \in Nat
    BY DEF StoriesInv, TypeOK, Item
  <2> QED BY <2>1 DEF Item
<1>2. WriteThrough(i, row) /\ UNCHANGED call
  BY DEF Restore
<1> HIDE DEF row
<1>3. TypeOK'
  BY <1>1, <1>2 DEF StoriesInv, TypeOK, WriteThrough
<1>4. WritesSucceed'
  BY <1>2 DEF StoriesInv, TypeOK, WritesSucceed, WriteThrough
<1>5. CallsHaveRows'
  BY <1>2 DEF StoriesInv, CallsHaveRows
<1> QED BY <1>3, <1>4, <1>5 DEF StoriesInv

\* ... and its deletion of a row nobody has locked, with those under it.
LEMMA PurgeKeeps ==
    ASSUME StoriesInv, NEW i \in Rows, PurgeTree(i)
    PROVE  StoriesInv'
<1> DEFINE gone == TreeOf(i)
<1>1. /\ \A r \in Rows : lock[r] # None => r \notin gone
      /\ table' = [r \in Rows |-> IF r \in gone THEN GoneItem ELSE table[r]]
      /\ dirty' = [r \in Rows |-> IF r \in gone THEN GoneItem ELSE dirty[r]]
      /\ UNCHANGED <<lock, call>>
  BY DEF PurgeTree
<1> HIDE DEF gone
<1>2. TypeOK'
  BY <1>1, GoneItemTyped DEF StoriesInv, TypeOK
<1>3. WritesSucceed'
  BY <1>1 DEF StoriesInv, TypeOK, WritesSucceed
<1>4. CallsHaveRows'
  BY <1>1 DEF StoriesInv, CallsHaveRows
<1> QED BY <1>2, <1>3, <1>4 DEF StoriesInv

-----------------------------------------------------------------------------
\* The UPDATE of the own row.
LEMMA WriteOwnKeeps ==
    ASSUME StoriesInv, NEW h \in Handlers, WriteOwn(h)
    PROVE  StoriesInv'
<1> DEFINE c == call[h]
<1>1. c \in Call /\ HasRows(c) /\ c.step \in {"move", "patch", "remove"} /\ c.i \in Rows
  BY DEF StoriesInv, TypeOK, CallsHaveRows, HasRows, WriteOwn, AtOwnRow
<1>2. table[c.i] \in Item
  BY <1>1 DEF StoriesInv, TypeOK
<1>3. OwnRow(c) \in Item /\ OwnRow(c).version = table[c.i].version + 1
  <2>1. /\ c.to \in Statuses /\ c.parent \in Rows \union {None}
        /\ table[c.i].version + 1 \in Nat
    BY <1>1, <1>2 DEF Call, Item
  <2>2. CASE c.step = "move"
    <3> DEFINE completed == c.to = "done" \/ (table[c.i].completed /\ c.seen.status # "done")
    <3>1. completed \in BOOLEAN
      OBVIOUS
    <3>2. OwnRow(c) = [table[c.i] EXCEPT !.status = c.to, !.version = table[c.i].version + 1,
                                         !.completed = completed]
      BY <2>2 DEF OwnRow
    <3> HIDE DEF completed
    <3> QED BY <3>1, <3>2, <2>1, <1>2 DEF Item
  <2>3. CASE c.step = "patch"
    <3>1. OwnRow(c) = [table[c.i] EXCEPT !.parent = c.parent, !.version = @ + 1]
      BY <2>3 DEF OwnRow
    <3> QED BY <3>1, <2>1, <1>2 DEF Item
  <2>4. CASE c.step = "remove"
    <3>1. OwnRow(c) = [table[c.i] EXCEPT !.deleted = TRUE, !.version = @ + 1]
      BY <2>4 DEF OwnRow
    <3> QED BY <3>1, <2>1, <1>2 DEF Item
  <2> QED BY <1>1, <2>2, <2>3, <2>4
<1>4. Succeeds(OwnRow(c), table[c.i])
  BY <1>2, <1>3 DEF Succeeds, Item
<1>5. AfterOwn(c) \in Call /\ HasRows(AfterOwn(c))
  <2>1. CASE c.step = "move"
    <3> PICK step \in {"siblings", "parentStatus", "commit"} :
            /\ AfterOwn(c) = [c EXCEPT !.step = step]
            /\ step # "commit" => c.parent # None
      BY <2>1 DEF AfterOwn
    <3>1. [c EXCEPT !.step = step] \in Call
      BY <1>1 DEF Call, Steps
    <3>2. HasRows([c EXCEPT !.step = step])
      BY <1>1 DEF HasRows, Call
    <3> QED BY <3>1, <3>2
  <2>2. CASE c.step # "move"
    <3>1. Parents(c) \in SUBSET Rows /\ Parents(c) \subseteq {c.seen.parent, c.parent}
      BY <1>1 DEF Parents, Call, Item
    <3> QED BY <2>2, <3>1, <1>1, RecalculateTyped DEF AfterOwn
  <2> QED BY <2>1, <2>2
<1> QED BY <1>1, <1>3, <1>4, <1>5, WriteKeeps DEF WriteOwn

\* The steps on the parent: each writes a row it has seen, or moves on.
LEMMA ParentStepKeeps ==
    ASSUME StoriesInv, NEW h \in Handlers,
           NEW step \in {"closeParent", "reopenParent", "commit"},
           call[h].step \in {"siblings", "closeParent", "parentStatus", "reopenParent"},
           Goto(h, [call[h] EXCEPT !.step = step]),
           \/ UNCHANGED tableVars
           \/ \E row \in Item : /\ Write(h, call[h].parent, row)
                                /\ Succeeds(row, Visible(h, call[h].parent))
    PROVE  StoriesInv'
<1> DEFINE c == [call[h] EXCEPT !.step = step]
<1>1. call[h] \in Call /\ HasRows(call[h]) /\ call[h].parent \in Rows
  BY DEF StoriesInv, TypeOK, CallsHaveRows, HasRows
<1>2. c \in Call
  BY <1>1 DEF Call, Steps
<1>3. HasRows(c)
  BY <1>1 DEF HasRows, Call
<1>4. CASE UNCHANGED tableVars
  BY <1>2, <1>3, <1>4, QuietKeeps
<1>5. ASSUME NEW row \in Item, Write(h, call[h].parent, row),
             Succeeds(row, Visible(h, call[h].parent))
      PROVE  StoriesInv'
  <2>1. Succeeds(row, table[call[h].parent])
    <3>1. table[call[h].parent] \in Item
      BY <1>1 DEF StoriesInv, TypeOK
    <3> QED BY <1>1, <1>5, <3>1, VisibleSucceeds, SucceedsTwice
  <2> QED BY <1>1, <1>2, <1>3, <1>5, <2>1, WriteKeeps
<1> QED BY <1>4, <1>5

\* A story that is closed by its tasks has a new version.
LEMMA ClosedSucceeds ==
    ASSUME NEW row \in Item
    PROVE  Closed(row) \in Item /\ Succeeds(Closed(row), row)
<1>1. row.version \in Nat /\ row.version + 1 \in Nat /\ "done" \in Statuses
  BY StatusAssumption DEF Item
<1>2. Closed(row) = [row EXCEPT !.status = "done", !.completed = TRUE, !.version = row.version + 1]
  BY DEF Closed
<1>3. Closed(row) \in Item
  BY <1>1, <1>2 DEF Item
<1>4. Closed(row).version = row.version + 1
  BY <1>2 DEF Item
<1> QED BY <1>1, <1>3, <1>4 DEF Succeeds

\* And so has one that is opened again.
LEMMA ReopenedSucceeds ==
    ASSUME NEW row \in Item
    PROVE  Reopened(row) \in Item /\ Succeeds(Reopened(row), row)
<1>1. row.version \in Nat /\ row.version + 1 \in Nat /\ "in_progress" \in Statuses
  BY StatusAssumption DEF Item
<1>2. Reopened(row) = [row EXCEPT !.status = "in_progress", !.completed = FALSE, !.version = row.version + 1]
  BY DEF Reopened
<1>3. Reopened(row) \in Item
  BY <1>1, <1>2 DEF Item
<1>4. Reopened(row).version = row.version + 1
  BY <1>2 DEF Item
<1> QED BY <1>1, <1>3, <1>4 DEF Succeeds

\* The roll-up reads siblings and parent, and closes or reopens the parent.
LEMMA RollUpKeeps ==
    ASSUME StoriesInv, NEW h \in Handlers,
           ReadSiblings(h) \/ CloseParent(h) \/ ReadParent(h) \/ ReopenParent(h)
    PROVE  StoriesInv'
<1> DEFINE p == call[h].parent
<1>1. CASE ReadSiblings(h)
  <2> PICK step \in {"closeParent", "commit"} : Goto(h, [call[h] EXCEPT !.step = step])
    BY <1>1 DEF ReadSiblings
  <2> QED BY <1>1, ParentStepKeeps DEF ReadSiblings
<1>2. CASE ReadParent(h)
  <2> PICK step \in {"reopenParent", "commit"} : Goto(h, [call[h] EXCEPT !.step = step])
    BY <1>2 DEF ReadParent
  <2> QED BY <1>2, ParentStepKeeps DEF ReadParent
<1>3. CASE CloseParent(h)
  <2>1. p \in Rows
    BY <1>3 DEF StoriesInv, CallsHaveRows, HasRows, CloseParent
  <2>2. Visible(h, p) \in Item
    BY <2>1, VisibleSucceeds
  <2>3. Closed(Visible(h, p)) \in Item /\ Succeeds(Closed(Visible(h, p)), Visible(h, p))
    BY <2>2, ClosedSucceeds
  <2> QED BY <1>3, <2>3, ParentStepKeeps DEF CloseParent
<1>4. CASE ReopenParent(h)
  <2>1. p \in Rows
    BY <1>4 DEF StoriesInv, CallsHaveRows, HasRows, ReopenParent
  <2>2. Visible(h, p) \in Item
    BY <2>1, VisibleSucceeds
  <2>3. Reopened(Visible(h, p)) \in Item /\ Succeeds(Reopened(Visible(h, p)), Visible(h, p))
    BY <2>2, ReopenedSucceeds
  <2> QED BY <1>4, <2>3, ParentStepKeeps DEF ReopenParent
<1> QED BY <1>1, <1>2, <1>3, <1>4

\* The points of a story are written without a new version: its status stays.
LEMMA SetPointsKeeps ==
    ASSUME StoriesInv, NEW h \in Handlers, SetPoints(h)
    PROVE  StoriesInv'
<1> DEFINE c == call[h]
           p == NextParent(c)
<1>1. c \in Call /\ HasRows(c) /\ c.step = "setPoints"
  BY DEF StoriesInv, TypeOK, CallsHaveRows, SetPoints
<1>2. c.parents \subseteq Rows /\ c.parents # {} /\ c.parents \subseteq {c.seen.parent, c.parent}
  BY <1>1 DEF HasRows, Call
<1>3. p \in Rows
  BY <1>2 DEF NextParent
<1>4. Visible(h, p) \in Item /\ Succeeds(Visible(h, p), table[p])
  BY <1>3, VisibleSucceeds
<1>5. c.parents \ {p} \in SUBSET Rows /\ c.parents \ {p} \subseteq {c.seen.parent, c.parent}
  BY <1>2
<1>6. Recalculate(c, c.parents \ {p}) \in Call /\ HasRows(Recalculate(c, c.parents \ {p}))
  BY <1>1, <1>5, RecalculateTyped
<1>7. Write(h, p, Visible(h, p)) /\ Goto(h, Recalculate(c, c.parents \ {p}))
  BY DEF SetPoints
<1> HIDE DEF c, p
<1> QED BY <1>3, <1>4, <1>6, <1>7, WriteKeeps

\* Every step keeps the invariant.
LEMMA StoriesStep == StoriesInv /\ [Next]_vars => StoriesInv'
<1> SUFFICES ASSUME StoriesInv, [Next]_vars PROVE StoriesInv'
    OBVIOUS
<1>1. CASE UNCHANGED vars
  BY <1>1 DEF vars, tableVars, StoriesInv, TypeOK, WritesSucceed, CallsHaveRows
<1>2. ASSUME NEW h \in Handlers, Start(h) PROVE StoriesInv'
  BY <1>2, StartsKeep
<1>3. ASSUME NEW h \in Handlers, Advance(h) PROVE StoriesInv'
  <2>1. CASE WriteOwn(h)
    BY <2>1, WriteOwnKeeps
  <2>2. CASE RefuseOwn(h)
    BY <2>2, RollbackKeeps DEF RefuseOwn
  <2>3. CASE ReadSiblings(h) \/ CloseParent(h) \/ ReadParent(h) \/ ReopenParent(h)
    BY <2>3, RollUpKeeps
  <2>4. CASE SetPoints(h)
    BY <2>4, SetPointsKeeps
  <2>5. CASE Commit(h)
    BY <2>5, CommitKeeps
  <2> QED BY <1>3, <2>1, <2>2, <2>3, <2>4, <2>5 DEF Advance
<1>4. ASSUME NEW h \in Handlers, AbortDeadlocked(h) \/ Stop(h) PROVE StoriesInv'
  BY <1>4, RollbackKeeps DEF AbortDeadlocked, Stop
<1>5. ASSUME NEW i \in Rows, Restore(i) PROVE StoriesInv'
  BY <1>5, RestoreKeeps
<1>6. ASSUME NEW i \in Rows, NEW tasks \in SUBSET Rows, CreateStoryWithTasks(i, tasks)
      PROVE  StoriesInv'
  BY <1>6, CreateStoryKeeps
<1>7. ASSUME NEW i \in Rows, PurgeTree(i) PROVE StoriesInv'
  BY <1>7, PurgeKeeps
<1> QED BY <1>1, <1>2, <1>3, <1>4, <1>5, <1>6, <1>7 DEF Next

\* Every variable keeps its type, a transaction holds locks only on rows whose
\* new version may follow the committed one, and every statement names rows that
\* there are (WorkItemsService, transition, update, remove and create).
THEOREM StoriesInvariant == Spec => []StoriesInv
<1>1. Init => StoriesInv
  BY StoriesStart
<1>2. StoriesInv /\ [Next]_vars => StoriesInv'
  BY StoriesStep
<1> QED BY <1>1, <1>2, PTL DEF Spec

\* The types of the rows, of what a transaction has written and of the calls.
THEOREM StoriesTyped == Spec => []TypeOK
<1>1. StoriesInv => TypeOK
  BY DEF StoriesInv
<1> QED BY <1>1, StoriesInvariant, PTL

\* A client that brings the version of an item as If-Match knows its status, its
\* parent and whether it is in the bin: the roll-ups write the parent by id, but
\* never without raising its version, and the recalculation of the points, which
\* does not raise it, moves none of them.  Only an item deleted for good has none.
THEOREM VersionsShowMoves == Spec => StatusMovesVersion
<1> DEFINE A == \A i \in Rows :
          \/ table'[i].version > table[i].version
          \/ table'[i] = GoneItem
          \/ /\ table'[i].version = table[i].version
             /\ table'[i].status = table[i].status
             /\ table'[i].parent = table[i].parent
             /\ table'[i].deleted = table[i].deleted
<1>1. ASSUME StoriesInv, [Next]_vars PROVE A
  <2> SUFFICES ASSUME NEW i \in Rows
               PROVE  table'[i] = GoneItem \/ Succeeds(table'[i], table[i])
      BY DEF Succeeds
  <2>1. CASE table'[i] = table[i]
    BY <2>1 DEF Succeeds
  <2>2. ASSUME NEW h \in Handlers, Commit(h) PROVE Succeeds(table'[i], table[i])
    <3>1. table'[i] = Visible(h, i)
      BY <2>2 DEF Commit, CommitRows
    <3> QED BY <3>1, <1>1, VisibleSucceeds
  <2>3. ASSUME NEW r \in Rows, Restore(r) PROVE Succeeds(table'[i], table[i])
    <3> DEFINE row == [table[r] EXCEPT !.deleted = FALSE, !.version = @ + 1]
    <3>1. table[r] \in Item /\ table \in [Rows -> Item]
      BY <1>1 DEF StoriesInv, TypeOK
    <3>2. table' = [table EXCEPT ![r] = row]
      BY <2>3 DEF Restore, WriteThrough
    <3>3. row.version = table[r].version + 1 /\ table[r].version \in Nat
      BY <3>1 DEF Item
    <3> HIDE DEF row
    <3>4. CASE i = r
      BY <3>1, <3>2, <3>3, <3>4 DEF Succeeds
    <3>5. CASE i # r
      BY <3>1, <3>2, <3>5 DEF Succeeds
    <3> QED BY <3>4, <3>5
  <2>4. ASSUME NEW r \in Rows, NEW tasks \in SUBSET Rows, CreateStoryWithTasks(r, tasks)
        PROVE  Succeeds(table'[i], table[i])
    <3>1. CASE i \in {r} \union tasks
      <4> DEFINE parent == IF i = r THEN None ELSE r
      <4>1. table[i] = NoItem /\ table'[i] = [NoItem EXCEPT !.version = 1, !.parent = parent]
        BY <2>4, <3>1 DEF CreateStoryWithTasks
      <4> HIDE DEF parent
      <4>2. table[i].version = 0 /\ table'[i].version = 1
        BY <4>1 DEF NoItem
      <4> QED BY <4>2 DEF Succeeds
    <3>2. CASE i \notin {r} \union tasks
      BY <2>4, <3>2 DEF CreateStoryWithTasks, Succeeds
    <3> QED BY <3>1, <3>2
  <2>5. ASSUME NEW h \in Handlers, Start(h) \/ AbortDeadlocked(h) \/ Stop(h) PROVE table'[i] = table[i]
    BY <2>5 DEF Start, StartCreate, StartTransition, StartUpdate, StartRemove, Begin, Write,
                tableVars, AbortDeadlocked, Stop, Rollback, RollbackRows
  <2>6. ASSUME NEW h \in Handlers, Advance(h), ~Commit(h) PROVE table'[i] = table[i]
    BY <2>6 DEF Advance, WriteOwn, RefuseOwn, ReadSiblings, CloseParent, ReadParent,
                ReopenParent, SetPoints, Write, tableVars, Rollback, RollbackRows
  <2>7. CASE UNCHANGED vars
    BY <2>7, <2>1 DEF vars, tableVars
  <2>8. ASSUME NEW r \in Rows, PurgeTree(r)
        PROVE  table'[i] = GoneItem \/ table'[i] = table[i]
    BY <2>8 DEF PurgeTree
  <2> QED BY <1>1, <2>1, <2>2, <2>3, <2>4, <2>5, <2>6, <2>7, <2>8 DEF Next
<1>2. StoriesInv /\ [Next]_vars => [A]_vars
  BY <1>1
<1> HIDE DEF A
<1>3. Spec => [][A]_vars
  BY <1>2, StoriesInvariant, PTL DEF Spec
<1> QED BY <1>3 DEF A, StatusMovesVersion
=============================================================================
