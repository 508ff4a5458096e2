# TLA+ models of the SamudraKarsa Workspace API

The repository is a NestJS API over one Postgres database. It runs serverless:
any number of instances serve calls at the same time, share nothing but the
database, and can stop at any statement. There are no locks in the code
(`FOR UPDATE` occurs nowhere) and every transaction runs at READ COMMITTED, so
what keeps the data right is optimistic locking (`If-Match`, a `version` column
in the `WHERE` of the `UPDATE`), unique indexes, `ON CONFLICT`, and the order of
the statements. That is what these modules are about.

All paths below are relative to `src/src/`.

## The parts of the system

| Part | State it keeps | Operations that change it | What must hold, and what makes it hard |
|---|---|---|---|
| `requests/` | `requests`: status, three note columns, `completed_at`, conflict flag, `linked_work_item_id`, version | create, update, transition, resolve-sync-conflict, remove | a transition is checked on a row read before the transaction that writes it; a submission creates the work item in the same transaction |
| `work-items/`, `work-release` | `work_items`: status, notes, PIC, parent, story points, `source_request_id`, flag, version; status history; assignees; comments | create, create story with tasks, update, transition, set PIC, remove, release | the same, plus the roll-up that closes and reopens the parent story |
| `request-sync/` | none of its own; writes both tables | syncFromRequest, syncFromWorkItem, resolve, flagConflict | two rows must agree on a status or both be flagged, whichever side moves, while the other row is updated by id after an unlocked read |
| `workflow/` | reads `status_transitions` | assertCanTransition, edgeExists | the same table judges both sides, and the documents |
| `idempotency/` | `idempotency_keys` | claim, take over, wait, replay, complete, release | a retry must not run the handler again; each statement is a transaction of its own |
| `auth/` | `refresh_tokens`, password hashes | login, rotate, logout, change password | rotation and revocation race; a session that has ended must stay so |
| `profiles/` | `profiles`: status, roles, cluster, head flags, version | create, update, updateSelf, resetPassword | one owner must remain; a deactivation releases posts and ends sessions after its commit; a new head lowers the old one |
| `rate-limit/` | counters per bucket and window | consume, reset | tries that succeed must be forgotten while others are counted |
| `policy/` | none; reads the member's and the target's row | the guard and the rules of a row | what is asked of a row is asked before the row is written |
| `numbering/` | `document_counters`, keyed by type, variant and year | next | unique numbers, rolled back with their document |
| `inventory/`, `dues/`, `finance/` | stocks and movements, dues and payments, budgets and items, transactions | add and remove entries | a total kept beside the entries it sums |
| `partners/`, `letters/`, `content/`, `creative/`, `logistics/`, `milestones/`, `announcements/`, `meetings/`, `calendar/` | documents with a status, most with a version; participants, decisions, answers, benefits | create, update, transition, remove | some write `version + 1` of the row they read, by id |
| `organization/` | periods, clusters, divisions, subunits, programs | create, update, activate, remove | one active period; no removal of what is referred to; no period that ends before it starts |
| `recycle-bin/` | `deleted_at` of fourteen tables | restore, delete for good | by id alone, live rows included |
| `attachments/`, `storage/`, `audit/` | `attachments`, the bucket, `activity_logs` | hand out links, remove, record | a transaction that asks the pool for a second connection |
| `feedback/`, `settings/` | a table each | one-row writes | who may |
| `notifications/`, `reports/`, `common/`, `config/`, `health/`, `swagger/` | none | none | reads and wiring |

Interactions: a request's transition calls `WorkItemsService.createWithin` and
then `RequestSyncService` inside its own transaction; a work item's transition
does the roll-up of its story and then calls `RequestSyncService` the other way;
`profiles` calls `work-release` in its transaction and `token.service` after it;
every document of a numbered kind calls `numbering.next` in its transaction; the
follow-up of a decision inserts the row of the work item itself
(`meeting-decisions.service.ts:157`); the recycle bin deletes rows of fourteen
tables for good, and what the foreign keys do then reaches rows of the others;
every mutating call
passes `PolicyGuard` and, when it carries a key and its route does not opt out
(`SkipIdempotency`), the idempotency interceptor; every part calls `audit`, most
after the commit. A few call it inside the transaction and through the pool:
`meetings` (164, 209, 239), `meeting-decisions` (180), `milestones` (135, 167),
`announcements` (134, 166), `calendar` (174, 206), `attachments` (131).
`database.module.ts:17` reckons with a pool of one connection there, the default
is ten.

`PROJECT.json` lists every part with what is modelled of it, and every hazard
at its line.

## The modules

| Module | Models | Extended by |
|---|---|---|
| `RequestSync` | requests, work items and the synchronisation between them | `MCRequestSync`, `RequestSyncProofs`, `RequestPairsProofs` |
| `ReadCommitted` | what Postgres gives the handlers of one table: visibility, row locks, commit, rollback, deadlock | `Stories` |
| `Stories` | work items with parents: roll-up, reopening, points recalculated | `MCStories`, `StoriesProofs` |
| `NumberBook` | abstract: a book of numbers of which each is taken once, in order; an entry may be struck out and its line stays taken | `Numbering` (as an instance) |
| `Numbering` | the counters of document numbers, within the transactions that create the documents, and documents deleted for good | `MCLedgers`, `LedgersProofs` |
| `Inventory` | one item: stock, movements, version | `MCLedgers`, `LedgersProofs` |
| `Dues` | the dues of one member and period, and their payments | `MCLedgers`, `LedgersProofs` |
| `Budgets` | the items of one budget, and its totals | `MCLedgers`, `LedgersProofs` |
| `Idempotency` | the life of one idempotency key | `MCIdempotency`, `MCRecords`, `GuardsProofs` |
| `Documents` | one document of thirteen kinds: every handler of its service, its routes, the recycle bin | `MCDocuments`, `RecordsProofs` |
| `Meetings` | the participants of a meeting, the follow-up of a decision | `MCRecords`, `RecordsProofs` |
| `Attendance` | the answers to an event of the calendar | `MCRecords`, `RecordsProofs` |
| `PartnerRows` | follow-ups and benefits of a partner | `MCRecords`, `RecordsProofs` |
| `Sessions` | the refresh tokens of one member | `MCRecords`, `GuardsProofs` |
| `Members` | members, the owner among them, and the work items and requests they are PIC of | `MCMembers`, `PeopleProofs` |
| `ClusterHeads` | the head of a cluster | `MCRecords`, `PeopleProofs` |
| `Organization` | the active period, and the removal of periods and units others refer to | `MCRecords`, `PeopleProofs` |
| `OrganizationRows` | the columns of periods and units: codes and dates | `MCRecords`, `PeopleProofs` |
| `RateLimits` | the counters of the password login | `MCRecords`, `GuardsProofs` |
| `Policies` | who may write a row, at the check and at the write | `MCRecords`, `GuardsProofs` |
| `Attachments` | files, links, the trail, and the pool of connections | `MCRecords`, `RecordsProofs` |

`MCRecords` puts the last seventeen side by side (it extends `MCLedgers`,
`MCDocuments` and `MCMembers`). They share no row with each other, so a behaviour
moves one of them, the one `part` names from the beginning: nothing one of them
does can change what another may do, and a product in which several move would
only multiply the states. Each part runs there as its own specification says
(`TheWholeRunsItsParts` in `MCRecordsProofs`). What parts do share is modelled where it matters: the
PIC of work items in `Members`, the sessions of a deactivated member in `Sessions`,
the pool of connections in `Attachments`, numbers within the transaction that
creates a document (also a story's) in `Numbering`.

### How a handler becomes actions

A handler of `RequestSync` or `Stories` is a small process, `call[h]`. It starts
with an action that reads its row outside any transaction and makes the checks
the code makes there (`StartRequestTransition`, `StartUpdate`, ...); what the
row looked like is kept in `call[h].seenReq`, `seenWork` or `seen`. After that
each statement of the transaction that reads or writes a row somebody else may
touch is an action: `WriteOwnRequest`, `ReadLinkedWork`, `WriteLinkedWork`,
`FlagRequest`, `FlagWork`, ..., `Commit`. An `UPDATE` takes the row lock
(`reqLock`, `workLock`, `lock`) and writes the uncommitted version (`dirty...`),
a `SELECT` sees `Visible...`: the transaction's own writes and otherwise what
is committed *now*. A `throw` inside the transaction is `Rollback`. Handlers
that are one guarded `UPDATE` (`PATCH`, `DELETE`, `setPic`, restore) are one
action each, since nobody can see them half done. So is `permanentlyDelete`
(`PurgeRequest`, `PurgeWork`, `PurgeTree`): one `DELETE`, by id, with what the
foreign keys do at the same time. `requests` and `work_items` empty their pointers
to each other (`ON DELETE SET NULL`, without a new version), a work item takes
along those under it (`ON DELETE CASCADE`). The action waits until no transaction
holds one of these rows. In the database it may hold some while it waits for
others, but nobody sees it, and a call it is then on a circle with is
aborted, which is `Stop`. A row that is gone has version 0 for ever
(`GoneRequest`, `GoneWork`, `GoneItem`); an `UPDATE` by id that comes
later changes nothing (`UpdateReqById`), and one that would write a link to it
is refused by the foreign key (`LinkStands`, `ParentThere`).

The other modules use as many steps as another call can tell apart:

- A handler that is a `SELECT`, checks and an `UPDATE` is a `Start...` and a
  `Finish...` (`Documents`, `Members`, `OrganizationRows`, `PartnerRows`,
  `Attendance`, `Policies`, the calls of `Members` but one). The thirteen services of `Documents` differ only in
  what they check and what they set, so each handler is a record of that and the
  two actions interpret it. The transaction that some of them put around the two
  statements changes nothing at READ COMMITTED.
- A transaction whose statements meet the rows of another one has an action per
  statement, and the rows it has locked (`Organization`, `Meetings`,
  `ClusterHeads`, and `update` in `Members`: the profile, its work items, its
  requests, the commit). Where it matters which rows a statement sees, it begins with the rows it sees (`SeeActive`,
  `SnapshotParticipants`, `BeginLowering`), waits for those that are locked, and
  takes them as they have become.
- Statements that each commit alone are actions each (`Idempotency`, `Budgets`,
  `RateLimits`, what `Sessions` does after a commit, and the counts of
  `findReferences` in `Organization`, one for each foreign key). A handler is one
  step of `Idempotency`, but it may commit and then throw (`FailAfterCommit`), as
  `finance.service.ts:328`, `profiles.service.ts:407` and `requests.service.ts:507`
  and `:623` can.
- `Attachments` counts connections: a transaction holds one, and its trace asks
  for another.
- Everywhere a call may stop between any two actions (`Stop...`, `Fail...`,
  `GiveUp`, ...): an error of
  a statement, or an instance that ends.

`Dues` has the three statements of its transactions as actions
(`AddPayment` or `RemovePayment`, `SumPayments`, `WriteDues`); the last one
contains the commit, since it is the only statement that locks the dues and no
other follows it. `Numbering` keeps a transaction open from `next` to
`CommitNumbers` or `RollbackNumbers`, because that is how long the counter's row
is held. The transaction of `addMovement` inserts a row nobody else reads and
updates one row relative to its value: one action, `WriteMovement`.

Statements that only insert rows nobody else reads (status history,
`record_versions`, traces outside `Attachments`) are left out; so are the columns
no rule reads. Who may make a call is left to `Policies`: the other modules let
every call through that the state allows, which includes every call the
policies let through.

Many handlers do lose updates, so the properties say when: a history variable,
which no guard reads, tells whether a call was overtaken, and the property is
about the calls that were not (`OnlyARace...`, `Alone...`). The mutants show that
these are not empty words: each property fails when a check or a statement of
the code is dropped.

### Correspondence of state

| Variable | Code |
|---|---|
| `req[r]`, `work[w]` (`RequestSync`) | rows of `requests`, `work_items`; `version = 0`: not inserted, or (then `deleted`) deleted for good; `filled`: the note columns that are not empty; `completed`, `flagged`, `deleted`: `completed_at`, `sync_conflict_at`, `deleted_at` are not null; `pic`: `primary_pic_id` names an active profile |
| `dirtyReq`, `dirtyWork`, `reqLock`, `workLock` | Postgres: the uncommitted row and who wrote it |
| `table`, `dirty`, `lock` (`Stories`) | the same for `work_items` |
| `call[h]` | the local variables of a running handler |
| `row` (`Idempotency`) | the row of one key; `expired`: `expires_at` is past; `answer`: the body it was answered for, `Null` while `response_status` is null |
| `lastNumber[s]`, `document[d]`, `counting[c]` | `document_counters.last_number` as committed; the numbered rows, with the transaction that has not committed them; the counter a transaction holds; `purged`: the documents whose rows are gone |
| `item`, `moved`, `moving[c]` | the row of `inventory_items`; the sum of its `inventory_movements`, which are only ever added and go with the item; a running call with the row it has read |
| `dues`, `payment[p]`, `paying[c]` | the row of `member_dues` as committed, `paid` being the set of payments that `paid_amount` is the sum of (an amount never changes); `member_payments`, with the transaction that has inserted or deleted the row; a running call |
| `totals`, `line[i]`, `editing[e]` | the items, with their amounts, that `total_planned` and `total_realized` are sums of; `budget_items`; a running call |
| `kind`, `doc`, `work[w]` (`Documents`) | the table the row is in; the row, `columns` being those that are filled; a client with the row a route has shown it (`opened`), or a call with what it has read |
| `meeting`, `participants`, `decision`, `items`, `asking[c]` | a row of `meetings`; its `meeting_participants`; a row of `meeting_decisions` with `work_item_id`; the work items with that `source_meeting_decision_id`; a running call with the rows its `DELETE` has seen |
| `event`, `answers[p]`, `replying[a]` | a row of `calendar_events`; how many `calendar_event_attendees` a member has; a running call |
| `partner`, `promised[b]`, `followups`, `tending[t]` | a row of `partners`; `sponsor_benefits`; the number of `partner_followups`; a running call |
| `active`, `token[t]`, `using[u]` | whether the member's `status` is not inactive; rows of `refresh_tokens` with `family_id` and `replaced_by_id`, `recent` and `revoked` before and after `REFRESH_REUSE_LEEWAY_SECONDS`; a running call |
| `member[p]`, `post[k]`, `managing[c]` | `profiles.status` and whether `roles` has owner; `primary_pic_id` of a work item or request, and whether the row counts; a running call, `fresh` while the version it has read is the row's; with `post` the rows its transaction has released and not committed |
| `resident[r]`, `steering[s]` | `profiles.cluster_id` and `is_kormater`; a running call with the rows its first `UPDATE` is to lower and those it has |
| `entity[e]`, `refers[r]`, `arranging[a]` | rows of the four tables, a period's with `is_active`; the rows of other tables that lead to them, each by its foreign key (`KeyOf`); a running call, `counted` being the foreign keys behind which it has found no row |
| `table`, `unit[i]`, `keeping[c]` | the table the rows are in; `code`, `starts_on`, `ends_on`; a running call |
| `counter[b]`, `visiting[v]` | the row of a bucket for the window that is running; a running login |
| `actor`, `target`, `deciding` | `roles`, division and `must_change_password` of the member who calls; the columns of the target the rules look at; the call between its check and its write |
| `file[f]`, `bucket`, `links`, `log`, `serving[a]` | `attachments`; the stored objects; upload links that still hold; `activity_logs`; a running call |
| `alone`, `overtaken`, `late`, `fresh` of `Policies`, `raced`, `revised`, `mixed`, `doubled`, `forked`, `stray`, `astray`, `unseen`, `unforgiven`, `undone`, `ran`, `lost`, `unprotected`, `loose` | history, each explained where it is declared |

## Runs

| Run | Question | States | Result |
|---|---|---|---|
| `RequestSyncLinked` | do a request and its own work item keep in step, whatever two calls do at once? | about 2 200 000 | holds |
| `RequestSyncLive` | does every call end? | 136 014 | holds under `FairSpec` |
| `RequestSyncDeadEnd` | can every conflict be resolved? | - | violated |
| `RequestSyncChecks` | does a synchronisation pass the other table's `CHECK`s? | - | violated |
| `RequestSyncMarks` | is `completed_at` filled exactly in rows that are done, with bodies that bring no notes? | - | violated |
| `Stories` | do status, completion mark and version of items with parents stay together? | 672 725 | holds |
| `StoriesRollUp` | does the last task close the story? | - | violated |
| `Records` | what do the seventeen modules that `MCRecords` extends keep, through races and failures? | 822 359 | holds |
| `IdempotencyReplay` | is a replay the answer to the caller's own body? | - | violated |
| `LedgersDues` | is the amount paid always the sum of the payments? | - | violated |
| `DocumentsLetters` | is a step of a letter open once the columns it needs are filled? | - | violated |
| `MembersLastOwner` | is there always an active owner? | - | violated |

`Records` is one run for all the parts that share no row. It begins once for each
value of `part`, so its states are the sum of those of the parts, not their
product, and every property speaks of one part. What its properties say:

| Part | Properties | What they say |
|---|---|---|
| numbers | `KeepsTheBook`, `NoNumberIsMissing` | `Numbering` implements `NumberBook` (`Book == INSTANCE NumberBook` with what is committed): a commit writes the next number of its series, whatever is rolled back, stops or is deleted for good; only a document deleted for good leaves a gap, and a budget cannot be |
| stock | `OnlyARaceOverdraws`, `StockFollowsMovements` | below zero only after a withdrawal that another one has overtaken; the stock changes by what is recorded as moved, until the item is deleted for good with its movements |
| dues, budgets | `AloneLeavesTheSum`, `AloneLeavesTheTotals` | a call that has run alone leaves the right total, so it repairs what a race has left |
| keys | `EffectAtMostOnce`, `AnswerIsTheRuns` | a handler takes effect once per claim, and once more each time it has thrown after it had committed; the stored answer is that of the run that did and did not throw |
| documents | `IfMatchMeansAsOpened`, `EveryRevisionCounts`, `OnlyTheBinRestores`, `OnlyARaceLeavesTheSteps` | the four ways in which a write of one handler could undo another's: by a version that no longer means what the client saw, by a lost count, by bringing a removed row back, by a move the table does not have |
| meetings | `AloneReplacesTheList`, `OnlyARaceFollowsUpTwice` | the list of participants is one caller's; a decision has one follow-up |
| partners | `TheBinKeepsAPartnersRows` | nothing is hung on a partner that is in the bin |
| sessions | `OneLiveTokenPerFamily`, `EndedSessionsStayEnded`, `InactiveMeansNoSession` | rotation, reuse, logout and deactivation against each other |
| members | `OnlyARaceEndsTheLastOwner`, `OnlyARaceKeepsAnInactivePic`, `MovesHaveAPic` | what was checked of a member still holds when the row, or another one, is written |
| heads | `OnlyARaceOrAMoveMakesTwoHeads` | one head per cluster |
| organization | `OnlyARaceEndsTheActivePeriod`, `OnlyARaceEmptiesReferences`, `OnlyARaceInvertsAPeriod` | one active period; what is emptied by a removal came after its foreign key was counted; both ends of a period checked together |
| login's counters | `OnlyFailuresStayCounted` | a reset forgets the tries that succeeded, and only those |
| policies | `RightsHoldAtTheWrite`, `SubmittedRequestsStay` | who was let through may still when the row is written |
| attachments | `NoStandstill`, `StoreAndLogHaveRows` | the pool never blocks all calls; bytes and traces have rows |

The answers of `Attendance` have no property of their own beside their type, which
contains `calendar_event_attendees_unique_member`.

What the eight violations show, with the sentence of the repository each one
contradicts, is under `findings` in `PROJECT.json`:

- *DeadEnd*: a work item whose source request is not linked to it (another work
  item is), or has been removed, is flagged by its own transition; no
  `POST /requests/{id}/sync-conflict` clears it.
- *Checks*: the copy meant to satisfy the `CHECK` copies the row's own note onto
  itself, so a request with its hold reason filled is refused because the work
  item has none.
- *Marks*: the resolution writes by id without looking again at what was checked
  before its transaction. The trace needs a body without notes: with one, the
  first statement of the resolution already locks the request, which is why
  `DoneIsCompleted` holds in `RequestSyncLinked`, where every body brings them.
- *RollUp*: two last tasks closed at the same time each see the other as open.
- *Replay*: `awaitResponse` reads by key and does not compare the fingerprint
  again.
- *Dues*: of two payments added at the same time, the amount that is written last
  leaves one out. The next call that runs alone repairs it (`AloneLeavesTheSum`),
  and the status never says unpaid of an amount above zero or the reverse
  (theorem `Unpaid`). The budget's totals have the same weakness and the same
  repair; there no text of the repository says more.
- *Letters*: `status_transitions.required_fields` has the names of columns
  (`signer_name`, `letter_date`), the row that is looked up has the names of the
  schema's properties (`signerName`, `letterDate`). Nothing that asks for one of
  them is ever found filled, so no letter reaches `awaiting_signature` or `sent`.
- *LastOwner*: the last owner's role is taken away by a body that has `roles` and
  no `status`, since only a status makes `update` look for another owner.
  `OnlyARaceEndsTheLastOwner` says what the check does give.

### Bounds

- `RequestSync`: one request, two calls at a time; two calls make every pairwise
  race, and three calls that wait for each other need three rows. In
  `RequestSyncLinked` there are two work items, both made by submissions: the second
  when the first has been deleted for good and the request submitted again
  (`need_clarification` leads back to `submitted`). In `RequestSyncLive` and
  `RequestSyncDeadEnd` a work item may also be created by a client (`TaskIds`); in
  the latter a second one names the same request.
- `MaxVersion` is 100 there and in `Stories`, and is never reached: the `VIEW`s keep
  only whether a version a handler has read is still the row's, not the number. No
  action or property of these runs depends on more. `RequestSyncLive` uses no view
  (a view is not sound for liveness) and stops starting calls at version 3, which
  still leaves room for a submission, a transition of each side and the conflict.
- Calls that run the same code are interchangeable: symmetry in `Handlers`, and in
  `Calls` and `Hashes`. `Records` uses one pair of values (`c1`, `c2`) for the calls
  of every part, and one pair (`i1`, `i2`) for bodies, lines, people, periods, codes and
  the like, which are as interchangeable (`RecordsSymmetry`). In `RequestSyncLinked`
  so are the work items, since no client creates one there.
- `Bodies`: every body brings all notes, or all or none. A column at a time
  adds no other outcome of a `CHECK`, since a status demands one column only.
- `SeededRequestEdges` are the rows of the seed
  (`database/sql/status_transitions_seed.sql`); `RenamedWorkEdges` are its rows
  for work items under the names the enum `work_status` has now, without the two columns
  `blocked` asks for beside the hold reason (`blocker_reason`, `assistance_needed`),
  which no other rule reads. The theorems
  hold for any table, but one: `SyncedSteps` asks `TableKeepsSteps` of it, which
  `MCRequestSync` evaluates for these rows (`SeededTableKeepsSteps`). The steps of
  the documents are in `Documents`, as the migrations seed them.
- `Stories`: a story and two tasks, and a story that may become a task of its
  own task (`AroundInACircle`), which no rule refuses; each may go for good. `StoriesRollUp` looks at
  transitions only (`OnlyTransitions`).
- Numbers: three documents of six series (a letter has two), enough for a story
  with a task and a rival of the same series.
- Stock: -2 .. 2, and movements bring or take at most 2, so two withdrawals can each
  be covered and together not. Two payments of 1 and 2 and the targets 0 and 2 give
  every status (`LedgersDues` has three). Two budget items, one for each call.
- Keys: three calls (one that runs, one that waits, one that claims anew), two
  bodies, two reads while waiting, and two commits of handlers (`MaxEffects`): one that is
  lost to an error and one that is answered. `IdempotencyReplay` leaves the expiry out
  (`NothingExpires`), so the trace is about the release alone.
- Documents: one row, two calls, versions to 3, two revisions. For a kind with
  a table of steps its first steps and a fork (`SomeStatuses`); `DocumentsLetters`
  has every status of a letter and one call.
- Sessions: three tokens, so a family can be rotated twice, or two families live
  side by side. Members: a founder and one more, one post, a work item
  (`WorkPosts`); bodies change the status or take the owner role, not both. The theorems
  have requests, too. Heads: one cluster, two members, bodies as
  `SomeHeadBodies` says.
- Organization: two periods, one unit, two foreign keys, of which one deletes the row
  that refers to what goes and one empties it, and a row behind each. Rows: two rows, two codes, three days, so a period can
  end before, on or after its start. Partners: two benefits and two follow-ups.
- Login: the limit is 1 and a counter ends at 4: more than two tries under way and
  two that failed. Pool: two connections, two calls, of which each may hold one and
  ask for another. Policies: three sets of roles and two divisions for the member;
  the rules are whole (`GuardsProofs` takes any).

`CHECK_DEADLOCK` is off: a state in which every row is at its bound, or in which
no client calls, is no fault. That calls do not block each other is `CallsEnd` and
`NoStandstill`.

### Fairness

`RequestSyncLive` assumes strong fairness of a running call's next statement and
weak fairness of the deadlock detector. The first is what Postgres gives a
transaction that waits for a row: waiters queue, so a row that is freed again
and again is granted in the end, and a handler that is not waiting runs on (a
serverless instance that stops closes its connection, which is a rollback). The
second is `deadlock_timeout`. Nothing is assumed of clients. The other modules
assume no fairness: everything they promise is safety.

## What is proved

The check of a small instance and the proof go together: each theorem that states
a property of a run holds for every value of the constants, under the named
`ASSUME`s of the modules, which TLC evaluates in every run that extends them. They
say that an id that stands for none is no id, that tables hold statuses and columns,
that bodies are bodies, that bounds are numbers, that the pool has a connection.
Two theorems assume more, each in its statement; they are explained where
they come up below.

Every property of a passing run is a theorem but one, `CallsEnd`. Where a property
is not inductive, the module has the strengthening as a definition whose name ends
in `Inv`, with a theorem that it holds; what each adds, and why it must, follows.

### Requests and work items

`RequestSyncProofs`, for any sets of requests, work items and calls, any table
of transitions and any bodies:

- `TypeCorrect`: `Spec => []TypeOK`.
- `GuardedRow`: `Spec => []GuardedRowIsTheRowChecked`: what is written is the
  row the checks were made on.
- `VersionsOnlyRise`: `Spec => VersionsRise`: a change that is committed raises
  the version, but for a row that goes for good and the pointer to it, which is
  emptied under the old version. So that pointer is all that can change under an
  `If-Match` that still fits, and `GuardedRow` says so for a work item; a request
  cannot even lose it unnoticed, since its `UPDATE` writes the link back and the foreign
  key refuses.

All three follow from `IInv == TypeOK /\ CallsOK /\ RowsOK /\ AllSeenOK`
(theorem `InvariantHolds`). None is inductive alone. That a guarded row is the
row checked needs to know that equal versions mean equal rows up to that pointer
(`AllSeenOK`), which needs every commit to raise the version; that a commit does
needs the uncommitted version of a locked row to be higher already (`RowsOK`),
with one exception the proof had to make explicit: between the statement of
`resolveSyncConflict` that writes the notes and the one that writes the status,
the locked row has new contents and the old version (`Noted`), and no commit can
fall there. `CallsOK` says which arguments a call at a given step has.

`RequestPairsProofs` goes on from there to what the synchronisation is for, with the
invariant `PairsInv` (theorem `PairsInvariant`):

- `PairsAgree`: a request and its work item agree, or both carry the flag.
- `FlagsPaired`: the flag is on both or on neither.
- `SyncedSteps`: the `UPDATE` by id of a synchronisation moves its row along an edge.
- `DoneMarks`: `completed_at` is filled exactly in rows that are done.

The hard case is that two transactions move the two rows at the same time, each
without the lock of the other's row, and both commit. The invariant says what each
of them has done when it is about to (`Settled`). A transaction that holds both
rows leaves them a pair; one that holds only the work item leaves its status what
it was (`WorkSettled`); one that holds only the request ends in a status
the work item already shows (`MovedUnseen`). Any two of these commute. This in turn needs
what a call holds at each step (`HoldsItsRows`), what it knows (`CallKnows`: its
row was unmarked, its step is an edge, its other row is the linked one), and that
the row it has read without a lock is still, for what is decided by it, the row
(`StepStands`, `ReadStands`). `LinksOK` says that both ends of a link are made by one
transaction and go together.

What they are about, and assume:

- Pairs whose request is not `loose`, that is, has had no work item but its own to move it.
  There are two ways to another one. A client may create a work item that names the
  request as its source (`work-items.service.ts:804`); its transitions move the request
  and the linked work item follows nothing, and `RequestSyncDeadEnd` shows what comes
  of it. And while a resolution runs, the work item it has read before its
  transaction may be deleted for good and the request submitted again, which makes
  a second one; the resolution then moves the request and leaves the new item where
  it is. `loose` marks the request in both cases and keeps the work item it
  leaves behind. No guard reads it. Everything else is covered: removal,
  restoring and deletion for good, of either row and at any step.
- `SoleWorks` (a work item that names such a request is the linked one) is the part of the
  invariant that rests on this, and `RowsThere` says that a row that is gone is empty and
  that nothing names it.
- `SyncedSteps` asks `TableKeepsSteps` of the table: a move of the request that its
  work item does not show (`draft` and `submitted` are both `backlog` there) closes no
  step which the work item may cause. A table with such a move would let a synchronisation that has
  read the row before write after it. TLC evaluates it for the seeded table.
- `DoneMarks` asks that every body brings a note (`NoBody \notin Bodies`), so that a
  resolution locks the request before it reads; `RequestSyncMarks` is the
  counterexample without it.

### Stories

`StoriesProofs`, for any items, handlers, statuses and nesting: `StoriesTyped` and
`VersionsShowMoves` (`StatusMovesVersion`: whatever moves an item's status, its
parent or its removal raises its version, unless the item goes for good). An
uncommitted row must already be fit to succeed the committed one (`WritesSucceed`); that is a relation between two rows that
is transitive (`SucceedsTwice`), which is what lets one transaction write a row
twice, as a roll-up does.

### Numbers and sums

`LedgersProofs`, for any number of calls, documents, series, quantities, payments,
amounts and items:

- `NumberingKeepsTheBook`, the refinement of `NumberBook`, with `UniqueNumbers` and
  `NoGaps`. Uniqueness alone is not inductive: it needs that one transaction at a
  time holds a counter (`OneHolder`), that committed numbers lie at or below
  `lastNumber` and those of the holder above it (`NumbersInRange`), and, for the
  gaps, that every number of both ranges is taken (`NumbersAreFilled`), if only by
  a document that is gone, which was committed and is no budget
  (`PurgedWereCommitted`). Under the refinement mapping every step is a stutter but the
  commit, which writes the holder's numbers at once, and the deletion for good,
  which strikes entries out.
- `RaceOverdraws`, `StockIsMoved`: `OnlyARaceOverdraws` is inductive with the
  types and that a running call has found the item, if only to lose it
  (`CallsHaveAnItem`).
- `Unpaid`, `AloneSums`: from `AloneIsAlone`, which says of a call that nobody
  has disturbed that it is the only one, that the target it has read is the row's
  and that the payments it has summed are those it sees.
- `AloneTotals`: from `OnlyEditor`, the same for the items of a budget.

### What guards a call

`GuardsProofs`:

- Keys, for any number of calls, bodies and attempts: `AtMostOnce`, `RunnerAlone`,
  `StoredAnswer`, from an `IdempotencyInv` that adds to the three properties
  what the row looks like while nobody runs (`RowStates`) and what a call at each
  step has done (`RanMatches`): when a handler begins, every effect since the claim is
  one of a run that has thrown (`ran = lost`); a stored answer belongs to the one run
  that has not.
- Counters of the login, for any visitors and any limit: `FailuresStayCounted`. What
  is counted is a sum over the tries that are under way, so the invariant keeps
  those sets finite (`FewAreUnderway`) and a try's buckets apart: those it has counted
  in and those it has still to (`TriesAreOrdered`).
- Sessions, for any tokens and calls: `OneSession`, `InactiveIsOut`, `EndedIsEnded`.
  The invariant replaces the count of live tokens by "any two are the same"
  (`OneIsLive`), knows that a family's first token is there as long as the
  family (`FamiliesBegin`), so that a session that has ended cannot be one that
  begins, and that whoever was valid at its check has a token to replace
  (`CallsWereValid`). For the inactive member it says who is still to revoke
  (`SomebodyRevokes`).
- Policies, for any divisions and roles: `RightsHold` and `TargetsStay`, from
  `AskedOfThese`: as long as neither the row nor the member has changed, the rules say
  what they said. The only step that changes the member and keeps the right is the
  change of the password, which takes no right away (`RightsStay`).

### Members and the organization

`PeopleProofs`, for any members, posts, clusters, units and calls:

- `NoInactivePic`, `MoversHaveAPic`, `OwnersEndByRaces`. What was checked of
  rows whose version is not compared is kept by `MemberCallStands`: a call that has
  read a work item and whose version still fits finds its PIC there, and an update
  that nobody has overtaken still has another owner beside it. A deactivation takes four
  steps, so the invariant also says that no two transactions hold one row
  (`LocksExclude`) and that, of the tables it has written, a deactivation has missed
  no post of the member but those in `astray` (`ReleaseStands`).
  The exception `astray` includes the assignment that commits between the
  release and the `COMMIT` (`MissedBy`). `PicsExist` is what a new profile needs:
  nobody has it for a PIC.
- `OneHeadUnlessRaced`, from `AloneIsPrepared`: for a call that nobody has overtaken
  the cluster it has found is the one its row will be in, every other member of
  that cluster is lowered or in its list, and the list is empty when it writes.
- `APeriodStaysActive` and `ReferencesAreCounted`: a call has an id, and
  `activatePeriod` never lowers the period it is about to raise (`CallsHaveIds`); all
  that refers to a row by a foreign key the removal has counted has come since
  (`CountedNone`), and it deletes when it has counted all of them, so what is
  emptied with it is what the call could not see.
- `OnlyRacesInvert`, from `CallsAreInOrder`: the body of an update that nobody has
  overtaken, put on the row as it is now, passes what was asked of it.

### Documents and what hangs on them

`RecordsProofs`, for any kinds, statuses, columns and calls:

- `IfMatchHolds`, `RevisionsCount`, `OnlyRestoreRestores`, `StepsAreLeftByRaces`, for
  the handlers of all thirteen services. What they need of a handler is a lemma each
  handler is checked for (`KnownHandler`: one that sets the status of a kind with
  steps asks for a step; one that asks for `If-Match` writes a versioned row; what
  leaves the version alone removes the row). The rest is about the call
  (`DocumentCallStands`): while nobody writes, what its `SELECT` found is what its
  `UPDATE` finds, and while no overtaken call has written, equal versions of a
  live row mean equal rows (`VersionTells`).
- `RacesFollowUpTwice` and `AloneReplaces`, from `AloneIsUndisturbed` (a call nobody
  has disturbed has deleted the participants there are, or found the decision
  without an item) and `OneFollowUp`, which says that the decision's item is
  the only one, not just that there is at most one.
- `TheBinKeepsRows`, from `TendedIsLive` and `NothingIsLeft`: a call in time has a
  live partner, and nothing hangs on one that is gone.
- `RowsOfStoreAndLog` and `SomebodyGoesOn`, for any pool of at least one connection.
  A trace of a removal is written before its commit, so the invariant follows the
  call between the two (`CallsMatchRows`); that a creation is not overtaken by the
  same row needs that ids are new (`OneCreates`).
- `AttendanceTyped`: its type is its property.

### The parts together

`MCRecordsProofs` shows that `RecordsSpec`, which the run `Records` checks, implies the
specification of each of its seventeen parts (`TheWholeRunsItsParts`): a step of the
whole is a step of one part and a stutter of the rest. So every theorem of a part is
one of the whole, for which the run shows it; `RecordsTyped` is the conjunction of all
the types.

### Only model-checked

`CallsEnd`: the prover has neither liveness under fairness nor `ENABLED`. What the
violations show is TLC's, too.
There is no induction over data in any proof (no recursive definition is reasoned
about); no module uses `RECURSIVE`.

## What is not modelled, and why

- `reports/`, `notifications/`, the lists and the single reads of every part:
  they change no row, and what they compute is a function of one `SELECT`. The
  policies that hide columns from readers belong there.
- `common/`, `config/`, `health/`, `swagger/`, pipes and filters: wiring of the
  framework, without state that outlives a request. That a body is valid is taken
  from them: the models enumerate valid bodies.
- `database/seed.ts` and the migrations that create tables: data. The rows of
  `status_transitions` and the constraints the handlers meet are in the models.
- `permanentlyDelete` of a row of `feedback`, which no module has.
- How numbers, passwords, tokens and links are written, signed or hashed, and the
  text of documents: a number is a count in a series, a token an id.
- Within modelled parts: the assignees of a work item, archiving (the
  code reads `archived_at` and sets it nowhere), the amounts of story points (they are summed as
  in `Dues`), the roles that an edge of `status_transitions` names (every edge is
  somebody's, and the models let each call take each edge), `record_versions` (rows nobody reads
  back), `RateLimitGuard` (it only consumes), `uploadAndGetDownloadUrl` (an upload
  and a link in one call, for exports).
- Two hazards have no property. A work item that a client has created with a source
  request which is linked to another one moves the request along a legal edge
  (`work-items.service.ts:804`), and the points of a story are summed in one
  statement and written in the next (`:1518`): no text of the repository says that
  they must not. A trace whose entity is no row with a uuid (a setting's key) is
  refused by its column and the refusal is swallowed by `audit`: nothing depends on
  it.
- A profile that moves to another cluster with its flag left as it was is a second
  head without any race. The comment in `profiles.service.ts` speaks of a body with
  the flag, so this is an exception in `OnlyARaceOrAMoveMakesTwoHeads`.
- Two modules could be composed further: `Stories` with `RequestSync` (a story that
  came from a request and is closed by its last task) shares the work item's row;
  no text of the repository says what the request does then, and the roll-up does
  not call the synchronisation.
