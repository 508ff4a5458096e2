------------------------------ MODULE Meetings -------------------------------
(***************************************************************************)
(* The rows that hang on a meeting: its participants, replaced as a whole  *)
(* by MeetingsService.setParticipants; and the follow-up of a decision,    *)
(* MeetingDecisionsService.followUp.                                       *)
(*                                                                         *)
(* A transaction runs at READ COMMITTED: a statement sees what was         *)
(* committed when it began, waits for the transaction that holds a row it  *)
(* wants, and then takes that row as it has become.                        *)
(***************************************************************************)
EXTENDS Integers, FiniteSets

CONSTANTS People,   \* profiles
          Callers,  \* calls that may run at the same time
          NoWorkItem    \* no work item

ASSUME NoWorkItemAssumption == NoWorkItem \notin Callers

VARIABLES
    meeting,      \* "live", "removed" or "gone"
    participants, \* the committed rows of meeting_participants
    decision,     \* the decision's row: whether it exists and its work_item_id
    items,        \* the work items made from the decision, by the call that made them
    asking,       \* what each call is doing
    mixed,        \* whether two setParticipants have overlapped (history)
    doubled       \* whether two followUps have overlapped (history)

meetingVars == <<meeting, participants, decision, items, asking, mixed, doubled>>

-----------------------------------------------------------------------------
(* A call: list is setParticipants', gone the rows its DELETE sees.        *)
(* alone: no other call has overlapped it (history).                       *)

Asking == [step: {"idle", "delete", "wait", "insert", "followUp"},
           list: SUBSET People, gone: SUBSET People, alone: BOOLEAN]
NotAsking == [step |-> "idle", list |-> {}, gone |-> {}, alone |-> FALSE]

MeetingsTypeOK ==
    /\ meeting \in {"live", "removed", "gone"}
    /\ participants \subseteq People
    /\ decision \in [here: BOOLEAN, item: Callers \union {NoWorkItem}]
    /\ items \subseteq Callers
    /\ asking \in [Callers -> Asking]
    /\ mixed \in BOOLEAN /\ doubled \in BOOLEAN

MeetingsInit ==
    /\ meeting = "live"
    /\ participants = {}
    /\ decision = [here |-> TRUE, item |-> NoWorkItem]
    /\ items = {}
    /\ asking = [c \in Callers |-> NotAsking]
    /\ mixed = FALSE /\ doubled = FALSE

-----------------------------------------------------------------------------
NotAskingYet(c)      == asking[c].step = "idle"
AskingCallers         == {c \in Callers : ~NotAskingYet(c)}
AskingAt(c, step)  == asking[c].step = step

\* A call begins: the ones under way are no longer alone, nor is it.
BeginAsking(c, call) ==
    /\ NotAskingYet(c)
    /\ asking' = [o \in Callers |-> IF o = c
                                    THEN [call EXCEPT !.alone = (AskingCallers = {})]
                                    ELSE [asking[o] EXCEPT !.alone = FALSE]]

EndAsking(c) == asking' = [asking EXCEPT ![c] = NotAsking]

-----------------------------------------------------------------------------
(* setParticipants: SELECT of the live meeting; then, in a transaction,    *)
(* DELETE of all rows and INSERT of the list.                              *)

StartSetParticipants(c, list) ==
    /\ meeting = "live"
    /\ BeginAsking(c, [NotAsking EXCEPT !.step = "delete", !.list = list])
    /\ UNCHANGED <<meeting, participants, decision, items, mixed, doubled>>

\* Rows that an open transaction has deleted are locked until it ends.
Locked(c) == UNION {asking[o].gone : o \in {o \in Callers \ {c} : AskingAt(o, "insert")}}

DeletesNothing == {}
DeletesAll == participants

\* The DELETE begins: it will delete the rows it sees now.
SnapshotParticipants(c) ==
    /\ AskingAt(c, "delete")
    /\ asking' = [asking EXCEPT ![c].step = "wait", ![c].gone = DeletesAll]
    /\ UNCHANGED <<meeting, participants, decision, items, mixed, doubled>>

\* And ends, once no other transaction holds one of them.
DeleteParticipants(c) ==
    /\ AskingAt(c, "wait")
    /\ asking[c].gone \intersect Locked(c) = {}
    /\ asking' = [asking EXCEPT ![c].step = "insert", ![c].gone = @ \intersect participants]
    /\ UNCHANGED <<meeting, participants, decision, items, mixed, doubled>>

\* The INSERT and the commit.  A row of the list that is there by now, or a
\* meeting that is gone, makes the transaction fail.
InsertParticipants(c) ==
    LET rest == participants \ asking[c].gone
    IN /\ AskingAt(c, "insert")
       /\ asking[c].list \intersect Locked(c) = {}
       /\ IF rest \intersect asking[c].list = {} /\ meeting # "gone"
          THEN /\ participants' = rest \union asking[c].list
               /\ mixed' = (mixed \/ ~asking[c].alone)
          ELSE UNCHANGED <<participants, mixed>>
       /\ EndAsking(c)
       /\ UNCHANGED <<meeting, decision, items, doubled>>

\* MeetingsService.remove, and the bin: restore, and permanentlyDelete, whose
\* DELETE takes participants and decisions with it (on delete cascade) and waits
\* for the transactions that hold some of them.
RemoveMeeting ==
    /\ meeting = "live"
    /\ meeting' = "removed"
    /\ UNCHANGED <<participants, decision, items, asking, mixed, doubled>>

RestoreMeeting ==
    /\ meeting = "removed"
    /\ meeting' = "live"
    /\ UNCHANGED <<participants, decision, items, asking, mixed, doubled>>

PurgeMeeting ==
    /\ meeting # "gone"
    /\ \A c \in Callers : ~AskingAt(c, "insert")
    /\ meeting' = "gone"
    /\ participants' = {}
    /\ decision' = [here |-> FALSE, item |-> NoWorkItem]
    /\ UNCHANGED <<items, asking, mixed, doubled>>

-----------------------------------------------------------------------------
(* followUp: the decision is read before the transaction, which makes a    *)
(* work item that points at it and writes its work_item_id by id.          *)

MayFollowUpAgain == TRUE
MayFollowUp == decision.item = NoWorkItem

StartFollowUp(c) ==
    /\ c \notin items
    /\ decision.here
    /\ MayFollowUp
    /\ BeginAsking(c, [NotAsking EXCEPT !.step = "followUp"])
    /\ UNCHANGED <<meeting, participants, decision, items, mixed, doubled>>

\* A decision that is gone by then is no row to point at: the INSERT fails.
FollowUp(c) ==
    /\ AskingAt(c, "followUp")
    /\ IF decision.here
       THEN /\ items' = items \union {c}
            /\ decision' = [decision EXCEPT !.item = c]
            /\ doubled' = (doubled \/ ~asking[c].alone)
       ELSE UNCHANGED <<items, decision, doubled>>
    /\ EndAsking(c)
    /\ UNCHANGED <<meeting, participants, mixed>>

\* MeetingDecisionsService.remove is a DELETE.
DeleteDecision ==
    /\ decision.here
    /\ decision' = [here |-> FALSE, item |-> NoWorkItem]
    /\ UNCHANGED <<meeting, participants, items, asking, mixed, doubled>>

\* The work item the decision points at is purged (on delete set null).
PurgeFollowUp ==
    /\ decision.item # NoWorkItem
    /\ items' = items \ {decision.item}
    /\ decision' = [decision EXCEPT !.item = NoWorkItem]
    /\ UNCHANGED <<meeting, participants, asking, mixed, doubled>>

\* A statement fails or the instance stops: what was not committed is gone.
StopAsking(c) ==
    /\ ~NotAskingYet(c)
    /\ EndAsking(c)
    /\ UNCHANGED <<meeting, participants, decision, items, mixed, doubled>>

MeetingsNext ==
    \/ \E c \in Callers :
          \/ \E list \in SUBSET People : StartSetParticipants(c, list)
          \/ SnapshotParticipants(c) \/ DeleteParticipants(c) \/ InsertParticipants(c)
          \/ StartFollowUp(c) \/ FollowUp(c)
          \/ StopAsking(c)
    \/ RemoveMeeting \/ RestoreMeeting \/ PurgeMeeting
    \/ DeleteDecision \/ PurgeFollowUp

MeetingsSpec == MeetingsInit /\ [][MeetingsNext]_meetingVars

-----------------------------------------------------------------------------
\* setParticipants replaces the whole list: what a meeting has when a call ends
\* that overlapped no other is that call's list.
AloneReplacesTheList ==
    [][\A c \in Callers :
          InsertParticipants(c) /\ asking[c].alone /\ meeting # "gone"
              => participants' = asking[c].list]_meetingVars

\* followUp ("sudah ditindaklanjuti ke pekerjaan lain"): a decision has one work
\* item that follows it up, unless two calls overlapped; and the one it points
\* at is always one that was made from it.
OnlyARaceFollowsUpTwice ==
    /\ doubled \/ Cardinality(items) <= 1 \/ ~decision.here
    /\ decision.item # NoWorkItem => decision.item \in items
=============================================================================
