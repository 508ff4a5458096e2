----------------------------- MODULE Attendance ------------------------------
(***************************************************************************)
(* The answers of a calendar event's attendees: CalendarService.setRsvp, a *)
(* SELECT of the member's row and then an UPDATE or an INSERT.             *)
(***************************************************************************)
EXTENDS Integers

CONSTANTS Invited,  \* members
          Attendees \* calls that may run at the same time

VARIABLES
    event,   \* the event: "live", "removed" or "gone"
    answers, \* how many rows calendar_event_attendees has for each member
    replying \* what each call is doing

attendanceVars == <<event, answers, replying>>

Replying == [step: {"insert", "update"}, person: Invited]
NotReplying == [step |-> "idle"]

AttendanceTypeOK ==
    /\ event \in {"live", "removed", "gone"}
    /\ answers \in [Invited -> 0 .. 1] \* calendar_event_attendees_unique_member
    /\ replying \in [Attendees -> Replying \union {NotReplying}]

AttendanceInit ==
    /\ event = "live"
    /\ answers = [p \in Invited |-> 0]
    /\ replying = [a \in Attendees |-> NotReplying]

\* The live event, and then the member's row.
StartRsvp(a, p) ==
    /\ event = "live"
    /\ replying[a] = NotReplying
    /\ replying' = [replying EXCEPT ![a] = [step |-> IF answers[p] > 0 THEN "update" ELSE "insert",
                                            person |-> p]]
    /\ UNCHANGED <<event, answers>>

EndReplying(a) == replying' = [replying EXCEPT ![a] = NotReplying]

\* An event that is gone is no row to point at, and
\* calendar_event_attendees_unique_member refuses a second row of a member.
Unique(p) == answers[p] = 0

InsertAnswer(a) ==
    LET p == replying[a].person
    IN /\ replying[a].step = "insert"
       /\ answers' = IF event # "gone" /\ Unique(p) THEN [answers EXCEPT ![p] = @ + 1] ELSE answers
       /\ EndReplying(a)
       /\ UNCHANGED event

UpdateAnswer(a) ==
    /\ replying[a].step = "update"
    /\ EndReplying(a)
    /\ UNCHANGED <<event, answers>>

\* CalendarService.remove, and the bin: restore, and permanentlyDelete, which
\* takes the answers with it (on delete cascade).
RemoveEvent ==
    /\ event = "live"
    /\ event' = "removed"
    /\ UNCHANGED <<answers, replying>>

RestoreEvent ==
    /\ event = "removed"
    /\ event' = "live"
    /\ UNCHANGED <<answers, replying>>

PurgeEvent ==
    /\ event # "gone"
    /\ event' = "gone"
    /\ answers' = [p \in Invited |-> 0]
    /\ UNCHANGED replying

\* A statement fails or the instance stops.
StopReplying(a) ==
    /\ replying[a] # NotReplying
    /\ EndReplying(a)
    /\ UNCHANGED <<event, answers>>

AttendanceNext ==
    \/ RemoveEvent \/ RestoreEvent \/ PurgeEvent
    \/ \E a \in Attendees :
          \/ \E p \in Invited : StartRsvp(a, p)
          \/ InsertAnswer(a) \/ UpdateAnswer(a) \/ StopReplying(a)

AttendanceSpec == AttendanceInit /\ [][AttendanceNext]_attendanceVars
=============================================================================
