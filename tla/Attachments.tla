----------------------------- MODULE Attachments -----------------------------
(***************************************************************************)
(* Attached files: AttachmentsService, with the links StorageService signs *)
(* for the bucket, the traces AuditService leaves in activity_logs, and    *)
(* the pool of connections all of them share.                              *)
(*                                                                         *)
(* remove leaves its trace inside its transaction, but through the pool:   *)
(* it holds one connection and asks for another.  (So do the updates and   *)
(* removals of milestones, announcements, meetings and agenda, and         *)
(* followUp; the other services leave theirs after the write.)             *)
(***************************************************************************)
EXTENDS Integers, FiniteSets

CONSTANTS Files,  \* ids of attachments; the id stands for the key in the bucket, too
          Agents, \* calls that may run at the same time
          PoolMax \* DATABASE_POOL_MAX

ASSUME PoolAssumption == PoolMax \in Nat \ {0}

VARIABLES
    file,    \* the rows: "none", "live" or "removed"
    bucket,  \* the files whose bytes are stored
    links,   \* the files an upload link has been handed out for
    log,     \* activity_logs: actions and the files they were about
    serving, \* what each call is doing
    undone   \* files whose removal has failed after its trace (history)

attachmentVars == <<file, bucket, links, log, serving, undone>>

-----------------------------------------------------------------------------
(* A call's steps: "select", "insert" and "begin" ask the pool for a       *)
(* connection, and so does "trace"; "update" may wait for the row's lock.  *)

NotServing == [step |-> "idle"]
Serving == [step: {"select", "insert", "begin", "update", "trace", "commit", "answer"},
            does: {"create", "read", "delete"}, id: Files]

AttachmentsTypeOK ==
    /\ file \in [Files -> {"none", "live", "removed"}]
    /\ bucket \subseteq Files /\ links \subseteq Files /\ undone \subseteq Files
    /\ log \subseteq {"create", "read", "delete"} \X Files
    /\ serving \in [Agents -> Serving \union {NotServing}]

AttachmentsInit ==
    /\ file = [f \in Files |-> "none"]
    /\ bucket = {} /\ links = {} /\ log = {} /\ undone = {}
    /\ serving = [a \in Agents |-> NotServing]

ServingAt(a, step) == serving[a].step = step
ServeFrom(a, step, does, f) ==
    /\ ServingAt(a, "idle")
    /\ serving' = [serving EXCEPT ![a] = [step |-> step, does |-> does, id |-> f]]
GoOnServing(a, step) == serving' = [serving EXCEPT ![a].step = step]
EndServing(a) == serving' = [serving EXCEPT ![a] = NotServing]

\* The pool: a transaction holds a connection from BEGIN to COMMIT.
Holds(a) == /\ ~ServingAt(a, "idle") /\ serving[a].does = "delete"
            /\ serving[a].step \in {"update", "trace", "commit"}
FreeConnection == Cardinality({a \in Agents : Holds(a)}) < PoolMax

\* connectionTimeoutMillis: a call does not wait for a connection for ever.
WaitsForEver == FALSE
WaitTimesOut == ~FreeConnection

\* The lock of the row, which the UPDATE has taken.
RowIsFree(a) == \A o \in Agents \ {a} :
                   Holds(o) /\ serving[o].step # "update" => serving[o].id # serving[a].id

-----------------------------------------------------------------------------
(* getUploadUrl: the link is signed, the row inserted, the trace left, and *)
(* then the client gets the link.                                          *)

GetUploadUrl(a, f) ==
    /\ file[f] = "none" /\ \A o \in Agents : ~ServingAt(o, "idle") => serving[o].id # f
    /\ ServeFrom(a, "insert", "create", f)
    /\ UNCHANGED <<file, bucket, links, log, undone>>

InsertFile(a) ==
    /\ ServingAt(a, "insert") /\ FreeConnection
    /\ file' = [file EXCEPT ![serving[a].id] = "live"]
    /\ GoOnServing(a, "trace")
    /\ UNCHANGED <<bucket, links, log, undone>>

\* getDownloadUrl and remove begin with a SELECT of the live row.
GetDownloadUrl(a, f) ==
    /\ ServeFrom(a, "select", "read", f)
    /\ UNCHANGED <<file, bucket, links, log, undone>>

RemoveFile(a, f) ==
    /\ ServeFrom(a, "select", "delete", f)
    /\ UNCHANGED <<file, bucket, links, log, undone>>

SelectFile(a) ==
    /\ ServingAt(a, "select") /\ FreeConnection
    /\ IF file[serving[a].id] # "live" THEN EndServing(a)
       ELSE GoOnServing(a, IF serving[a].does = "read" THEN "trace" ELSE "begin")
    /\ UNCHANGED <<file, bucket, links, log, undone>>

\* The transaction of remove.  Its UPDATE is by id and shows at the COMMIT.
BeginRemoval(a) ==
    /\ ServingAt(a, "begin") /\ FreeConnection
    /\ GoOnServing(a, "update")
    /\ UNCHANGED <<file, bucket, links, log, undone>>

UpdateFile(a) ==
    /\ ServingAt(a, "update") /\ RowIsFree(a)
    /\ GoOnServing(a, "trace")
    /\ UNCHANGED <<file, bucket, links, log, undone>>

\* The transaction without its UPDATE.
CommitUnchanged(a) ==
    /\ ServingAt(a, "commit")
    /\ EndServing(a)
    /\ UNCHANGED <<file, bucket, links, log, undone>>

CommitRemoval(a) ==
    /\ ServingAt(a, "commit")
    /\ file' = [file EXCEPT ![serving[a].id] = "removed"]
    /\ EndServing(a)
    /\ UNCHANGED <<bucket, links, log, undone>>

\* AuditService.record: an INSERT of its own, whose errors are swallowed.
AfterTrace(a) == IF serving[a].does = "delete" THEN "commit" ELSE "answer"

Record(a) ==
    /\ ServingAt(a, "trace") /\ FreeConnection
    /\ \/ log' = log \union {<<serving[a].does, serving[a].id>>}
       \/ log' = log
    /\ GoOnServing(a, AfterTrace(a))
    /\ UNCHANGED <<file, bucket, links, undone>>

AnswerLink(a) ==
    /\ ServingAt(a, "answer")
    /\ links' = IF serving[a].does = "create" THEN links \union {serving[a].id} ELSE links
    /\ EndServing(a)
    /\ UNCHANGED <<file, bucket, log, undone>>

\* The pool refuses: the call fails, but for its trace, which is swallowed.
AsksPool(a) == serving[a].step \in {"select", "insert", "begin", "trace"}
GiveUpWaiting(a) ==
    /\ AsksPool(a) /\ WaitTimesOut
    /\ IF ServingAt(a, "trace") THEN GoOnServing(a, AfterTrace(a)) ELSE EndServing(a)
    /\ UNCHANGED <<file, bucket, links, log, undone>>

\* A statement or the COMMIT fails, or the instance stops.
StopServing(a) ==
    /\ ~ServingAt(a, "idle")
    /\ undone' = IF ServingAt(a, "commit") THEN undone \union {serving[a].id} ELSE undone
    /\ EndServing(a)
    /\ UNCHANGED <<file, bucket, links, log>>

\* A client puts the bytes where the link points to, as often as it likes,
\* until the link expires; the row may be removed by then.
PutBytes(f) ==
    /\ f \in links
    /\ bucket' = bucket \union {f}
    /\ UNCHANGED <<file, links, log, serving, undone>>

LinkExpires(f) ==
    /\ f \in links
    /\ links' = links \ {f}
    /\ UNCHANGED <<file, bucket, log, serving, undone>>

AttachmentsNext ==
    \/ \E f \in Files : PutBytes(f) \/ LinkExpires(f)
    \/ \E a \in Agents :
          \/ \E f \in Files : GetUploadUrl(a, f) \/ GetDownloadUrl(a, f) \/ RemoveFile(a, f)
          \/ InsertFile(a) \/ SelectFile(a)
          \/ BeginRemoval(a) \/ UpdateFile(a) \/ CommitRemoval(a)
          \/ Record(a) \/ AnswerLink(a)
          \/ GiveUpWaiting(a) \/ StopServing(a)

AttachmentsSpec == AttachmentsInit /\ [][AttachmentsNext]_attachmentVars

-----------------------------------------------------------------------------
CanGoOn(a) ==
    \/ AsksPool(a) /\ (FreeConnection \/ WaitTimesOut)
    \/ ServingAt(a, "update") /\ RowIsFree(a)
    \/ serving[a].step \in {"commit", "answer"}

\* The calls never all wait for each other: although removals hold connections
\* while they wait for a second one, and rows' locks while they do, one of the
\* calls can go on.
NoStandstill == (\E a \in Agents : ~ServingAt(a, "idle")) => \E a \in Agents : CanGoOn(a)

\* What is stored or traced is about a row that says so: bytes belong to a row,
\* live or removed, and a removal has been traced only of a row that is
\* removed, is about to be, or kept its row because the COMMIT failed.
StoreAndLogHaveRows ==
    /\ \A f \in bucket : file[f] # "none"
    /\ \A f \in Files : <<"create", f>> \in log => file[f] # "none"
    /\ \A f \in Files : <<"delete", f>> \in log =>
          \/ file[f] = "removed" \/ f \in undone
          \/ \E a \in Agents : ServingAt(a, "commit") /\ serving[a].id = f
=============================================================================
