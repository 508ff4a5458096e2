------------------------------ MODULE Documents ------------------------------
(***************************************************************************)
(* One document of the services that keep a row with a status and, most of *)
(* them, a version: letters, content, creative requests, partners,         *)
(* shipments, trips, milestones, announcements, meetings, decisions,       *)
(* agenda, budgets and transactions, and the recycle bin over them.        *)
(*                                                                         *)
(* Their handlers have one shape: a SELECT of the live row, the checks,    *)
(* and an UPDATE by id alone, which sets the version to one more than the  *)
(* version that was read.  (Milestones, announcements, meetings and agenda *)
(* do so inside a transaction, which at READ COMMITTED and without a lock  *)
(* changes nothing.)  What tells the handlers apart is what they check and *)
(* what they set, so each is a record of that, and StartCall and Finish    *)
(* are its SELECT and its UPDATE.                                          *)
(***************************************************************************)
EXTENDS Integers, FiniteSets

CONSTANTS Kinds,       \* the services the document may belong to
          Writers,     \* clients that may work on it at the same time
          StatusesOf,    \* for a kind, the statuses of its enum that calls ask for
          Columns,     \* for a kind, the columns that calls fill and clear
          MaxVersion,  \* bound on the version
          MaxRevisions \* bound on the revisions of a creative request

VARIABLES
    kind,    \* the service the document belongs to, or the last one did
    doc,     \* its row
    work,    \* what each client is doing
    raced,   \* whether an UPDATE has ever hit a row that had changed since its
             \* SELECT (history)
    revised  \* how often addRevision has succeeded (history)

documentVars == <<kind, doc, work, raced, revised>>

-----------------------------------------------------------------------------
(* status_transitions, as the migrations fill it.                          *)

Step(from, to, needs) == [from |-> from, to |-> to, needs |-> needs]

LetterSteps ==
    {Step("submitted", "needs_completion", {}),
     Step("needs_completion", "submitted", {}),
     Step("submitted", "verified", {}),
     Step("verified", "drafting", {}),
     Step("drafting", "review", {}),
     Step("review", "drafting", {}),
     Step("review", "awaiting_signature", {"signer_name"}),
     Step("awaiting_signature", "drafting", {}),
     Step("awaiting_signature", "ready_to_send", {}),
     Step("ready_to_send", "sent", {"letter_date"}),
     Step("submitted", "sent", {"letter_date"}),
     Step("sent", "done", {})}

ContentSteps ==
    {Step("idea", "brief", {}),
     Step("brief", "copywriting", {}), Step("brief", "visual_request", {}),
     Step("copywriting", "production", {}), Step("visual_request", "production", {}),
     Step("production", "review", {}), Step("review", "production", {}),
     Step("review", "scheduled", {"plannedDate"}),
     Step("scheduled", "published", {"publishedUrl"}),
     Step("published", "evaluation", {})}

CreativeSteps ==
    {Step("request_received", "brief", {}), Step("brief", "queued", {}),
     Step("queued", "production", {"picId"}), Step("production", "draft", {}),
     Step("draft", "review", {}), Step("review", "revision", {}),
     Step("revision", "draft", {}), Step("review", "final", {}),
     Step("final", "done", {"finalFileUrl"})}

PartnerSteps ==
    {Step("prospect", "outreach", {}), Step("outreach", "negotiation", {}),
     Step("negotiation", "proposal_sent", {}), Step("proposal_sent", "proposal_review", {}),
     Step("proposal_review", "contract_review", {}),
     Step("contract_review", "active", {"actualAmount"}),
     Step("active", "fulfilled", {}), Step("active", "on_hold", {}),
     Step("active", "cancelled", {})}
    \union {Step(from, "rejected", {}) : from \in {"prospect", "outreach", "negotiation"}}

TableSteps == CASE kind = "letter"   -> LetterSteps
           [] kind = "content"  -> ContentSteps
           [] kind = "creative" -> CreativeSteps
           [] kind = "partner"  -> PartnerSteps
           [] OTHER             -> {}

-----------------------------------------------------------------------------
(* The handlers.  checks: "ifMatch", the version the client brings is the  *)
(* row's; "step", the table has the step, its fields are filled, and the   *)
(* status asked for is in the enum.  sets: the columns of the UPDATE;      *)
(* "row" stands for a DELETE.                                              *)

Handler(k, checks, sets) == [kind |-> k, checks |-> checks, sets |-> sets]

LettersMoveAnywhere    == Handler("letter", {}, {"status", "version"})
LettersMoveVersionless == Handler("letter", {"step"}, {"status"})
LettersUpdate     == Handler("letter", {"ifMatch"}, {"columns", "version"})
LettersTransition == Handler("letter", {"step"}, {"status", "version"})
LettersRemove     == Handler("letter", {}, {"deletedAt"})

ContentUpdate     == Handler("content", {"ifMatch"}, {"columns", "version"})
ContentTransition == Handler("content", {"step"}, {"status", "version"})
ContentRemove     == Handler("content", {}, {"deletedAt"})

CreativeUpdate      == Handler("creative", {"ifMatch"}, {"columns", "version"})
CreativeTransition  == Handler("creative", {"step"}, {"status", "version"})
CreativeAddRevision == Handler("creative", {}, {"revisionCount", "version"})
CreativeRemove      == Handler("creative", {}, {"deletedAt"})

PartnersUpdate     == Handler("partner", {"ifMatch"}, {"columns", "version"})
PartnersTransition == Handler("partner", {"step"}, {"status", "version"})
PartnersRemove     == Handler("partner", {}, {"deletedAt"})

ShipmentsUpdate     == Handler("shipment", {}, {"columns"})
ShipmentsTransition == Handler("shipment", {}, {"status"})
ShipmentsRemove     == Handler("shipment", {}, {"deletedAt"})

\* A transition without a note writes back the note it has read.
TripsUpdate     == Handler("trip", {}, {"columns"})
TripsTransition == Handler("trip", {}, {"status", "note"})
TripsRemove     == Handler("trip", {}, {"deletedAt"})

MilestonesUpdate == Handler("milestone", {"ifMatch"}, {"columns", "status", "version"})
MilestonesRemove == Handler("milestone", {}, {"deletedAt"})

AnnouncementsUpdate == Handler("announcement", {"ifMatch"}, {"columns", "version"})
AnnouncementsRemove == Handler("announcement", {}, {"deletedAt"})

MeetingsUpdate == Handler("meeting", {"ifMatch"}, {"columns", "version"})
MeetingsRemove == Handler("meeting", {}, {"deletedAt"})

CalendarUpdate == Handler("event", {"ifMatch"}, {"columns", "version"})
CalendarRemove == Handler("event", {}, {"deletedAt"})

DecisionsUpdate == Handler("decision", {}, {"columns", "status"})
DecisionsRemove == Handler("decision", {}, {"row"})

\* The body of a budget's transition names any status, and its note replaces
\* the old one.
BudgetsUpdate     == Handler("budget", {"ifMatch"}, {"columns", "version"})
BudgetsTransition == Handler("budget", {}, {"columns", "status", "version"})
BudgetsRemove     == Handler("budget", {}, {"deletedAt"})

TransactionsUpdate == Handler("transaction", {"ifMatch"}, {"columns", "version"})
TransactionsVerify == Handler("transaction", {}, {"verified", "version"})
TransactionsRemove == Handler("transaction", {}, {"deletedAt"})

Handlers ==
    {LettersUpdate, LettersTransition, LettersRemove,
     ContentUpdate, ContentTransition, ContentRemove,
     CreativeUpdate, CreativeTransition, CreativeAddRevision, CreativeRemove,
     PartnersUpdate, PartnersTransition, PartnersRemove,
     ShipmentsUpdate, ShipmentsTransition, ShipmentsRemove,
     TripsUpdate, TripsTransition, TripsRemove,
     MilestonesUpdate, MilestonesRemove,
     AnnouncementsUpdate, AnnouncementsRemove,
     MeetingsUpdate, MeetingsRemove,
     CalendarUpdate, CalendarRemove,
     DecisionsUpdate, DecisionsRemove,
     BudgetsUpdate, BudgetsTransition, BudgetsRemove,
     TransactionsUpdate, TransactionsVerify, TransactionsRemove}

-----------------------------------------------------------------------------
(* The routes that show the document: its list and its detail show a live  *)
(* row, the bin a removed one, the export either.  A decision's row has no *)
(* deleted_at.                                                             *)

Route(k, shows) == [kind |-> k, shows |-> shows]

LettersList         == Route("letter", {"live"})
LettersDetail       == Route("letter", {"live"})
ContentList         == Route("content", {"live"})
ContentDetail       == Route("content", {"live"})
CreativeList        == Route("creative", {"live"})
CreativeDetail      == Route("creative", {"live"})
PartnersList        == Route("partner", {"live"})
PartnersDetail      == Route("partner", {"live"})
ShipmentsList       == Route("shipment", {"live"})
ShipmentsDetail     == Route("shipment", {"live"})
TripsList           == Route("trip", {"live"})
TripsDetail         == Route("trip", {"live"})
MilestonesList      == Route("milestone", {"live"})
MilestonesDetail    == Route("milestone", {"live"})
AnnouncementsList   == Route("announcement", {"live"})
AnnouncementsDetail == Route("announcement", {"live"})
MeetingsList        == Route("meeting", {"live"})
MeetingsDetail      == Route("meeting", {"live"})
CalendarList        == Route("event", {"live"})
CalendarDetail      == Route("event", {"live"})
DecisionsList       == Route("decision", {"live"})
BudgetsList         == Route("budget", {"live"})
BudgetsDetail       == Route("budget", {"live"})
TransactionsList    == Route("transaction", {"live"})
TransactionsDetail  == Route("transaction", {"live"})
TransactionsExport  == Route("transaction", {"live", "removed"})

\* TRASHABLE_TABLES: the tables of the bin.
Trashable == {"letter", "content", "partner", "trip", "milestone", "announcement",
              "meeting", "event", "decision", "transaction"}

BinList == {Route(k, {"removed"}) : k \in Trashable}

Routes ==
    {LettersList, LettersDetail, ContentList, ContentDetail, CreativeList, CreativeDetail,
     PartnersList, PartnersDetail, ShipmentsList, ShipmentsDetail, TripsList, TripsDetail,
     MilestonesList, MilestonesDetail, AnnouncementsList, AnnouncementsDetail,
     MeetingsList, MeetingsDetail, CalendarList, CalendarDetail, DecisionsList,
     BudgetsList, BudgetsDetail, TransactionsList, TransactionsDetail, TransactionsExport}
    \union BinList

-----------------------------------------------------------------------------
(* The tables: the status a new row has, and which of the columns that     *)
(* matter here there are.  Announcements and meetings have no status.      *)

Table(k, first, columns) == [kind |-> k, first |-> first, columns |-> columns]

LettersTable       == Table("letter", "submitted", {"deletedAt", "version"})
ContentTable       == Table("content", "idea", {"deletedAt", "version"})
CreativeTable      == Table("creative", "request_received", {"revisionCount", "deletedAt", "version"})
PartnersTable      == Table("partner", "prospect", {"deletedAt", "version"})
ShipmentsTable     == Table("shipment", "processing", {"deletedAt"})
TripsTable         == Table("trip", "planned", {"note", "deletedAt"})
MilestonesTable    == Table("milestone", "backlog", {"note", "deletedAt", "version"})
AnnouncementsTable == Table("announcement", "none", {"deletedAt", "version"})
MeetingsTable      == Table("meeting", "none", {"deletedAt", "version"})
CalendarTable      == Table("event", "scheduled", {"deletedAt", "version"})
DecisionsTable     == Table("decision", "backlog", {})
BudgetsTable       == Table("budget", "draft", {"deletedAt", "version"})
TransactionsTable  == Table("transaction", "recorded", {"verified", "deletedAt", "version"})

Tables == {LettersTable, ContentTable, CreativeTable, PartnersTable, ShipmentsTable, TripsTable,
           MilestonesTable, AnnouncementsTable, MeetingsTable, CalendarTable, DecisionsTable,
           BudgetsTable, TransactionsTable}

KindsWith(column) == {t.kind : t \in {t \in Tables : column \in t.columns}}

-----------------------------------------------------------------------------
(* How a row of each kind begins: with the table's status, or one the body *)
(* names.                                                                  *)

New(t, named) == [kind |-> t.kind, statuses |-> {t.first} \union named]

LettersCreate       == New(LettersTable, {})
ContentCreate       == New(ContentTable, {})
CreativeCreate      == New(CreativeTable, {})
PartnersCreate      == New(PartnersTable, {})
ShipmentsCreate     == New(ShipmentsTable, {})
TripsCreate         == New(TripsTable, {})
MilestonesCreate    == New(MilestonesTable, StatusesOf["milestone"])
AnnouncementsCreate == New(AnnouncementsTable, {})
MeetingsCreate      == New(MeetingsTable, {})
CalendarCreate      == New(CalendarTable, {})
DecisionsCreate     == New(DecisionsTable, {})
BudgetsCreate       == New(BudgetsTable, {})
TransactionsCreate  == New(TransactionsTable, {})

News == {LettersCreate, ContentCreate, CreativeCreate, PartnersCreate, ShipmentsCreate,
         TripsCreate, MilestonesCreate, AnnouncementsCreate, MeetingsCreate, CalendarCreate,
         DecisionsCreate, BudgetsCreate, TransactionsCreate}

Versioned == KindsWith("version")

-----------------------------------------------------------------------------
DocumentStatuses == {"none"} \union {t.first : t \in Tables} \union UNION {StatusesOf[k] : k \in Kinds}
DocumentColumns  == {"note", "verified"} \union UNION {Columns[k] : k \in Kinds}

DocumentRow == [here: BOOLEAN, deleted: BOOLEAN, status: DocumentStatuses, version: Nat,
        columns: SUBSET DocumentColumns, revisions: Nat]
NoDocumentRow == [here |-> FALSE, deleted |-> FALSE, status |-> "none", version |-> 0,
          columns |-> {}, revisions |-> 0]

\* opened: the row a route has shown the client.  The other fields are those
\* of a call between its SELECT and its UPDATE: its handler, the body (a status,
\* a column and whether it is filled), the version and the columns of the row
\* read, whether that row is the one the client had opened, and whether the row
\* has been written since.
NoHandler == Handler("none", {}, {})
NotWorking == [step |-> "idle", opened |-> NoDocumentRow, handler |-> NoHandler, to |-> "none",
               column |-> "none", fill |-> FALSE, version |-> 0, read |-> {},
               asOpened |-> FALSE, overtaken |-> FALSE]
Work == [step: {"idle", "opened", "write"}, opened: DocumentRow, handler: Handlers \union {NoHandler},
         to: DocumentStatuses, column: DocumentColumns \union {"none"}, fill: BOOLEAN, version: Nat,
         read: SUBSET DocumentColumns,
         asOpened: BOOLEAN, overtaken: BOOLEAN]

DocumentsInit ==
    /\ kind = "none"
    /\ doc = NoDocumentRow
    /\ work = [w \in Writers |-> NotWorking]
    /\ raced = FALSE
    /\ revised = 0

-----------------------------------------------------------------------------
LiveDocument == doc.here /\ ~doc.deleted

CreateDocument(n, status) ==
    /\ n.kind \in Kinds
    /\ doc = NoDocumentRow
    /\ \A w \in Writers : work[w] = NotWorking
    /\ kind' = n.kind
    /\ doc' = [NoDocumentRow EXCEPT !.here = TRUE, !.status = status,
                                   !.version = IF n.kind \in Versioned THEN 1 ELSE 0]
    /\ raced' = FALSE /\ revised' = 0
    /\ UNCHANGED work

\* A client reads the document.  (Every client does so before it calls: what it
\* has read matters to the handlers that ask for If-Match only.)
OpenDocument(w, route) ==
    /\ work[w].step = "idle"
    /\ route.kind = kind
    /\ doc.here
    /\ (IF doc.deleted THEN "removed" ELSE "live") \in route.shows
    /\ work' = [work EXCEPT ![w] = [NotWorking EXCEPT !.step = "opened", !.opened = doc]]
    /\ UNCHANGED <<kind, doc, raced, revised>>

\* A status's required field is looked up by its name in the table among the
\* properties of the row that was read.
IsFilled(field) == field \in doc.columns

CanTransition(to) ==
    /\ to \in StatusesOf[kind]
    /\ \E s \in TableSteps : s.from = doc.status /\ s.to = to /\ \A f \in s.needs : IsFilled(f)

VersionMatches(w) == work[w].opened.version = doc.version

StartCall(w, h, to, column, fill) ==
    /\ work[w].step = "opened"
    /\ LiveDocument
    /\ "ifMatch" \in h.checks => VersionMatches(w)
    /\ "step" \in h.checks => CanTransition(to)
    /\ "revisionCount" \in h.sets => doc.revisions < MaxRevisions
    /\ doc.version < MaxVersion
    /\ work' = [work EXCEPT ![w] =
                   [step |-> "write", opened |-> NoDocumentRow, handler |-> h, to |-> to,
                    column |-> column, fill |-> fill, version |-> doc.version,
                    read |-> doc.columns, asOpened |-> work[w].opened = doc,
                    overtaken |-> FALSE]]
    /\ UNCHANGED <<kind, doc, raced, revised>>

\* The bodies a handler may get: a status, a column and whether it is filled.
\* What the handler does not set stays fixed.
Bodies(h) ==
    {b \in (StatusesOf[kind] \union {"none"}) \X (Columns[kind] \union {"none"}) \X BOOLEAN :
        /\ b[1] # "none" <=> "status" \in h.sets
        /\ b[2] # "none" <=> "columns" \in h.sets
        /\ "columns" \notin h.sets /\ "note" \notin h.sets => ~b[3]}

ColumnsSet(w) ==
    LET c == work[w]
    IN CASE "columns" \in c.handler.sets /\ c.fill  -> doc.columns \union {c.column}
         [] "columns" \in c.handler.sets /\ ~c.fill -> doc.columns \ {c.column}
         [] "note" \in c.handler.sets ->
              (doc.columns \ {"note"}) \union
              (IF c.fill THEN {"note"} ELSE c.read \intersect {"note"})
         [] "verified" \in c.handler.sets -> doc.columns \union {"verified"}
         [] OTHER -> doc.columns

\* deleted_at, were the whole row written back as it was read; and as it is.
DeletedAsRead(w) == "deletedAt" \in work[w].handler.sets
DeletedAfter(w) == doc.deleted \/ "deletedAt" \in work[w].handler.sets

\* revision_count + 1, of the count that was read; and of the row's.
RevisionsOfTheRead(w) ==
    IF "revisionCount" \in work[w].handler.sets /\ ~work[w].overtaken
    THEN doc.revisions + 1 ELSE doc.revisions
RevisionsAfter(w) ==
    IF "revisionCount" \in work[w].handler.sets THEN doc.revisions + 1 ELSE doc.revisions

\* The UPDATE, of the columns the handler sets in the row as it now is.
Written(w) ==
    LET c == work[w]
    IN IF "row" \in c.handler.sets THEN NoDocumentRow
       ELSE [here |-> TRUE,
             deleted |-> DeletedAfter(w),
             status |-> IF "status" \in c.handler.sets THEN c.to ELSE doc.status,
             version |-> IF "version" \in c.handler.sets THEN c.version + 1 ELSE doc.version,
             columns |-> ColumnsSet(w),
             revisions |-> RevisionsAfter(w)]

\* A statement has changed the row: the calls between their SELECT and their
\* UPDATE are overtaken.
Overtaken(others) ==
    [o \in Writers |-> IF o \in others /\ work[o].step = "write"
                       THEN [work[o] EXCEPT !.overtaken = TRUE]
                       ELSE work[o]]

Finish(w) ==
    /\ work[w].step = "write"
    /\ doc' = IF doc.here THEN Written(w) ELSE doc
    /\ work' = [Overtaken(Writers \ {w}) EXCEPT ![w] = NotWorking]
    /\ raced' = (raced \/ work[w].overtaken)
    /\ revised' = IF doc.here /\ "revisionCount" \in work[w].handler.sets
                  THEN revised + 1 ELSE revised
    /\ UNCHANGED kind

\* The client loses interest, or the instance stops before the UPDATE.
LeaveDocument(w) ==
    /\ work[w].step # "idle"
    /\ work' = [work EXCEPT ![w] = NotWorking]
    /\ UNCHANGED <<kind, doc, raced, revised>>

-----------------------------------------------------------------------------
\* RecycleBinService.restore and permanentlyDelete: by id, whether or not the
\* row is in the bin.  A table without deleted_at leaves restore nothing to set,
\* and its statement fails.
RestoreDocument ==
    /\ kind \in Trashable \intersect KindsWith("deletedAt")
    /\ doc.here
    /\ doc.version < MaxVersion
    /\ doc' = [doc EXCEPT !.deleted = FALSE,
                          !.version = IF kind \in Versioned THEN @ + 1 ELSE @]
    /\ work' = Overtaken(Writers)
    /\ UNCHANGED <<kind, raced, revised>>

PermanentlyDelete ==
    /\ kind \in Trashable
    /\ doc.here
    /\ doc' = NoDocumentRow
    /\ work' = Overtaken(Writers)
    /\ UNCHANGED <<kind, raced, revised>>

DocumentsNext ==
    \/ \E n \in News : \E status \in n.statuses : CreateDocument(n, status)
    \/ \E w \in Writers :
          \/ \E route \in Routes : OpenDocument(w, route)
          \/ \E h \in {h \in Handlers : h.kind = kind} : \E b \in Bodies(h) : StartCall(w, h, b[1], b[2], b[3])
          \/ Finish(w)
          \/ LeaveDocument(w)
    \/ RestoreDocument
    \/ PermanentlyDelete

DocumentsSpec == DocumentsInit /\ [][DocumentsNext]_documentVars

-----------------------------------------------------------------------------
DocumentsTypeOK ==
    /\ kind \in Kinds \union {"none"}
    /\ doc \in DocumentRow
    /\ work \in [Writers -> Work]
    /\ raced \in BOOLEAN
    /\ revised \in Nat

\* If-Match (content.service.ts, update): as long as no UPDATE has hit a row that
\* changed after its SELECT, a call whose version matched is about to replace
\* the row its client had opened, whatever other clients, the transitions and
\* the bin did in between.
IfMatchMeansAsOpened ==
    \A w \in Writers :
        work[w].step = "write" /\ "ifMatch" \in work[w].handler.checks
            => raced \/ work[w].overtaken \/ work[w].asOpened

\* addRevision (creative.service.ts, "aman dari race condition"): the count of
\* revisions is the number of calls, whichever calls overtake which.
EveryRevisionCounts == kind = "creative" /\ doc.here => doc.revisions = revised

\* A removed document comes back by the bin's restore alone: no UPDATE that was
\* under way when it was removed, or purged, makes it live again.
OnlyTheBinRestores == [][~LiveDocument /\ LiveDocument' => RestoreDocument \/ doc = NoDocumentRow]_documentVars

\* assertCanTransition: a letter, content, creative request or partner moves
\* along the table's steps, and only a call that was overtaken leaves them.
OnlyARaceLeavesTheSteps ==
    [][TableSteps # {} /\ doc.here /\ doc'.here /\ doc'.status # doc.status =>
          \/ \E s \in TableSteps : /\ s.from = doc.status
                                   /\ s.to = doc'.status
                                   /\ s.needs \subseteq doc.columns
          \/ \E w \in Writers : Finish(w) /\ work[w].overtaken]_documentVars

\* The property of a row that holds a required field's column.
PropertyOf(field) == CASE field = "signer_name" -> "signerName"
                       [] field = "letter_date" -> "letterDate"
                       [] OTHER -> field

\* The steps of the table are the ones the service can take: where a step's
\* fields are filled in the document, the step is open (0005, "Alur normal").
FilledStepsAreOpen ==
    LiveDocument => \A s \in TableSteps :
                s.from = doc.status /\ {PropertyOf(f) : f \in s.needs} \subseteq doc.columns
                    => CanTransition(s.to)
=============================================================================
