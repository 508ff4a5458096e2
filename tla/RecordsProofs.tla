--------------------------- MODULE RecordsProofs ----------------------------
(***************************************************************************)
(* The documents, what hangs on a meeting, a partner and an event, and the *)
(* attached files, for any kinds, statuses and columns and any number of   *)
(* calls.                                                                  *)
(***************************************************************************)
EXTENDS Documents, Meetings, PartnerRows, Attachments, Attendance, FiniteSetTheorems, TLAPS

-----------------------------------------------------------------------------
(* The documents, whatever kinds, statuses and columns there are.          *)

VersionedKinds == {"letter", "content", "creative", "partner", "milestone",
                   "announcement", "meeting", "event", "budget", "transaction"}
SteppedKinds == {"letter", "content", "creative", "partner"}

KindIsKnown == doc.here => kind \in Kinds

\* A call between its SELECT and its UPDATE is one of the document's handlers.
OfTheKind(c) ==
    c.step = "write" =>
        /\ c.handler \in Handlers
        /\ c.handler.kind = kind
        /\ "columns" \in c.handler.sets => c.column # "none"

\* As long as nobody writes, what the SELECT found is what the UPDATE will find.
Fresh(c) ==
    c.step = "write" /\ ~c.overtaken =>
        /\ LiveDocument
        /\ c.version = doc.version
        /\ "step" \in c.handler.checks =>
              \E s \in TableSteps :
                  s.from = doc.status /\ s.to = c.to /\ s.needs \subseteq doc.columns

\* As long as no overtaken call has written, versions only rise, and the row a
\* client has opened is the row as long as it is live and has its version.
VersionTells(c) ==
    c.step = "opened" /\ ~raced /\ doc.here /\ kind \in VersionedKinds =>
        /\ c.opened.version <= doc.version
        /\ ~doc.deleted /\ c.opened.version = doc.version => c.opened = doc

AsOpened(c) ==
    c.step = "write" /\ "ifMatch" \in c.handler.checks => raced \/ c.overtaken \/ c.asOpened

DocumentCallStands(c) == OfTheKind(c) /\ Fresh(c) /\ VersionTells(c) /\ AsOpened(c)

CallsStand == \A w \in Writers : DocumentCallStands(work[w])

DocumentsInv == DocumentsTypeOK /\ KindIsKnown /\ CallsStand /\ EveryRevisionCounts

-----------------------------------------------------------------------------
(* The handlers, one by one.                                               *)

KnownHandler(h) ==
    /\ "status" \in h.sets /\ h.kind \in SteppedKinds => "step" \in h.checks
    /\ "ifMatch" \in h.checks => h.kind \in VersionedKinds
    /\ h.kind \in VersionedKinds => "version" \in h.sets \/ h.sets = {"deletedAt"}

\* Every handler of a table of steps that sets the status asks for a step, every
\* handler that asks for If-Match writes a versioned row, and what leaves the
\* version of one as it is removes the row.
LEMMA HandlersAreKnown == ASSUME NEW h \in Handlers PROVE KnownHandler(h)
BY DEF KnownHandler, VersionedKinds, SteppedKinds, Handler, Handlers,
       LettersUpdate, LettersTransition, LettersRemove,
       ContentUpdate, ContentTransition, ContentRemove,
       CreativeUpdate, CreativeTransition, CreativeAddRevision, CreativeRemove,
       PartnersUpdate, PartnersTransition, PartnersRemove,
       ShipmentsUpdate, ShipmentsTransition, ShipmentsRemove,
       TripsUpdate, TripsTransition, TripsRemove, MilestonesUpdate, MilestonesRemove,
       AnnouncementsUpdate, AnnouncementsRemove, MeetingsUpdate, MeetingsRemove,
       CalendarUpdate, CalendarRemove, DecisionsUpdate, DecisionsRemove,
       BudgetsUpdate, BudgetsTransition, BudgetsRemove,
       TransactionsUpdate, TransactionsVerify, TransactionsRemove

\* The tables that have a version column.
LEMMA VersionedTables == ASSUME NEW k \in VersionedKinds PROVE k \in Versioned
<1>1. ASSUME NEW t \in Tables, "version" \in t.columns PROVE t.kind \in Versioned
  BY <1>1 DEF Versioned, KindsWith
<1>2. /\ LettersTable \in Tables /\ ContentTable \in Tables /\ CreativeTable \in Tables
      /\ PartnersTable \in Tables /\ MilestonesTable \in Tables /\ AnnouncementsTable \in Tables
      /\ MeetingsTable \in Tables /\ CalendarTable \in Tables /\ BudgetsTable \in Tables
      /\ TransactionsTable \in Tables
  BY DEF Tables
<1>3. /\ LettersTable.kind = "letter" /\ "version" \in LettersTable.columns
      /\ ContentTable.kind = "content" /\ "version" \in ContentTable.columns
      /\ CreativeTable.kind = "creative" /\ "version" \in CreativeTable.columns
      /\ PartnersTable.kind = "partner" /\ "version" \in PartnersTable.columns
      /\ MilestonesTable.kind = "milestone" /\ "version" \in MilestonesTable.columns
      /\ AnnouncementsTable.kind = "announcement" /\ "version" \in AnnouncementsTable.columns
      /\ MeetingsTable.kind = "meeting" /\ "version" \in MeetingsTable.columns
      /\ CalendarTable.kind = "event" /\ "version" \in CalendarTable.columns
      /\ BudgetsTable.kind = "budget" /\ "version" \in BudgetsTable.columns
      /\ TransactionsTable.kind = "transaction" /\ "version" \in TransactionsTable.columns
  BY DEF Table, LettersTable, ContentTable, CreativeTable, PartnersTable, MilestonesTable,
         AnnouncementsTable, MeetingsTable, CalendarTable, BudgetsTable, TransactionsTable
<1> QED BY <1>1, <1>2, <1>3 DEF VersionedKinds

\* A new row begins with a status of its table, or of the body.
LEMMA NewsTyped ==
    ASSUME NEW n \in News, n.kind \in Kinds, NEW status \in n.statuses
    PROVE  status \in DocumentStatuses
<1>1. PICK t \in Tables, named \in {{}, StatusesOf["milestone"]} :
         n = New(t, named) /\ (named # {} => t = MilestonesTable)
  BY DEF News, Tables, LettersCreate, ContentCreate, CreativeCreate, PartnersCreate,
         ShipmentsCreate, TripsCreate, MilestonesCreate, AnnouncementsCreate, MeetingsCreate,
         CalendarCreate, DecisionsCreate, BudgetsCreate, TransactionsCreate
<1>2. status = t.first \/ (status \in StatusesOf["milestone"] /\ n.kind = "milestone")
  BY <1>1 DEF New, MilestonesTable, Table
<1> QED BY <1>2 DEF DocumentStatuses

\* No row, and a client that has not opened one.
LEMMA NothingTyped ==
    /\ NoDocumentRow \in DocumentRow
    /\ NoDocumentRow.here = FALSE
    /\ NotWorking \in Work
    /\ NotWorking.step = "idle"
BY DEF NoDocumentRow, DocumentRow, NotWorking, Work, DocumentStatuses

\* Between two calls there is a record, too, that claims nothing.
LEMMA NotWorkingStands == DocumentCallStands(NotWorking)
BY NothingTyped DEF DocumentCallStands, OfTheKind, Fresh, VersionTells, AsOpened

\* There is no document and no call.
LEMMA DocumentsStart == DocumentsInit => DocumentsInv
<1> SUFFICES ASSUME DocumentsInit PROVE DocumentsInv
    OBVIOUS
<1>1. DocumentsTypeOK
  BY NothingTyped DEF DocumentsInit, DocumentsTypeOK
<1>2. CallsStand
  BY NotWorkingStands DEF DocumentsInit, CallsStand
<1>3. KindIsKnown /\ EveryRevisionCounts
  BY NothingTyped DEF DocumentsInit, KindIsKnown, EveryRevisionCounts
<1> QED BY <1>1, <1>2, <1>3 DEF DocumentsInv

-----------------------------------------------------------------------------
\* A step of one client that leaves the document as it is.
LEMMA ClientKeeps ==
    ASSUME DocumentsInv, NEW w \in Writers, NEW c \in Work, DocumentCallStands(c),
           work' = [work EXCEPT ![w] = c], UNCHANGED <<kind, doc, raced, revised>>
    PROVE  DocumentsInv'
<1>1. DocumentsTypeOK' /\ KindIsKnown' /\ EveryRevisionCounts'
  BY DEF DocumentsInv, DocumentsTypeOK, KindIsKnown, EveryRevisionCounts
<1>2. CallsStand'
  <2> SUFFICES ASSUME NEW o \in Writers PROVE DocumentCallStands(work[o])'
      BY DEF CallsStand
  <2>1. DocumentCallStands(work'[o])
    BY DEF DocumentsInv, DocumentsTypeOK, CallsStand
  <2> QED
    BY <2>1 DEF DocumentCallStands, OfTheKind, Fresh, VersionTells, AsOpened, LiveDocument,
       TableSteps
<1> QED BY <1>1, <1>2 DEF DocumentsInv

\* A client reads the document, and keeps its version for If-Match.
LEMMA OpenKeeps ==
    ASSUME DocumentsInv, NEW w \in Writers, NEW route \in Routes, OpenDocument(w, route)
    PROVE  DocumentsInv'
<1> DEFINE c == [NotWorking EXCEPT !.step = "opened", !.opened = doc]
<1>1. doc \in DocumentRow
  BY DEF DocumentsInv, DocumentsTypeOK
<1>2. c \in Work /\ c.step = "opened" /\ c.opened = doc
  BY <1>1, NothingTyped DEF NotWorking, Work
<1>3. doc.version \in Nat
  BY <1>1 DEF DocumentRow
<1>4. work' = [work EXCEPT ![w] = c] /\ UNCHANGED <<kind, doc, raced, revised>>
  BY DEF OpenDocument
<1> HIDE DEF c
<1>5. DocumentCallStands(c)
  BY <1>2, <1>3 DEF DocumentCallStands, OfTheKind, Fresh, VersionTells, AsOpened
<1> QED BY <1>2, <1>4, <1>5, ClientKeeps

\* The client loses interest, or the instance stops before the UPDATE.
LEMMA LeaveKeeps ==
    ASSUME DocumentsInv, NEW w \in Writers, LeaveDocument(w)
    PROVE  DocumentsInv'
BY NothingTyped, NotWorkingStands, ClientKeeps DEF LeaveDocument

\* A handler has read the row and passed its checks.
LEMMA StartKeeps ==
    ASSUME DocumentsInv, NEW w \in Writers, NEW h \in Handlers, h.kind = kind,
           NEW b \in Bodies(h), StartCall(w, h, b[1], b[2], b[3])
    PROVE  DocumentsInv'
<1> DEFINE c == [step |-> "write", opened |-> NoDocumentRow, handler |-> h, to |-> b[1],
                 column |-> b[2], fill |-> b[3], version |-> doc.version,
                 read |-> doc.columns, asOpened |-> work[w].opened = doc, overtaken |-> FALSE]
<1>1. doc \in DocumentRow /\ doc.version \in Nat /\ doc.columns \subseteq DocumentColumns
  BY DEF DocumentsInv, DocumentsTypeOK, DocumentRow
<1>2. LiveDocument /\ kind \in Kinds
  BY DEF StartCall, LiveDocument, DocumentsInv, KindIsKnown
<1>3. /\ b[1] \in DocumentStatuses /\ b[2] \in DocumentColumns \union {"none"} /\ b[3] \in BOOLEAN
      /\ "columns" \in h.sets => b[2] # "none"
  <2>1. b \in (StatusesOf[kind] \union {"none"}) \X (Columns[kind] \union {"none"}) \X BOOLEAN
    BY DEF Bodies
  <2>2. /\ b[1] \in StatusesOf[kind] \union {"none"} /\ b[2] \in Columns[kind] \union {"none"}
        /\ b[3] \in BOOLEAN
    BY <2>1
  <2>3. "columns" \in h.sets => b[2] # "none"
    BY DEF Bodies
  <2> QED BY <1>2, <2>2, <2>3 DEF DocumentStatuses, DocumentColumns
<1>4. c \in Work
  <2>1. (work[w].opened = doc) \in BOOLEAN
    OBVIOUS
  <2> QED BY <1>1, <1>3, <2>1, NothingTyped DEF Work
<1>5. /\ c.step = "write" /\ c.handler = h /\ c.to = b[1] /\ c.column = b[2]
      /\ c.version = doc.version /\ c.overtaken = FALSE /\ c.asOpened = (work[w].opened = doc)
  OBVIOUS
<1>6. work' = [work EXCEPT ![w] = c] /\ UNCHANGED <<kind, doc, raced, revised>>
  BY DEF StartCall
<1> HIDE DEF c
<1>7. OfTheKind(c)
  BY <1>3, <1>5 DEF OfTheKind
<1>8. Fresh(c)
  <2>1. "step" \in h.checks =>
           \E s \in TableSteps : s.from = doc.status /\ s.to = b[1] /\ s.needs \subseteq doc.columns
    BY DEF StartCall, CanTransition, IsFilled
  <2> QED BY <1>2, <1>5, <2>1 DEF Fresh
<1>9. VersionTells(c)
  BY <1>5 DEF VersionTells
<1>10. AsOpened(c)
  <2> SUFFICES ASSUME "ifMatch" \in h.checks, ~raced PROVE work[w].opened = doc
      BY <1>5 DEF AsOpened
  <2>1. work[w].step = "opened" /\ work[w].opened.version = doc.version
    BY DEF StartCall, VersionMatches
  <2>2. kind \in VersionedKinds
    BY HandlersAreKnown DEF KnownHandler
  <2> QED BY <1>2, <2>1, <2>2
             DEF DocumentsInv, CallsStand, DocumentCallStands, VersionTells, LiveDocument
<1> QED BY <1>4, <1>6, <1>7, <1>8, <1>9, <1>10, ClientKeeps DEF DocumentCallStands

-----------------------------------------------------------------------------
(* The statements that write the row.                                      *)

\* The calls that a statement overtakes are the calls they were.
LEMMA OvertakenCalls ==
    ASSUME DocumentsInv, NEW others \in SUBSET Writers, NEW w \in Writers
    PROVE  LET c == Overtaken(others)[w] IN
           /\ c \in Work
           /\ c.step = work[w].step
           /\ c.opened = work[w].opened /\ c.handler = work[w].handler
           /\ c.column = work[w].column
           /\ w \in others /\ c.step = "write" => c.overtaken
<1>1. work[w] \in Work
  BY DEF DocumentsInv, DocumentsTypeOK
<1>2. CASE w \in others /\ work[w].step = "write"
  <2>1. Overtaken(others)[w] = [work[w] EXCEPT !.overtaken = TRUE]
    BY <1>2 DEF Overtaken
  <2> QED BY <1>1, <2>1 DEF Work
<1>3. CASE ~(w \in others /\ work[w].step = "write")
  <2>1. Overtaken(others)[w] = work[w]
    BY <1>3 DEF Overtaken
  <2> QED BY <1>1, <1>3, <2>1
<1> QED BY <1>2, <1>3

\* An overtaken call still stands, if the document's version has risen, or the
\* document is live no more, or the writer was itself overtaken.
LEMMA OvertakenStands ==
    ASSUME DocumentsInv, NEW others \in SUBSET Writers, NEW w \in Writers,
           NEW c, c = Overtaken(others)[w],
           w \in others \/ work[w].step # "write",
           doc' \in DocumentRow, kind' = kind, raced => raced',
           \/ raced' \/ ~doc'.here \/ kind \notin VersionedKinds
           \/ /\ doc.here
              /\ \/ doc' = doc
                 \/ doc'.version > doc.version
                 \/ doc'.deleted /\ doc'.version = doc.version
    PROVE  DocumentCallStands(c)'
<1>1. /\ c.step = work[w].step /\ c.opened = work[w].opened /\ c.handler = work[w].handler
      /\ c.column = work[w].column
      /\ c.step = "write" => c.overtaken
  BY OvertakenCalls
<1>2. DocumentCallStands(work[w]) /\ work[w].opened.version \in Nat
  BY DEF DocumentsInv, DocumentsTypeOK, CallsStand, Work, DocumentRow
<1>3. OfTheKind(c)' /\ Fresh(c)' /\ AsOpened(c)'
  BY <1>1, <1>2 DEF DocumentCallStands, OfTheKind, Fresh, AsOpened
<1>4. VersionTells(c)'
  <2> SUFFICES ASSUME c.step = "opened", ~raced', doc'.here, kind \in VersionedKinds
               PROVE  /\ c.opened.version <= doc'.version
                      /\ ~doc'.deleted /\ c.opened.version = doc'.version => c.opened = doc'
      BY DEF VersionTells
  <2>1. /\ c.opened.version <= doc.version
        /\ ~doc.deleted /\ c.opened.version = doc.version => c.opened = doc
    BY <1>1, <1>2 DEF DocumentCallStands, VersionTells
  <2>2. doc.version \in Nat /\ doc'.version \in Nat /\ c.opened.version \in Nat
    BY <1>1, <1>2 DEF DocumentsInv, DocumentsTypeOK, DocumentRow
  <2>3. CASE doc' = doc
    BY <2>1, <2>3
  <2>4. CASE doc'.version > doc.version
    BY <2>1, <2>2, <2>4
  <2>5. CASE doc'.deleted /\ doc'.version = doc.version
    BY <2>1, <2>5
  <2> QED BY <2>3, <2>4, <2>5
<1> QED BY <1>3, <1>4 DEF DocumentCallStands

\* The UPDATE leaves a row of the type, and a version that rises unless the call
\* was overtaken.
LEMMA WrittenTyped ==
    ASSUME DocumentsInv, NEW w \in Writers, work[w].step = "write", doc.here
    PROVE  /\ Written(w) \in DocumentRow
           /\ \/ work[w].overtaken \/ ~Written(w).here \/ kind \notin VersionedKinds
              \/ Written(w).version > doc.version
              \/ Written(w).deleted /\ Written(w).version = doc.version
<1> DEFINE c == work[w]
           W == [here |-> TRUE,
                 deleted |-> DeletedAfter(w),
                 status |-> IF "status" \in c.handler.sets THEN c.to ELSE doc.status,
                 version |-> IF "version" \in c.handler.sets THEN c.version + 1 ELSE doc.version,
                 columns |-> ColumnsSet(w),
                 revisions |-> RevisionsAfter(w)]
<1>1. c \in Work /\ doc \in DocumentRow /\ DocumentCallStands(c) /\ c.handler \in Handlers
  BY DEF DocumentsInv, DocumentsTypeOK, CallsStand, DocumentCallStands, OfTheKind
<1>2. /\ doc.version \in Nat /\ doc.revisions \in Nat /\ doc.deleted \in BOOLEAN
      /\ doc.columns \subseteq DocumentColumns /\ doc.status \in DocumentStatuses
      /\ c.version \in Nat /\ c.version + 1 \in Nat /\ c.to \in DocumentStatuses
      /\ c.read \subseteq DocumentColumns /\ c.fill \in BOOLEAN
      /\ c.column \in DocumentColumns \union {"none"}
  BY <1>1 DEF DocumentRow, Work
<1>3. DeletedAfter(w) \in BOOLEAN
  BY <1>2 DEF DeletedAfter
<1>4. ColumnsSet(w) \subseteq DocumentColumns
  <2>1. "note" \in DocumentColumns /\ "verified" \in DocumentColumns
    BY DEF DocumentColumns
  <2>2. "columns" \in c.handler.sets => c.column \in DocumentColumns
    BY <1>1, <1>2 DEF DocumentCallStands, OfTheKind
  <2> QED BY <1>2, <2>1, <2>2 DEF ColumnsSet
<1>5. RevisionsAfter(w) \in Nat
  BY <1>2 DEF RevisionsAfter
<1>6. W \in DocumentRow
  BY <1>2, <1>3, <1>4, <1>5 DEF DocumentRow
<1>7. Written(w) = IF "row" \in c.handler.sets THEN NoDocumentRow ELSE W
  BY DEF Written
<1>8. /\ W.version = IF "version" \in c.handler.sets THEN c.version + 1 ELSE doc.version
      /\ W.deleted = DeletedAfter(w)
  OBVIOUS
<1> HIDE DEF W
<1>9. \/ c.overtaken \/ kind \notin VersionedKinds \/ W.version > doc.version
      \/ W.deleted /\ W.version = doc.version
  <2> SUFFICES ASSUME ~c.overtaken, kind \in VersionedKinds
               PROVE  \/ W.version > doc.version
                      \/ W.deleted /\ W.version = doc.version
      OBVIOUS
  <2>1. c.version = doc.version /\ c.handler.kind = kind
    BY <1>1 DEF DocumentCallStands, OfTheKind, Fresh
  <2>2. "version" \in c.handler.sets \/ c.handler.sets = {"deletedAt"}
    BY <1>1, <2>1, HandlersAreKnown DEF KnownHandler
  <2>3. CASE "version" \in c.handler.sets
    BY <1>2, <1>8, <2>1, <2>3
  <2>4. CASE "version" \notin c.handler.sets
    BY <1>8, <2>2, <2>4 DEF DeletedAfter
  <2> QED BY <2>3, <2>4
<1> QED BY <1>6, <1>7, <1>9, NothingTyped

\* The row is written, if its version is still the one to match.
LEMMA FinishKeeps ==
    ASSUME DocumentsInv, NEW w \in Writers, Finish(w)
    PROVE  DocumentsInv'
<1>1. /\ work[w].step = "write" /\ kind' = kind
      /\ doc' = IF doc.here THEN Written(w) ELSE doc
      /\ work' = [Overtaken(Writers \ {w}) EXCEPT ![w] = NotWorking]
      /\ raced' = (raced \/ work[w].overtaken)
      /\ revised' = IF doc.here /\ "revisionCount" \in work[w].handler.sets
                    THEN revised + 1 ELSE revised
  BY DEF Finish
<1>2. doc \in DocumentRow /\ doc' \in DocumentRow
  BY <1>1, WrittenTyped DEF DocumentsInv, DocumentsTypeOK
<1>3. DocumentsTypeOK'
  <2>1. Overtaken(Writers \ {w}) \in [Writers -> Work]
    <3>1. \A o \in Writers : Overtaken(Writers \ {w})[o] \in Work
      BY OvertakenCalls
    <3> QED BY <3>1 DEF Overtaken
  <2>2. work' \in [Writers -> Work]
    BY <1>1, <2>1, NothingTyped
  <2> QED BY <1>1, <1>2, <2>2 DEF DocumentsInv, DocumentsTypeOK
<1>4. KindIsKnown'
  BY <1>1, <1>2 DEF DocumentsInv, KindIsKnown
<1>5. CallsStand'
  <2> SUFFICES ASSUME NEW o \in Writers PROVE DocumentCallStands(work[o])'
      BY DEF CallsStand
  <2>1. CASE o = w
    <3>1. work'[o] = NotWorking
      BY <1>1, <2>1 DEF Overtaken
    <3> QED BY <3>1, NothingTyped DEF DocumentCallStands, OfTheKind, Fresh, VersionTells,
               AsOpened
  <2>2. CASE o # w
    <3> PICK c : c = Overtaken(Writers \ {w})[o]
      OBVIOUS
    <3>1. work'[o] = c
      BY <1>1, <2>2 DEF Overtaken
    <3>2. \/ raced' \/ ~doc'.here \/ kind \notin VersionedKinds
          \/ /\ doc.here
             /\ \/ doc' = doc
                \/ doc'.version > doc.version
                \/ doc'.deleted /\ doc'.version = doc.version
      BY <1>1, WrittenTyped
    <3>3. o \in Writers \ {w} /\ (raced => raced') /\ Writers \ {w} \in SUBSET Writers
      BY <1>1, <2>2
    <3>4. DocumentCallStands(c)'
      BY <1>1, <1>2, <3>2, <3>3, OvertakenStands
    <3>5. OfTheKind(work[o])' /\ Fresh(work[o])'
      BY <3>1, <3>4 DEF DocumentCallStands, OfTheKind, Fresh
    <3>6. VersionTells(work[o])' /\ AsOpened(work[o])'
      BY <3>1, <3>4 DEF DocumentCallStands, VersionTells, AsOpened
    <3> QED BY <3>5, <3>6 DEF DocumentCallStands
  <2> QED BY <2>1, <2>2
<1>6. EveryRevisionCounts'
  <2> SUFFICES ASSUME kind' = "creative", doc'.here PROVE doc'.revisions = revised'
      BY DEF EveryRevisionCounts
  <2>1. doc.here /\ doc' = Written(w)
    BY <1>1
  <2>2. doc'.revisions = RevisionsAfter(w)
    BY <2>1, NothingTyped DEF Written
  <2> QED BY <1>1, <2>1, <2>2 DEF RevisionsAfter, DocumentsInv, EveryRevisionCounts
<1> QED BY <1>3, <1>4, <1>5, <1>6 DEF DocumentsInv

\* RecycleBinService takes the document out of the bin, or deletes it.
LEMMA DocumentBinKeeps ==
    ASSUME DocumentsInv, RestoreDocument \/ PermanentlyDelete
    PROVE  DocumentsInv'
<1>1. /\ kind' = kind /\ raced' = raced /\ revised' = revised
      /\ work' = Overtaken(Writers) /\ doc.here
  BY DEF RestoreDocument, PermanentlyDelete
<1>2. doc \in DocumentRow /\ doc.version \in Nat /\ doc.version + 1 \in Nat
  BY DEF DocumentsInv, DocumentsTypeOK, DocumentRow
<1>3. /\ doc' \in DocumentRow
      /\ \/ ~doc'.here
         \/ /\ doc'.revisions = doc.revisions
            /\ kind \in VersionedKinds => doc'.version = doc.version + 1
  <2>1. CASE PermanentlyDelete
    BY <2>1, NothingTyped DEF PermanentlyDelete
  <2>2. CASE RestoreDocument
    <3>1. CASE kind \in Versioned
      <4>1. doc' = [doc EXCEPT !.deleted = FALSE, !.version = doc.version + 1]
        BY <2>2, <3>1, <1>2 DEF RestoreDocument
      <4> QED BY <1>2, <4>1 DEF DocumentRow
    <3>2. CASE kind \notin Versioned
      <4>1. doc' = [doc EXCEPT !.deleted = FALSE, !.version = doc.version]
        BY <2>2, <3>2, <1>2 DEF RestoreDocument
      <4>2. kind \notin VersionedKinds
        BY <3>2, VersionedTables
      <4> QED BY <1>2, <4>1, <4>2 DEF DocumentRow
    <3> QED BY <3>1, <3>2
  <2> QED BY <2>1, <2>2
<1>4. DocumentsTypeOK'
  <2>1. \A o \in Writers : Overtaken(Writers)[o] \in Work
    BY OvertakenCalls
  <2>2. Overtaken(Writers) \in [Writers -> Work]
    BY <2>1 DEF Overtaken
  <2> QED BY <1>1, <1>3, <2>2 DEF DocumentsInv, DocumentsTypeOK
<1>5. KindIsKnown'
  BY <1>1 DEF DocumentsInv, KindIsKnown
<1>6. CallsStand'
  <2> SUFFICES ASSUME NEW o \in Writers PROVE DocumentCallStands(work[o])'
      BY DEF CallsStand
  <2> PICK c : c = Overtaken(Writers)[o]
    OBVIOUS
  <2>1. \/ ~doc'.here \/ kind \notin VersionedKinds
        \/ doc.here /\ doc'.version > doc.version
    BY <1>1, <1>2, <1>3
  <2>2. DocumentCallStands(c)'
    BY <1>1, <1>3, <2>1, OvertakenStands
  <2>3. work'[o] = c
    BY <1>1
  <2> QED BY <2>2, <2>3 DEF DocumentCallStands, OfTheKind, Fresh, VersionTells, AsOpened
<1>7. EveryRevisionCounts'
  BY <1>1, <1>3 DEF DocumentsInv, EveryRevisionCounts
<1> QED BY <1>4, <1>5, <1>6, <1>7 DEF DocumentsInv

\* A document begins with its first status, as nobody's work.
LEMMA DocumentCreateKeeps ==
    ASSUME DocumentsInv, NEW n \in News, NEW status \in n.statuses, CreateDocument(n, status)
    PROVE  DocumentsInv'
<1> DEFINE version == IF n.kind \in Versioned THEN 1 ELSE 0
<1>1. /\ n.kind \in Kinds /\ kind' = n.kind /\ raced' = FALSE /\ revised' = 0
      /\ work' = work /\ \A w \in Writers : work[w] = NotWorking
      /\ doc' = [NoDocumentRow EXCEPT !.here = TRUE, !.status = status, !.version = version]
  BY DEF CreateDocument
<1>2. status \in DocumentStatuses /\ version \in Nat
  BY <1>1, NewsTyped
<1> HIDE DEF version
<1>3. doc' \in DocumentRow /\ doc'.revisions = 0
  BY <1>1, <1>2 DEF NoDocumentRow, DocumentRow
<1>4. DocumentsTypeOK'
  BY <1>1, <1>3 DEF DocumentsInv, DocumentsTypeOK
<1>5. KindIsKnown' /\ EveryRevisionCounts'
  BY <1>1, <1>3 DEF KindIsKnown, EveryRevisionCounts
<1>6. CallsStand'
  BY <1>1, NothingTyped DEF CallsStand, DocumentCallStands, OfTheKind, Fresh, VersionTells,
     AsOpened
<1> QED BY <1>4, <1>5, <1>6 DEF DocumentsInv

\* Every step keeps the invariant.
LEMMA DocumentsStep == DocumentsInv /\ [DocumentsNext]_documentVars => DocumentsInv'
<1> SUFFICES ASSUME DocumentsInv, [DocumentsNext]_documentVars PROVE DocumentsInv'
    OBVIOUS
<1>1. ASSUME NEW n \in News, NEW status \in n.statuses, CreateDocument(n, status)
      PROVE  DocumentsInv'
  BY <1>1, DocumentCreateKeeps
<1>2. ASSUME NEW w \in Writers, NEW route \in Routes, OpenDocument(w, route)
      PROVE  DocumentsInv'
  BY <1>2, OpenKeeps
<1>3. ASSUME NEW w \in Writers, NEW h \in Handlers, h.kind = kind,
             NEW b \in Bodies(h), StartCall(w, h, b[1], b[2], b[3])
      PROVE  DocumentsInv'
  BY <1>3, StartKeeps
<1>4. ASSUME NEW w \in Writers, Finish(w) PROVE DocumentsInv'
  BY <1>4, FinishKeeps
<1>5. ASSUME NEW w \in Writers, LeaveDocument(w) PROVE DocumentsInv'
  BY <1>5, LeaveKeeps
<1>6. CASE RestoreDocument \/ PermanentlyDelete
  BY <1>6, DocumentBinKeeps
<1>7. CASE UNCHANGED documentVars
  <2>1. DocumentsTypeOK' /\ KindIsKnown' /\ EveryRevisionCounts'
    BY <1>7 DEF documentVars, DocumentsInv, DocumentsTypeOK, KindIsKnown, EveryRevisionCounts
  <2>2. CallsStand'
    BY <1>7 DEF documentVars, DocumentsInv, CallsStand, DocumentCallStands, OfTheKind, Fresh,
                VersionTells, AsOpened, LiveDocument, TableSteps
  <2> QED BY <2>1, <2>2 DEF DocumentsInv
<1> QED BY <1>1, <1>2, <1>3, <1>4, <1>5, <1>6, <1>7 DEF DocumentsNext

\* A call between its SELECT and its UPDATE is a handler of the document's kind;
\* unless the row has been written since, the row is the one it found; and a
\* client's version tells whether the row is the one it had opened (the services'
\* update, transition, addRevision and remove).
THEOREM DocumentsInvariant == DocumentsSpec => []DocumentsInv
<1>1. DocumentsInit => DocumentsInv
  BY DocumentsStart
<1>2. DocumentsInv /\ [DocumentsNext]_documentVars => DocumentsInv'
  BY DocumentsStep
<1> QED BY <1>1, <1>2, PTL DEF DocumentsSpec

\* If-Match: a call whose version matched is about to replace the row its client had
\* opened, unless an overtaken call has written, or it is overtaken itself.
THEOREM IfMatchHolds == DocumentsSpec => []IfMatchMeansAsOpened
<1>1. DocumentsInv => IfMatchMeansAsOpened
  BY DEF DocumentsInv, CallsStand, DocumentCallStands, AsOpened, IfMatchMeansAsOpened
<1> QED BY <1>1, DocumentsInvariant, PTL

\* addRevision: a creative request counts every call, whichever overtakes which.
THEOREM RevisionsCount == DocumentsSpec => []EveryRevisionCounts
<1>1. DocumentsInv => EveryRevisionCounts
  BY DEF DocumentsInv
<1> QED BY <1>1, DocumentsInvariant, PTL

\* RecycleBinService.restore: nothing but the bin makes a removed document live, not
\* even an UPDATE that was under way when the document was removed or purged.
THEOREM OnlyRestoreRestores == DocumentsSpec => OnlyTheBinRestores
<1> DEFINE A == ~LiveDocument /\ LiveDocument' => RestoreDocument \/ doc = NoDocumentRow
<1>1. ASSUME DocumentsInv, [DocumentsNext]_documentVars PROVE A
  <2> SUFFICES ASSUME ~LiveDocument, LiveDocument'
               PROVE  RestoreDocument \/ doc = NoDocumentRow
      OBVIOUS
  <2>1. doc' # doc
    BY DEF LiveDocument
  <2>2. ASSUME NEW n \in News, NEW status \in n.statuses, CreateDocument(n, status)
        PROVE  doc = NoDocumentRow
    BY <2>2 DEF CreateDocument
  <2>3. ASSUME NEW w \in Writers, Finish(w) PROVE FALSE
    <3>1. doc.here /\ doc' = Written(w) /\ doc.deleted
      BY <2>1, <2>3 DEF Finish, LiveDocument
    <3>2. ~Written(w).here \/ Written(w).deleted
      BY <3>1, NothingTyped DEF Written, DeletedAfter
    <3> QED BY <3>1, <3>2 DEF LiveDocument
  <2>4. ~PermanentlyDelete
    BY NothingTyped DEF PermanentlyDelete, LiveDocument
  <2> QED BY <1>1, <2>1, <2>2, <2>3, <2>4
             DEF DocumentsNext, OpenDocument, StartCall, LeaveDocument, documentVars
<1>2. DocumentsInv /\ [DocumentsNext]_documentVars => [A]_documentVars
  BY <1>1
<1> HIDE DEF A
<1>3. DocumentsSpec => [][A]_documentVars
  BY <1>2, DocumentsInvariant, PTL DEF DocumentsSpec
<1> QED BY <1>3 DEF A, OnlyTheBinRestores

\* assertCanTransition: a document with a table of steps leaves the table only by a
\* transition that another call overtook.
THEOREM StepsAreLeftByRaces == DocumentsSpec => OnlyARaceLeavesTheSteps
<1> DEFINE A == TableSteps # {} /\ doc.here /\ doc'.here /\ doc'.status # doc.status =>
          \/ \E s \in TableSteps : /\ s.from = doc.status
                                   /\ s.to = doc'.status
                                   /\ s.needs \subseteq doc.columns
          \/ \E w \in Writers : Finish(w) /\ work[w].overtaken
<1>1. ASSUME DocumentsInv, [DocumentsNext]_documentVars PROVE A
  <2> SUFFICES ASSUME TableSteps # {}, doc.here, doc'.here, doc'.status # doc.status
               PROVE  \/ \E s \in TableSteps : /\ s.from = doc.status /\ s.to = doc'.status
                                               /\ s.needs \subseteq doc.columns
                      \/ \E w \in Writers : Finish(w) /\ work[w].overtaken
      OBVIOUS
  <2>1. ASSUME NEW w \in Writers, Finish(w), ~work[w].overtaken
        PROVE  \E s \in TableSteps : /\ s.from = doc.status /\ s.to = doc'.status
                                     /\ s.needs \subseteq doc.columns
    <3>1. doc' = Written(w) /\ work[w].step = "write"
      BY <2>1 DEF Finish
    <3>2. "status" \in work[w].handler.sets /\ doc'.status = work[w].to
      BY <3>1, NothingTyped DEF Written
    <3>3. kind \in SteppedKinds
      BY DEF TableSteps, SteppedKinds
    <3>4. DocumentCallStands(work[w])
      BY <1>1 DEF DocumentsInv, CallsStand
    <3>5. "step" \in work[w].handler.checks
      BY <3>1, <3>2, <3>3, <3>4, HandlersAreKnown DEF DocumentCallStands, OfTheKind,
         KnownHandler
    <3> QED BY <2>1, <3>1, <3>2, <3>4, <3>5 DEF DocumentCallStands, Fresh
  <2>2. ASSUME NEW n \in News, NEW status \in n.statuses, CreateDocument(n, status)
        PROVE  FALSE
    BY <2>2, NothingTyped DEF CreateDocument
  <2>3. ~PermanentlyDelete
    BY NothingTyped DEF PermanentlyDelete
  <2>4. ~RestoreDocument
    <3>1. doc \in DocumentRow
      BY <1>1 DEF DocumentsInv, DocumentsTypeOK
    <3> QED BY <3>1 DEF RestoreDocument, DocumentRow
  <2> QED BY <1>1, <2>1, <2>2, <2>3, <2>4
             DEF DocumentsNext, OpenDocument, StartCall, LeaveDocument, documentVars
<1>2. DocumentsInv /\ [DocumentsNext]_documentVars => [A]_documentVars
  BY <1>1
<1> HIDE DEF A
<1>3. DocumentsSpec => [][A]_documentVars
  BY <1>2, DocumentsInvariant, PTL DEF DocumentsSpec
<1> QED BY <1>3 DEF A, OnlyARaceLeavesTheSteps

-----------------------------------------------------------------------------
(* A meeting's participants and the follow-ups of its decisions.           *)

\* Nothing has happened beside a call that is alone: the rows its DELETE has found
\* are the meeting's, and the decision it has read was not followed up.
AloneIsUndisturbed ==
    \A c \in Callers : asking[c].alone =>
        /\ \A o \in Callers \ {c} : NotAskingYet(o)
        /\ AskingAt(c, "wait") \/ AskingAt(c, "insert") =>
              meeting = "gone" \/ asking[c].gone = participants
        /\ AskingAt(c, "followUp") =>
              doubled \/ ~decision.here \/ (items = {} /\ decision.item = NoWorkItem)

\* The decision's work item is the only one, unless calls have overlapped.
OneFollowUp ==
    doubled \/ ~decision.here \/ items = {decision.item} \ {NoWorkItem}

PointsAtAnItem == decision.item # NoWorkItem => decision.item \in items

MeetingsInv == MeetingsTypeOK /\ AloneIsUndisturbed /\ OneFollowUp /\ PointsAtAnItem

-----------------------------------------------------------------------------
\* Between two calls there is a record, too.
LEMMA NotAskingTyped ==
    NotAsking \in Asking /\ NotAsking.step = "idle" /\ NotAsking.alone = FALSE
BY DEF NotAsking, Asking

\* The meeting has a decision, no participants and no call.
LEMMA MeetingsStart == MeetingsInit => MeetingsInv
<1> SUFFICES ASSUME MeetingsInit PROVE MeetingsInv
    OBVIOUS
<1>1. MeetingsTypeOK
  BY NotAskingTyped DEF MeetingsInit, MeetingsTypeOK
<1>2. AloneIsUndisturbed
  BY NotAskingTyped DEF MeetingsInit, AloneIsUndisturbed
<1>3. OneFollowUp /\ PointsAtAnItem
  BY DEF MeetingsInit, OneFollowUp, PointsAtAnItem
<1> QED BY <1>1, <1>2, <1>3 DEF MeetingsInv

\* The call that begins, and those under way, which it disturbs.
LEMMA BeginAskingKeeps ==
    ASSUME MeetingsInv, NEW c \in Callers, NEW job \in Asking, BeginAsking(c, job),
           job.step \in {"delete", "followUp"},
           job.step = "followUp" => decision.item = NoWorkItem,
           UNCHANGED <<meeting, participants, decision, items, mixed, doubled>>
    PROVE  MeetingsInv'
<1> DEFINE new == [job EXCEPT !.alone = (AskingCallers = {})]
<1>1. asking \in [Callers -> Asking]
  BY DEF MeetingsInv, MeetingsTypeOK
<1>2. new \in Asking /\ new.step = job.step /\ new.alone = (AskingCallers = {})
  <2>1. (AskingCallers = {}) \in BOOLEAN
    OBVIOUS
  <2> QED BY <2>1 DEF Asking
<1>3. asking' = [o \in Callers |-> IF o = c THEN new ELSE [asking[o] EXCEPT !.alone = FALSE]]
  BY DEF BeginAsking
<1> HIDE DEF new
<1>4. \A o \in Callers : [asking[o] EXCEPT !.alone = FALSE] \in Asking
  BY <1>1 DEF Asking
<1>5. MeetingsTypeOK'
  BY <1>2, <1>3, <1>4 DEF MeetingsInv, MeetingsTypeOK
<1>6. AloneIsUndisturbed'
  <2> SUFFICES ASSUME NEW o \in Callers, asking'[o].alone
               PROVE  /\ \A p \in Callers \ {o} : asking'[p].step = "idle"
                      /\ asking'[o].step \in {"wait", "insert"} =>
                            meeting' = "gone" \/ asking'[o].gone = participants'
                      /\ asking'[o].step = "followUp" =>
                            doubled' \/ ~decision'.here
                               \/ (items' = {} /\ decision'.item = NoWorkItem)
      BY DEF AloneIsUndisturbed, NotAskingYet, AskingAt
  <2>1. o = c
    BY <1>1, <1>3 DEF Asking
  <2>2. AskingCallers = {}
    BY <1>2, <1>3, <2>1
  <2>3. \A p \in Callers \ {c} : asking'[p].step = "idle"
    <3> SUFFICES ASSUME NEW p \in Callers \ {c} PROVE asking'[p].step = "idle"
        OBVIOUS
    <3>1. asking[p].step = "idle" /\ asking[p] \in Asking
      BY <1>1, <2>2 DEF AskingCallers, NotAskingYet
    <3> QED BY <1>3, <3>1 DEF Asking
  <2>4. asking'[o].step = job.step
    BY <1>2, <1>3, <2>1
  <2>5. job.step = "followUp" => doubled \/ ~decision.here \/ items = {}
    BY DEF MeetingsInv, OneFollowUp
  <2> QED BY <2>1, <2>3, <2>4, <2>5
<1>7. OneFollowUp' /\ PointsAtAnItem'
  BY DEF MeetingsInv, OneFollowUp, PointsAtAnItem
<1> QED BY <1>5, <1>6, <1>7 DEF MeetingsInv

\* A call has found the meeting, or the decision without a work item.
LEMMA StartsAskingKeep ==
    ASSUME MeetingsInv, NEW c \in Callers,
           StartFollowUp(c) \/ \E list \in SUBSET People : StartSetParticipants(c, list)
    PROVE  MeetingsInv'
<1>1. CASE StartFollowUp(c)
  <2> DEFINE job == [NotAsking EXCEPT !.step = "followUp"]
  <2>1. job \in Asking /\ job.step = "followUp"
    BY DEF NotAsking, Asking
  <2>2. BeginAsking(c, job) /\ decision.item = NoWorkItem
    BY <1>1 DEF StartFollowUp, MayFollowUp
  <2> HIDE DEF job
  <2> QED BY <1>1, <2>1, <2>2, BeginAskingKeeps DEF StartFollowUp
<1>2. ASSUME NEW list \in SUBSET People, StartSetParticipants(c, list) PROVE MeetingsInv'
  <2> DEFINE job == [NotAsking EXCEPT !.step = "delete", !.list = list]
  <2>1. job \in Asking /\ job.step = "delete"
    BY DEF NotAsking, Asking
  <2>2. BeginAsking(c, job)
    BY <1>2 DEF StartSetParticipants
  <2> HIDE DEF job
  <2> QED BY <1>2, <2>1, <2>2, BeginAskingKeeps DEF StartSetParticipants
<1> QED BY <1>1, <1>2

\* A step of one call of setParticipants that commits nothing.
LEMMA AskingGoesOnKeeps ==
    ASSUME MeetingsInv, NEW c \in Callers, NEW job \in Asking,
           asking' = [asking EXCEPT ![c] = job],
           asking[c].step \in {"delete", "wait"}, job.step \in {"wait", "insert"},
           job.alone = asking[c].alone,
           job.alone => meeting = "gone" \/ job.gone = participants,
           UNCHANGED <<meeting, participants, decision, items, mixed, doubled>>
    PROVE  MeetingsInv'
<1>1. asking \in [Callers -> Asking]
  BY DEF MeetingsInv, MeetingsTypeOK
<1>2. MeetingsTypeOK'
  BY <1>1 DEF MeetingsInv, MeetingsTypeOK
<1>3. AloneIsUndisturbed'
  <2> SUFFICES ASSUME NEW o \in Callers, asking'[o].alone
               PROVE  /\ \A p \in Callers \ {o} : asking'[p].step = "idle"
                      /\ asking'[o].step \in {"wait", "insert"} =>
                            meeting' = "gone" \/ asking'[o].gone = participants'
                      /\ asking'[o].step = "followUp" =>
                            doubled' \/ ~decision'.here
                               \/ (items' = {} /\ decision'.item = NoWorkItem)
      BY DEF AloneIsUndisturbed, NotAskingYet, AskingAt
  <2>1. asking[o].alone
    BY <1>1
  <2>2. \A p \in Callers \ {o} : asking[p].step = "idle"
    BY <2>1 DEF MeetingsInv, AloneIsUndisturbed, NotAskingYet
  <2>3. o = c
    BY <2>2
  <2> QED BY <1>1, <2>2, <2>3
<1>4. OneFollowUp' /\ PointsAtAnItem'
  BY DEF MeetingsInv, OneFollowUp, PointsAtAnItem
<1> QED BY <1>2, <1>3, <1>4 DEF MeetingsInv

\* The DELETE sees its rows, and waits for those that another transaction holds.
LEMMA DeletesKeep ==
    ASSUME MeetingsInv, NEW c \in Callers, SnapshotParticipants(c) \/ DeleteParticipants(c)
    PROVE  MeetingsInv'
<1>1. asking[c] \in Asking /\ participants \subseteq People /\ asking \in [Callers -> Asking]
  BY DEF MeetingsInv, MeetingsTypeOK
<1>2. CASE SnapshotParticipants(c)
  <2> DEFINE job == [asking[c] EXCEPT !.step = "wait", !.gone = participants]
  <2>1. job \in Asking /\ job.step = "wait" /\ job.gone = participants
        /\ job.alone = asking[c].alone
    BY <1>1 DEF Asking
  <2>2. asking' = [asking EXCEPT ![c] = job]
    BY <1>1, <1>2 DEF SnapshotParticipants, DeletesAll
  <2> HIDE DEF job
  <2> QED BY <1>2, <2>1, <2>2, AskingGoesOnKeeps DEF SnapshotParticipants, AskingAt
<1>3. CASE DeleteParticipants(c)
  <2> DEFINE job == [asking[c] EXCEPT !.step = "insert",
                                       !.gone = asking[c].gone \intersect participants]
  <2>1. job \in Asking /\ job.step = "insert" /\ job.alone = asking[c].alone
        /\ job.gone = asking[c].gone \intersect participants
    BY <1>1 DEF Asking
  <2>2. asking' = [asking EXCEPT ![c] = job]
    BY <1>1, <1>3 DEF DeleteParticipants
  <2>3. job.alone => meeting = "gone" \/ job.gone = participants
    <3>1. asking[c].alone => meeting = "gone" \/ asking[c].gone = participants
      BY <1>3 DEF DeleteParticipants, MeetingsInv, AloneIsUndisturbed
    <3> QED BY <2>1, <3>1
  <2> HIDE DEF job
  <2> QED BY <1>3, <2>1, <2>2, <2>3, AskingGoesOnKeeps DEF DeleteParticipants, AskingAt
<1> QED BY <1>2, <1>3

\* The end of a call, whatever it has written: it was not beside one that is alone.
LEMMA AskingEndsKeeps ==
    ASSUME MeetingsInv, NEW c \in Callers, ~NotAskingYet(c), EndAsking(c),
           MeetingsTypeOK', OneFollowUp', PointsAtAnItem'
    PROVE  MeetingsInv'
<1>1. asking \in [Callers -> Asking]
  BY DEF MeetingsInv, MeetingsTypeOK
<1>2. AloneIsUndisturbed'
  <2> SUFFICES ASSUME NEW o \in Callers, asking'[o].alone PROVE FALSE
      BY DEF AloneIsUndisturbed
  <2>1. o # c /\ asking[o].alone
    BY <1>1, NotAskingTyped DEF EndAsking
  <2> QED BY <2>1 DEF MeetingsInv, AloneIsUndisturbed
<1> QED BY <1>2 DEF MeetingsInv

\* A call that ends leaves the others what they are.
LEMMA AskingEndsTyped ==
    ASSUME MeetingsInv, NEW c \in Callers, EndAsking(c)
    PROVE  asking' \in [Callers -> Asking]
BY NotAskingTyped DEF EndAsking, MeetingsInv, MeetingsTypeOK

\* The new list is inserted and committed, or the transaction fails.
LEMMA InsertParticipantsKeeps ==
    ASSUME MeetingsInv, NEW c \in Callers, InsertParticipants(c)
    PROVE  MeetingsInv'
<1>1. asking[c] \in Asking /\ asking[c].list \subseteq People /\ asking[c].alone \in BOOLEAN
  BY DEF MeetingsInv, MeetingsTypeOK, Asking
<1>2. MeetingsTypeOK'
  <2>1. asking' \in [Callers -> Asking]
    BY AskingEndsTyped DEF InsertParticipants
  <2>2. participants' \subseteq People /\ mixed' \in BOOLEAN
    BY <1>1 DEF InsertParticipants, MeetingsInv, MeetingsTypeOK
  <2> QED BY <2>1, <2>2 DEF InsertParticipants, MeetingsInv, MeetingsTypeOK
<1>3. OneFollowUp' /\ PointsAtAnItem'
  BY DEF InsertParticipants, MeetingsInv, OneFollowUp, PointsAtAnItem
<1>4. ~NotAskingYet(c) /\ EndAsking(c)
  BY DEF InsertParticipants, AskingAt, NotAskingYet
<1> QED BY <1>2, <1>3, <1>4, AskingEndsKeeps

\* A work item is created and the decision is pointed at it.
LEMMA FollowUpKeeps ==
    ASSUME MeetingsInv, NEW c \in Callers, FollowUp(c)
    PROVE  MeetingsInv'
<1>1. asking[c].step = "followUp" /\ asking[c].alone \in BOOLEAN /\ c # NoWorkItem
  BY NoWorkItemAssumption DEF FollowUp, AskingAt, MeetingsInv, MeetingsTypeOK, Asking
<1>2. decision \in [here: BOOLEAN, item: Callers \union {NoWorkItem}] /\ doubled \in BOOLEAN
  BY DEF MeetingsInv, MeetingsTypeOK
<1>3. CASE decision.here
  <2>1. /\ items' = items \union {c} /\ decision' = [decision EXCEPT !.item = c]
        /\ doubled' = (doubled \/ ~asking[c].alone)
    BY <1>3 DEF FollowUp
  <2>2. decision'.item = c
    BY <1>2, <2>1
  <2>3. asking[c].alone => doubled \/ items = {}
    BY <1>1, <1>3 DEF MeetingsInv, AloneIsUndisturbed, AskingAt
  <2>4. OneFollowUp' /\ PointsAtAnItem'
    <3>1. doubled' \/ items' = {c}
      <4>1. CASE asking[c].alone
        BY <2>1, <2>3, <4>1
      <4>2. CASE ~asking[c].alone
        BY <2>1, <4>2
      <4> QED BY <4>1, <4>2
    <3>2. {c} = {decision'.item} \ {NoWorkItem} /\ decision'.item \in items'
      BY <1>1, <2>1, <2>2
    <3> QED BY <3>1, <3>2 DEF OneFollowUp, PointsAtAnItem
  <2>5. MeetingsTypeOK'
    <3>1. doubled' \in BOOLEAN /\ items' \subseteq Callers
      BY <1>1, <1>2, <2>1 DEF MeetingsInv, MeetingsTypeOK
    <3>2. decision' \in [here: BOOLEAN, item: Callers \union {NoWorkItem}]
      BY <1>2, <2>1
    <3>3. asking' \in [Callers -> Asking]
      BY AskingEndsTyped DEF FollowUp
    <3> QED BY <3>1, <3>2, <3>3 DEF FollowUp, MeetingsInv, MeetingsTypeOK
  <2> QED BY <1>1, <2>4, <2>5, AskingEndsKeeps DEF FollowUp, NotAskingYet
<1>4. CASE ~decision.here
  <2>1. UNCHANGED <<meeting, participants, decision, items, mixed, doubled>>
    BY <1>4 DEF FollowUp
  <2>2. OneFollowUp' /\ PointsAtAnItem' /\ MeetingsTypeOK'
    BY <2>1, NotAskingTyped DEF FollowUp, EndAsking, MeetingsInv, MeetingsTypeOK, OneFollowUp,
                                PointsAtAnItem
  <2> QED BY <1>1, <2>2, AskingEndsKeeps DEF FollowUp, NotAskingYet
<1> QED BY <1>3, <1>4

\* A call stops before its next statement.
LEMMA StopAskingKeeps ==
    ASSUME MeetingsInv, NEW c \in Callers, StopAsking(c)
    PROVE  MeetingsInv'
<1>1. OneFollowUp' /\ PointsAtAnItem' /\ MeetingsTypeOK'
  BY NotAskingTyped DEF StopAsking, EndAsking, MeetingsInv, MeetingsTypeOK, OneFollowUp,
                        PointsAtAnItem
<1> QED BY <1>1, AskingEndsKeeps DEF StopAsking

\* The meeting, the decision and its work item, as others change them.
LEMMA OthersKeepMeetings ==
    ASSUME MeetingsInv,
           RemoveMeeting \/ RestoreMeeting \/ PurgeMeeting \/ DeleteDecision \/ PurgeFollowUp
    PROVE  MeetingsInv'
<1>1. /\ decision \in [here: BOOLEAN, item: Callers \union {NoWorkItem}]
      /\ asking' = asking /\ doubled' = doubled
  BY DEF MeetingsInv, MeetingsTypeOK, RemoveMeeting, RestoreMeeting, PurgeMeeting,
         DeleteDecision, PurgeFollowUp
<1>2. MeetingsTypeOK'
  <2>1. CASE RemoveMeeting \/ RestoreMeeting
    BY <2>1 DEF MeetingsInv, MeetingsTypeOK, RemoveMeeting, RestoreMeeting
  <2>3. CASE PurgeMeeting \/ DeleteDecision
    <3>1. decision' = [here |-> FALSE, item |-> NoWorkItem]
      BY <2>3 DEF PurgeMeeting, DeleteDecision
    <3>2. decision' \in [here: BOOLEAN, item: Callers \union {NoWorkItem}]
      BY <3>1
    <3> QED BY <2>3, <3>2 DEF MeetingsInv, MeetingsTypeOK, PurgeMeeting, DeleteDecision
  <2>2. CASE PurgeFollowUp
    <3>1. /\ decision' \in [here: BOOLEAN, item: Callers \union {NoWorkItem}]
          /\ items' \subseteq Callers
      BY <1>1, <2>2 DEF MeetingsInv, MeetingsTypeOK, PurgeFollowUp
    <3> QED BY <2>2, <3>1 DEF MeetingsInv, MeetingsTypeOK, PurgeFollowUp
  <2> QED BY <2>1, <2>2, <2>3
<1>3. OneFollowUp' /\ PointsAtAnItem'
  <2>1. CASE RemoveMeeting \/ RestoreMeeting
    BY <2>1 DEF RemoveMeeting, RestoreMeeting, MeetingsInv, OneFollowUp, PointsAtAnItem
  <2>2. CASE PurgeMeeting \/ DeleteDecision
    BY <2>2 DEF PurgeMeeting, DeleteDecision, OneFollowUp, PointsAtAnItem
  <2>3. CASE PurgeFollowUp
    <3>1. /\ items' = items \ {decision.item} /\ decision'.item = NoWorkItem
          /\ decision'.here = decision.here
      BY <1>1, <2>3 DEF PurgeFollowUp
    <3> QED BY <1>1, <3>1 DEF MeetingsInv, OneFollowUp, PointsAtAnItem
  <2> QED BY <2>1, <2>2, <2>3
<1>4. AloneIsUndisturbed'
  <2> SUFFICES ASSUME NEW c \in Callers, asking[c].alone
               PROVE  /\ \A o \in Callers \ {c} : asking'[o].step = "idle"
                      /\ asking'[c].step \in {"wait", "insert"} =>
                            meeting' = "gone" \/ asking'[c].gone = participants'
                      /\ asking'[c].step = "followUp" =>
                            doubled' \/ ~decision'.here
                               \/ (items' = {} /\ decision'.item = NoWorkItem)
      BY <1>1 DEF AloneIsUndisturbed, NotAskingYet, AskingAt
  <2>1. /\ \A o \in Callers \ {c} : asking[o].step = "idle"
        /\ asking[c].step \in {"wait", "insert"} =>
              meeting = "gone" \/ asking[c].gone = participants
        /\ asking[c].step = "followUp" =>
              doubled \/ ~decision.here \/ (items = {} /\ decision.item = NoWorkItem)
    BY DEF MeetingsInv, AloneIsUndisturbed, NotAskingYet, AskingAt
  <2>2. meeting' = "gone" \/ (participants' = participants /\ meeting # "gone")
           \/ (participants' = participants /\ meeting' = meeting)
    BY DEF RemoveMeeting, RestoreMeeting, PurgeMeeting, DeleteDecision, PurgeFollowUp
  <2>3. \/ ~decision'.here
        \/ items' = items /\ decision' = decision
        \/ decision.item # NoWorkItem /\ (decision'.here <=> decision.here)
    <3>1. CASE RemoveMeeting \/ RestoreMeeting
      BY <3>1 DEF RemoveMeeting, RestoreMeeting
    <3>2. CASE PurgeMeeting \/ DeleteDecision
      BY <3>2 DEF PurgeMeeting, DeleteDecision
    <3>3. CASE PurgeFollowUp
      BY <1>1, <3>3 DEF PurgeFollowUp
    <3> QED BY <3>1, <3>2, <3>3
  <2> QED BY <1>1, <2>1, <2>2, <2>3
<1> QED BY <1>2, <1>3, <1>4 DEF MeetingsInv

\* Every step keeps the invariant.
LEMMA MeetingsStep == MeetingsInv /\ [MeetingsNext]_meetingVars => MeetingsInv'
<1> SUFFICES ASSUME MeetingsInv, [MeetingsNext]_meetingVars PROVE MeetingsInv'
    OBVIOUS
<1>1. ASSUME NEW c \in Callers,
             StartFollowUp(c) \/ \E list \in SUBSET People : StartSetParticipants(c, list)
      PROVE  MeetingsInv'
  BY <1>1, StartsAskingKeep
<1>2. ASSUME NEW c \in Callers, SnapshotParticipants(c) \/ DeleteParticipants(c)
      PROVE  MeetingsInv'
  BY <1>2, DeletesKeep
<1>3. ASSUME NEW c \in Callers, InsertParticipants(c) PROVE MeetingsInv'
  BY <1>3, InsertParticipantsKeeps
<1>4. ASSUME NEW c \in Callers, FollowUp(c) PROVE MeetingsInv'
  BY <1>4, FollowUpKeeps
<1>5. ASSUME NEW c \in Callers, StopAsking(c) PROVE MeetingsInv'
  BY <1>5, StopAskingKeeps
<1>6. CASE RemoveMeeting \/ RestoreMeeting \/ PurgeMeeting \/ DeleteDecision \/ PurgeFollowUp
  BY <1>6, OthersKeepMeetings
<1>7. CASE UNCHANGED meetingVars
  BY <1>7 DEF meetingVars, MeetingsInv, MeetingsTypeOK, AloneIsUndisturbed, OneFollowUp,
              PointsAtAnItem, NotAskingYet, AskingAt
<1> QED BY <1>1, <1>2, <1>3, <1>4, <1>5, <1>6, <1>7 DEF MeetingsNext

\* A call that overlapped no other finds the list and the decision as it had read
\* them (MeetingsService.setParticipants, MeetingDecisionsService.followUp).
THEOREM MeetingsInvariant == MeetingsSpec => []MeetingsInv
<1>1. MeetingsInit => MeetingsInv
  BY MeetingsStart
<1>2. MeetingsInv /\ [MeetingsNext]_meetingVars => MeetingsInv'
  BY MeetingsStep
<1> QED BY <1>1, <1>2, PTL DEF MeetingsSpec

\* followUp: a decision has two work items that follow it up only after two calls
\* have overlapped, and the one it points at was made from it.
THEOREM RacesFollowUpTwice == MeetingsSpec => []OnlyARaceFollowsUpTwice
<1>1. MeetingsInv => OnlyARaceFollowsUpTwice
  <2> SUFFICES ASSUME MeetingsInv PROVE OnlyARaceFollowsUpTwice
      OBVIOUS
  <2>1. ASSUME ~doubled, decision.here PROVE Cardinality(items) <= 1
    <3>1. CASE decision.item = NoWorkItem
      <4>1. Cardinality(items) = 0
        BY <2>1, <3>1, FS_EmptySet DEF MeetingsInv, OneFollowUp
      <4> QED BY <4>1
    <3>2. CASE decision.item # NoWorkItem
      <4>1. items = {decision.item}
        BY <2>1, <3>2 DEF MeetingsInv, OneFollowUp
      <4>2. Cardinality(items) = 1
        BY <4>1, FS_Singleton
      <4> QED BY <4>2
    <3> QED BY <3>1, <3>2
  <2> QED BY <2>1 DEF MeetingsInv, PointsAtAnItem, OnlyARaceFollowsUpTwice
<1> QED BY <1>1, MeetingsInvariant, PTL

\* setParticipants: what a meeting has when a call ends that overlapped no other is
\* that call's list.
THEOREM AloneReplaces == MeetingsSpec => AloneReplacesTheList
<1> DEFINE A == \A c \in Callers :
          InsertParticipants(c) /\ asking[c].alone /\ meeting # "gone"
              => participants' = asking[c].list
<1>1. ASSUME MeetingsInv PROVE A
  <2> SUFFICES ASSUME NEW c \in Callers, InsertParticipants(c), asking[c].alone, meeting # "gone"
               PROVE  participants' = asking[c].list
      OBVIOUS
  <2>1. asking[c].gone = participants
    BY <1>1 DEF InsertParticipants, MeetingsInv, AloneIsUndisturbed
  <2>2. participants \ asking[c].gone = {}
    BY <2>1
  <2> QED BY <2>2 DEF InsertParticipants
<1>2. MeetingsInv => [A]_meetingVars
  BY <1>1
<1> HIDE DEF A
<1>3. MeetingsSpec => [][A]_meetingVars
  BY <1>2, MeetingsInvariant, PTL DEF MeetingsSpec
<1> QED BY <1>3 DEF A, AloneReplacesTheList

-----------------------------------------------------------------------------
(* What hangs on a partner.                                                *)

\* A call that has not been overtaken has found the partner live, as it still is;
\* and nothing hangs on a partner that is gone.
TendedIsLive == \A t \in Tenders : tending[t] # NotTending => tending[t].late \/ partner = "live"
NothingIsLeft == partner = "gone" => followups = 0 /\ \A b \in Benefits : promised[b] = "none"
PartnersInv == PartnersTypeOK /\ TendedIsLive /\ NothingIsLeft

-----------------------------------------------------------------------------
\* Between two calls there is a record, too.
LEMMA NotTendingIsIdle == NotTending.step = "idle"
BY DEF NotTending

\* The partner is live, nothing hangs on it, and no call runs.
LEMMA PartnersStart == PartnersInit => PartnersInv
BY MaxFollowupsAssumption DEF PartnersInit, PartnersInv, PartnersTypeOK, TendedIsLive,
   NothingIsLeft

\* A call has found the partner live.
LEMMA StartTendingKeeps ==
    ASSUME PartnersInv, NEW t \in Tenders, NEW job \in Tending, StartTending(t, job)
    PROVE  PartnersInv'
<1>1. PartnersTypeOK'
  BY DEF StartTending, PartnersInv, PartnersTypeOK
<1>2. TendedIsLive' /\ NothingIsLeft'
  BY DEF StartTending, FindOne, PartnersInv, PartnersTypeOK, TendedIsLive, NothingIsLeft
<1> QED BY <1>1, <1>2 DEF PartnersInv

\* The end of a call: what it writes is typed, and nothing once the partner is gone.
LEMMA TendKeeps ==
    ASSUME PartnersInv, NEW t \in Tenders,
           tending' = [tending EXCEPT ![t] = NotTending], partner' = partner,
           followups' \in 0 .. MaxFollowups, promised' \in [Benefits -> Fulfilments \union {"none"}],
           NothingIsLeft'
    PROVE  PartnersInv'
BY DEF PartnersInv, PartnersTypeOK, TendedIsLive

\* A call writes a row of the partner's without another look at the partner.
LEMMA WritesKeep ==
    ASSUME PartnersInv, NEW t \in Tenders,
           AddFollowup(t) \/ AddBenefit(t) \/ UpdateBenefit(t) \/ RemoveBenefit(t) \/ StopTending(t)
    PROVE  PartnersInv'
<1>1. /\ followups \in Nat /\ followups \in 0 .. MaxFollowups
      /\ promised \in [Benefits -> Fulfilments \union {"none"}]
      /\ tending[t] \in Tending \union {NotTending}
      /\ partner \in {"live", "removed", "gone"}
  BY DEF PartnersInv, PartnersTypeOK
<1>2. CASE AddFollowup(t)
  <2>1. followups' \in 0 .. MaxFollowups
    BY <1>1, <1>2, MaxFollowupsAssumption DEF AddFollowup
  <2>2. NothingIsLeft'
    BY <1>2 DEF AddFollowup, Tend, PartnersInv, NothingIsLeft
  <2> QED BY <1>1, <1>2, <2>1, <2>2, TendKeeps DEF AddFollowup, Tend
<1>3. CASE AddBenefit(t)
  <2>1. tending[t].status \in Fulfilments
    BY <1>1, <1>3, NotTendingIsIdle DEF AddBenefit, Tend, Tending
  <2>2. promised' \in [Benefits -> Fulfilments \union {"none"}]
    BY <1>1, <1>3, <2>1 DEF AddBenefit
  <2>3. NothingIsLeft'
    BY <1>3 DEF AddBenefit, Tend, PartnersInv, NothingIsLeft
  <2> QED BY <1>1, <1>3, <2>2, <2>3, TendKeeps DEF AddBenefit, Tend
<1>4. CASE UpdateBenefit(t)
  <2>1. tending[t].status \in Fulfilments /\ tending[t].benefit \in Benefits
    BY <1>1, <1>4, NotTendingIsIdle DEF UpdateBenefit, Tend, Tending
  <2>2. promised' \in [Benefits -> Fulfilments \union {"none"}]
    BY <1>1, <1>4, <2>1 DEF UpdateBenefit
  <2>3. NothingIsLeft'
    BY <1>4, <2>1 DEF UpdateBenefit, Tend, PartnersInv, NothingIsLeft
  <2> QED BY <1>1, <1>4, <2>2, <2>3, TendKeeps DEF UpdateBenefit, Tend
<1>5. CASE RemoveBenefit(t)
  <2>1. promised' = [promised EXCEPT ![tending[t].benefit] = "none"]
    BY <1>5 DEF RemoveBenefit
  <2>2. promised' \in [Benefits -> Fulfilments \union {"none"}]
    BY <1>1, <2>1
  <2>3. NothingIsLeft'
    BY <1>1, <1>5, <2>1 DEF RemoveBenefit, Tend, PartnersInv, NothingIsLeft
  <2> QED BY <1>1, <1>5, <2>2, <2>3, TendKeeps DEF RemoveBenefit, Tend
<1>6. CASE StopTending(t)
  <2>1. NothingIsLeft'
    BY <1>6 DEF StopTending, PartnersInv, NothingIsLeft
  <2> QED BY <1>1, <1>6, <2>1, TendKeeps DEF StopTending
<1> QED BY <1>2, <1>3, <1>4, <1>5, <1>6

\* What becomes of the partner makes every call under way a late one.
LEMMA LateAllIsLate ==
    ASSUME PartnersInv
    PROVE  /\ LateAll \in [Tenders -> Tending \union {NotTending}]
           /\ \A t \in Tenders : LateAll[t] # NotTending => LateAll[t].late
<1> SUFFICES ASSUME NEW t \in Tenders
             PROVE  /\ LateAll[t] \in Tending \union {NotTending}
                    /\ LateAll[t] # NotTending => LateAll[t].late
    BY DEF LateAll
<1>1. tending[t] \in Tending \union {NotTending}
  BY DEF PartnersInv, PartnersTypeOK
<1>2. CASE tending[t] = NotTending
  BY <1>2 DEF LateAll
<1>3. CASE tending[t] \in Tending
  <2> DEFINE late == [tending[t] EXCEPT !.late = TRUE]
  <2>1. late \in Tending /\ late.late
    BY <1>3 DEF Tending
  <2>2. LateAll[t] = late \/ LateAll[t] = NotTending
    BY DEF LateAll
  <2> HIDE DEF late
  <2> QED BY <2>1, <2>2
<1> QED BY <1>1, <1>2, <1>3

\* The partner goes into the bin, comes back, or is deleted with its rows.
LEMMA BinKeepsPartners ==
    ASSUME PartnersInv, RemovePartner \/ RestorePartner \/ PurgePartner
    PROVE  PartnersInv'
<1>1. CASE RemovePartner \/ PurgePartner
  <2>1. PartnersTypeOK'
    BY <1>1, LateAllIsLate, MaxFollowupsAssumption
       DEF RemovePartner, PurgePartner, PartnersInv, PartnersTypeOK
  <2>2. TendedIsLive'
    BY <1>1, LateAllIsLate DEF RemovePartner, PurgePartner, TendedIsLive
  <2>3. NothingIsLeft'
    BY <1>1 DEF RemovePartner, PurgePartner, NothingIsLeft
  <2> QED BY <2>1, <2>2, <2>3 DEF PartnersInv
<1>2. CASE RestorePartner
  BY <1>2 DEF RestorePartner, PartnersInv, PartnersTypeOK, TendedIsLive, NothingIsLeft
<1> QED BY <1>1, <1>2

\* PartnersService: what hangs on a partner is as PartnersTypeOK says, a call that
\* has not been overtaken has found the partner live, and a purge leaves nothing.
THEOREM PartnersInvariant == PartnersSpec => []PartnersInv
<1>1. PartnersInv /\ [PartnersNext]_partnerVars => PartnersInv'
  <2> SUFFICES ASSUME PartnersInv, [PartnersNext]_partnerVars PROVE PartnersInv'
      OBVIOUS
  <2>1. CASE RemovePartner \/ RestorePartner \/ PurgePartner
    BY <2>1, BinKeepsPartners
  <2>2. ASSUME NEW t \in Tenders, NEW job \in Tending, StartTending(t, job) PROVE PartnersInv'
    BY <2>2, StartTendingKeeps
  <2>3. ASSUME NEW t \in Tenders,
               AddFollowup(t) \/ AddBenefit(t) \/ UpdateBenefit(t) \/ RemoveBenefit(t)
                  \/ StopTending(t)
        PROVE  PartnersInv'
    BY <2>3, WritesKeep
  <2>4. CASE UNCHANGED partnerVars
    BY <2>4 DEF partnerVars, PartnersInv, PartnersTypeOK, TendedIsLive, NothingIsLeft
  <2> QED BY <2>1, <2>2, <2>3, <2>4 DEF PartnersNext
<1> QED BY <1>1, PartnersStart, PTL DEF PartnersSpec

\* PartnersService.remove and the bin: what hangs on a partner that is not live
\* changes by a call that had found it live, or goes with it.
THEOREM TheBinKeepsRows == PartnersSpec => TheBinKeepsAPartnersRows
<1> DEFINE A == <<promised, followups>>' # <<promised, followups>> /\ partner # "live"
          => \/ partner' = "gone" /\ partner # "gone" /\ followups' = 0
             \/ /\ partner = "removed"
                /\ \E t \in Tenders : /\ tending[t] # NotTending
                                      /\ tending[t].late
                                      /\ tending'[t] = NotTending
<1>1. ASSUME PartnersInv, PartnersNext PROVE A
  <2> SUFFICES ASSUME <<promised, followups>>' # <<promised, followups>>, partner # "live"
               PROVE  \/ partner' = "gone" /\ partner # "gone" /\ followups' = 0
                      \/ /\ partner = "removed"
                         /\ \E t \in Tenders : /\ tending[t] # NotTending
                                               /\ tending[t].late
                                               /\ tending'[t] = NotTending
      OBVIOUS
  <2>1. CASE RemovePartner \/ RestorePartner \/ PurgePartner
    BY <2>1 DEF RemovePartner, RestorePartner, PurgePartner
  <2>2. ASSUME NEW t \in Tenders,
               AddFollowup(t) \/ AddBenefit(t) \/ UpdateBenefit(t) \/ RemoveBenefit(t)
        PROVE  /\ partner = "removed" /\ tending[t] # NotTending
               /\ tending[t].late /\ tending'[t] = NotTending
    <3>1. tending[t] # NotTending /\ tending'[t] = NotTending
      BY <1>1, <2>2, NotTendingIsIdle
         DEF AddFollowup, AddBenefit, UpdateBenefit, RemoveBenefit, Tend, PartnersInv,
             PartnersTypeOK
    <3>2. tending[t].late
      BY <1>1, <3>1 DEF PartnersInv, TendedIsLive
    <3>3. ASSUME partner = "gone" PROVE FALSE
      <4>1. followups = 0 /\ \A b \in Benefits : promised[b] = "none"
        BY <1>1, <3>3 DEF PartnersInv, NothingIsLeft
      <4>2. promised \in [Benefits -> Fulfilments \union {"none"}]
        BY <1>1 DEF PartnersInv, PartnersTypeOK
      <4>3. tending[t].benefit \in Benefits \/ AddFollowup(t)
        BY <1>1, <2>2, <3>1, NotTendingIsIdle
           DEF AddBenefit, UpdateBenefit, RemoveBenefit, Tend, PartnersInv, PartnersTypeOK,
               Tending
      <4>4. promised' = promised /\ followups' = followups
        BY <2>2, <3>3, <4>1, <4>2, <4>3
           DEF AddFollowup, AddBenefit, UpdateBenefit, RemoveBenefit
      <4> QED BY <4>4
    <3>4. partner = "removed"
      BY <1>1, <3>3 DEF PartnersInv, PartnersTypeOK
    <3> QED BY <3>1, <3>2, <3>4
  <2>3. ASSUME NEW t \in Tenders,
               StopTending(t) \/ \E job \in Tending : StartTending(t, job)
        PROVE  FALSE
    BY <2>3 DEF StopTending, StartTending
  <2> QED BY <1>1, <2>1, <2>2, <2>3 DEF PartnersNext
<1>2. PartnersInv /\ [PartnersNext]_partnerVars => [A]_partnerVars
  BY <1>1
<1> HIDE DEF A
<1>3. PartnersSpec => [][A]_partnerVars
  BY <1>2, PartnersInvariant, PTL DEF PartnersSpec
<1> QED BY <1>3 DEF A, TheBinKeepsAPartnersRows

-----------------------------------------------------------------------------
(* The attached files, for a pool of any size.                             *)

\* One call creates a file; the row is there from its INSERT on, and a removal has
\* found one.
CallsMatchRows ==
    \A a \in Agents :
        /\ serving[a].step = "insert" => serving[a].does = "create" /\ file[serving[a].id] = "none"
        /\ serving[a].step \in {"begin", "update", "commit"} => serving[a].does = "delete"
        /\ serving[a].step \in {"begin", "update", "trace", "commit", "answer"} =>
              file[serving[a].id] # "none"
        /\ serving[a].step = "select" => serving[a].does \in {"read", "delete"}

OneCreates ==
    \A a, b \in Agents :
        /\ serving[a].step = "insert"
        /\ serving[b].step \in {"insert", "begin", "update", "trace", "commit", "answer"}
        /\ serving[a].id = serving[b].id
        => a = b

\* A link leads to a row.
LinksHaveRows == \A f \in links : file[f] # "none"

AttachmentsInv ==
    /\ AttachmentsTypeOK
    /\ CallsMatchRows
    /\ OneCreates
    /\ LinksHaveRows
    /\ StoreAndLogHaveRows

-----------------------------------------------------------------------------
\* No file and no call.
LEMMA AttachmentsStart == AttachmentsInit => AttachmentsInv
BY DEF AttachmentsInit, AttachmentsInv, AttachmentsTypeOK, CallsMatchRows, OneCreates,
   LinksHaveRows,
       StoreAndLogHaveRows, NotServing

\* A call that is idle, or goes on, is one.
LEMMA AttachmentGoOnTyped ==
    ASSUME AttachmentsTypeOK, NEW a \in Agents, serving[a].step # "idle",
           NEW step \in {"select", "insert", "begin", "update", "trace", "commit", "answer"},
           GoOnServing(a, step)
    PROVE  /\ serving' \in [Agents -> Serving \union {NotServing}]
           /\ serving'[a].step = step
           /\ serving'[a].does = serving[a].does /\ serving'[a].id = serving[a].id
           /\ serving[a].id \in Files /\ serving[a].does \in {"create", "read", "delete"}
           /\ \A o \in Agents \ {a} : serving'[o] = serving[o]
<1>1. serving[a] \in Serving
    BY DEF AttachmentsTypeOK, NotServing
<1>2. [serving[a] EXCEPT !.step = step] \in Serving
    BY <1>1 DEF Serving
<1>3. QED
    BY <1>1, <1>2 DEF GoOnServing, AttachmentsTypeOK, Serving

\* A call that ends leaves the others what they are.
LEMMA EndTyped ==
    ASSUME AttachmentsTypeOK, NEW a \in Agents, EndServing(a)
    PROVE  /\ serving' \in [Agents -> Serving \union {NotServing}]
           /\ serving'[a].step = "idle"
           /\ \A o \in Agents \ {a} : serving'[o] = serving[o]
BY DEF EndServing, AttachmentsTypeOK, NotServing

\* The file a call is about.
LEMMA ServesFile ==
    ASSUME AttachmentsTypeOK, NEW a \in Agents, serving[a].step # "idle"
    PROVE  serving[a].id \in Files /\ serving[a].does \in {"create", "read", "delete"}
BY DEF AttachmentsTypeOK, Serving, NotServing

-----------------------------------------------------------------------------
\* A call begins.
LEMMA AttachmentBeginKeeps ==
    ASSUME AttachmentsInv, NEW a \in Agents, NEW f \in Files, NEW does \in {"read", "delete"},
           ServeFrom(a, "select", does, f), UNCHANGED <<file, bucket, links, log, undone>>
    PROVE  AttachmentsInv'
<1> DEFINE job == [step |-> "select", does |-> does, id |-> f]
<1>1. serving' = [serving EXCEPT ![a] = job] /\ serving[a].step = "idle" /\ job \in Serving
    BY DEF ServeFrom, ServingAt, Serving
<1>2. /\ serving' \in [Agents -> Serving \union {NotServing}] /\ serving'[a] = job
      /\ \A o \in Agents \ {a} : serving'[o] = serving[o]
    BY <1>1 DEF AttachmentsInv, AttachmentsTypeOK
<1>3. StoreAndLogHaveRows'
    BY <1>1, <1>2 DEF AttachmentsInv, StoreAndLogHaveRows, ServingAt
<1>4. AttachmentsTypeOK'
    BY <1>2 DEF AttachmentsInv, AttachmentsTypeOK
<1>5. CallsMatchRows' /\ OneCreates' /\ LinksHaveRows'
    BY <1>2 DEF AttachmentsInv, CallsMatchRows, OneCreates, LinksHaveRows
<1>6. QED
    BY <1>3, <1>4, <1>5 DEF AttachmentsInv

\* An upload begins: the file has no row yet.
LEMMA AttachmentCreateKeeps ==
    ASSUME AttachmentsInv, NEW a \in Agents, NEW f \in Files, GetUploadUrl(a, f)
    PROVE  AttachmentsInv'
<1> DEFINE job == [step |-> "insert", does |-> "create", id |-> f]
<1>1. /\ serving' = [serving EXCEPT ![a] = job] /\ serving[a].step = "idle" /\ job \in Serving
      /\ file[f] = "none" /\ \A o \in Agents : serving[o].step # "idle" => serving[o].id # f
      /\ UNCHANGED <<file, bucket, links, log, undone>>
    BY DEF GetUploadUrl, ServeFrom, ServingAt, Serving
<1>2. /\ serving' \in [Agents -> Serving \union {NotServing}] /\ serving'[a] = job
      /\ \A o \in Agents \ {a} : serving'[o] = serving[o]
    BY <1>1 DEF AttachmentsInv, AttachmentsTypeOK
<1>3. StoreAndLogHaveRows'
    BY <1>1, <1>2 DEF AttachmentsInv, StoreAndLogHaveRows, ServingAt
<1>4. AttachmentsTypeOK'
    BY <1>1, <1>2 DEF AttachmentsInv, AttachmentsTypeOK
<1>5. CallsMatchRows' /\ LinksHaveRows'
    BY <1>1, <1>2 DEF AttachmentsInv, CallsMatchRows, LinksHaveRows
<1>6. OneCreates'
    BY <1>1, <1>2 DEF AttachmentsInv, OneCreates
<1>7. QED
    BY <1>3, <1>4, <1>5, <1>6 DEF AttachmentsInv

\* The file's row is inserted.
LEMMA InsertKeeps ==
    ASSUME AttachmentsInv, NEW a \in Agents, InsertFile(a)
    PROVE  AttachmentsInv'
<1> DEFINE f == serving[a].id
<1>1. /\ serving[a].step = "insert" /\ serving[a].does = "create" /\ file[f] = "none"
      /\ file' = [file EXCEPT ![f] = "live"]
      /\ GoOnServing(a, "trace") /\ UNCHANGED <<bucket, links, log, undone>>
    BY DEF InsertFile, ServingAt, AttachmentsInv, CallsMatchRows
<1>2. /\ serving' \in [Agents -> Serving \union {NotServing}]
      /\ serving'[a].step = "trace" /\ serving'[a].does = "create" /\ serving'[a].id = f
      /\ f \in Files /\ \A o \in Agents \ {a} : serving'[o] = serving[o]
    BY <1>1, AttachmentGoOnTyped DEF AttachmentsInv
<1>3. file'[f] = "live" /\ \A g \in Files \ {f} : file'[g] = file[g]
    BY <1>1, <1>2 DEF AttachmentsInv, AttachmentsTypeOK
<1>4. StoreAndLogHaveRows'
    BY <1>1, <1>2, <1>3 DEF AttachmentsInv, StoreAndLogHaveRows, ServingAt, AttachmentsTypeOK
<1>5. AttachmentsTypeOK'
    BY <1>1, <1>2 DEF AttachmentsInv, AttachmentsTypeOK
<1>6. CallsMatchRows'
  <2> SUFFICES ASSUME NEW o \in Agents, o # a
               PROVE  /\ serving[o].step = "insert" => serving[o].does = "create" /\ file'[serving[o].id] = "none"
                      /\ serving[o].step \in {"begin", "update", "commit"} => serving[o].does = "delete"
                      /\ serving[o].step \in {"begin", "update", "trace", "commit", "answer"} =>
                            file'[serving[o].id] # "none"
                      /\ serving[o].step = "select" => serving[o].does \in {"read", "delete"}
      BY <1>2, <1>3 DEF CallsMatchRows
  <2>1. CASE serving[o].step = "idle"
      BY <2>1
  <2>2. CASE serving[o].step # "idle"
    <3>1. serving[o].id \in Files
        BY <2>2, ServesFile DEF AttachmentsInv
    <3>2. serving[o].step = "insert" => serving[o].id # f
        BY <1>1 DEF AttachmentsInv, OneCreates
    <3>3. QED
        BY <3>1, <3>2, <1>3 DEF AttachmentsInv, CallsMatchRows
  <2>3. QED
      BY <2>1, <2>2
<1>7. OneCreates'
    BY <1>1, <1>2 DEF AttachmentsInv, OneCreates
<1>8. LinksHaveRows'
    BY <1>1, <1>2, <1>3 DEF AttachmentsInv, LinksHaveRows, AttachmentsTypeOK
<1>9. QED
    BY <1>4, <1>5, <1>6, <1>7, <1>8 DEF AttachmentsInv

\* A call ends, and nothing else happens; unless it was about to commit, that may
\* be marked as undone.
LEMMA AttachmentEndKeeps ==
    ASSUME AttachmentsInv, NEW a \in Agents, EndServing(a), UNCHANGED <<file, bucket, log>>,
           links' \subseteq Files, undone' \subseteq Files, undone \subseteq undone',
           \A f \in links' : file[f] # "none",
           serving[a].step = "commit" => serving[a].id \in undone'
    PROVE  AttachmentsInv'
<1>1. /\ serving' \in [Agents -> Serving \union {NotServing}]
      /\ serving'[a].step = "idle"
      /\ \A o \in Agents \ {a} : serving'[o] = serving[o]
    BY EndTyped DEF AttachmentsInv
<1>2. AttachmentsTypeOK'
    BY <1>1 DEF AttachmentsInv, AttachmentsTypeOK
<1>3. StoreAndLogHaveRows'
    BY <1>1 DEF AttachmentsInv, StoreAndLogHaveRows, ServingAt
<1>4. CallsMatchRows' /\ OneCreates' /\ LinksHaveRows'
    BY <1>1 DEF AttachmentsInv, CallsMatchRows, OneCreates, LinksHaveRows
<1>5. QED
    BY <1>2, <1>3, <1>4 DEF AttachmentsInv

\* A call goes on to another step, after its INSERT or without one, and may trace.
LEMMA GoOnKeeps ==
    ASSUME AttachmentsInv, NEW a \in Agents, NEW step \in {"begin", "update", "trace", "commit", "answer"},
           serving[a].step \notin {"idle", "insert", "commit"}, GoOnServing(a, step),
           UNCHANGED <<file, bucket, links, undone>>,
           log' = log \/ (log' = log \union {<<serving[a].does, serving[a].id>>}
                          /\ (serving[a].does = "delete" => step = "commit")),
           file[serving[a].id] # "none",
           step \in {"begin", "update", "commit"} => serving[a].does = "delete"
    PROVE  AttachmentsInv'
<1>1. /\ serving' \in [Agents -> Serving \union {NotServing}]
      /\ serving'[a].step = step
      /\ serving'[a].does = serving[a].does /\ serving'[a].id = serving[a].id
      /\ serving[a].id \in Files /\ serving[a].does \in {"create", "read", "delete"}
      /\ \A o \in Agents \ {a} : serving'[o] = serving[o]
    BY AttachmentGoOnTyped
       DEF AttachmentsInv
<1>2. AttachmentsTypeOK'
    BY <1>1 DEF AttachmentsInv, AttachmentsTypeOK
<1>3. StoreAndLogHaveRows'
  <2>1. \A f \in bucket' : file'[f] # "none"
      BY DEF AttachmentsInv, StoreAndLogHaveRows
  <2>2. \A f \in Files : <<"create", f>> \in log' => file'[f] # "none"
      BY <1>1 DEF AttachmentsInv, StoreAndLogHaveRows
  <2>3. ASSUME NEW f \in Files, <<"delete", f>> \in log'
        PROVE  \/ file'[f] = "removed" \/ f \in undone'
               \/ \E o \in Agents : serving'[o].step = "commit" /\ serving'[o].id = f
    <3>1. CASE <<"delete", f>> \in log
        BY <3>1, <1>1 DEF AttachmentsInv, StoreAndLogHaveRows, ServingAt
    <3>2. CASE <<"delete", f>> \notin log
      <4>1. serving[a].does = "delete" /\ serving[a].id = f /\ step = "commit"
          BY <3>2, <2>3
      <4>2. QED
          BY <4>1, <1>1
    <3>3. QED
        BY <3>1, <3>2
  <2>4. QED
      BY <2>1, <2>2, <2>3 DEF StoreAndLogHaveRows, ServingAt
<1>4. CallsMatchRows'
    BY <1>1 DEF AttachmentsInv, CallsMatchRows
<1>5. OneCreates'
  <2> SUFFICES ASSUME NEW o \in Agents, serving'[o].step = "insert", o # a, serving'[a].id = serving'[o].id
               PROVE  FALSE
      BY <1>1 DEF AttachmentsInv, OneCreates
  <2>1. file[serving[o].id] = "none"
      BY <1>1 DEF AttachmentsInv, CallsMatchRows
  <2>2. QED
      BY <2>1, <1>1
<1>6. LinksHaveRows'
    BY DEF AttachmentsInv, LinksHaveRows
<1>7. QED
    BY <1>2, <1>3, <1>4, <1>5, <1>6 DEF AttachmentsInv

\* A removal is committed.
LEMMA AttachmentCommitKeeps ==
    ASSUME AttachmentsInv, NEW a \in Agents, CommitRemoval(a)
    PROVE  AttachmentsInv'
<1> DEFINE f == serving[a].id
<1>1. /\ serving[a].step = "commit" /\ file[f] # "none" /\ f \in Files
      /\ file' = [file EXCEPT ![f] = "removed"]
      /\ EndServing(a) /\ UNCHANGED <<bucket, links, log, undone>>
    BY ServesFile DEF CommitRemoval, ServingAt, AttachmentsInv, CallsMatchRows
<1>2. /\ serving' \in [Agents -> Serving \union {NotServing}]
      /\ serving'[a].step = "idle"
      /\ \A o \in Agents \ {a} : serving'[o] = serving[o]
    BY <1>1, EndTyped DEF AttachmentsInv
<1>3. /\ file'[f] = "removed" /\ \A g \in Files \ {f} : file'[g] = file[g]
      /\ file' \in [Files -> {"none", "live", "removed"}]
    BY <1>1 DEF AttachmentsInv, AttachmentsTypeOK
<1> HIDE DEF f
<1>4. \A g \in Files : file'[g] = "none" <=> file[g] = "none"
    BY <1>1, <1>3
<1>5. AttachmentsTypeOK'
    BY <1>1, <1>2, <1>3 DEF AttachmentsInv, AttachmentsTypeOK
<1>6. StoreAndLogHaveRows'
  <2>1. \A g \in bucket' : file'[g] # "none"
      BY <1>1, <1>4 DEF AttachmentsInv, StoreAndLogHaveRows, AttachmentsTypeOK
  <2>2. \A g \in Files : <<"create", g>> \in log' => file'[g] # "none"
      BY <1>1, <1>4 DEF AttachmentsInv, StoreAndLogHaveRows
  <2>3. ASSUME NEW g \in Files, <<"delete", g>> \in log'
        PROVE  \/ file'[g] = "removed" \/ g \in undone'
               \/ \E o \in Agents : serving'[o].step = "commit" /\ serving'[o].id = g
    <3>1. CASE g = f
        BY <3>1, <1>3
    <3>2. CASE g # f
        BY <2>3, <3>2, <1>1, <1>2, <1>3 DEF f, AttachmentsInv, StoreAndLogHaveRows, ServingAt
    <3>3. QED
        BY <3>1, <3>2
  <2>4. QED
      BY <2>1, <2>2, <2>3 DEF StoreAndLogHaveRows, ServingAt
<1>7. CallsMatchRows'
  <2> SUFFICES ASSUME NEW o \in Agents, o # a, serving[o].step # "idle"
               PROVE  /\ serving[o].step = "insert" => serving[o].does = "create" /\ file'[serving[o].id] = "none"
                      /\ serving[o].step \in {"begin", "update", "commit"} => serving[o].does = "delete"
                      /\ serving[o].step \in {"begin", "update", "trace", "commit", "answer"} =>
                            file'[serving[o].id] # "none"
                      /\ serving[o].step = "select" => serving[o].does \in {"read", "delete"}
      BY <1>2 DEF CallsMatchRows
  <2>1. serving[o].id \in Files
      BY ServesFile DEF AttachmentsInv
  <2>2. QED
      BY <2>1, <1>4 DEF AttachmentsInv, CallsMatchRows
<1>8. OneCreates'
    BY <1>2 DEF AttachmentsInv, OneCreates
<1>9. LinksHaveRows'
    BY <1>1, <1>4 DEF AttachmentsInv, LinksHaveRows, AttachmentsTypeOK
<1>10. QED
    BY <1>5, <1>6, <1>7, <1>8, <1>9 DEF AttachmentsInv

\* The statements between: what is found, traced and answered, or refused.
LEMMA SelectKeeps ==
    ASSUME AttachmentsInv, NEW a \in Agents, SelectFile(a)
    PROVE  AttachmentsInv'
<1>1. /\ serving[a].step = "select" /\ serving[a].does \in {"read", "delete"}
      /\ UNCHANGED <<file, bucket, links, log, undone>>
    BY DEF SelectFile, ServingAt, AttachmentsInv, CallsMatchRows
<1>2. CASE file[serving[a].id] # "live"
    BY <1>1, <1>2, AttachmentEndKeeps DEF SelectFile, AttachmentsInv, AttachmentsTypeOK,
       LinksHaveRows
<1>3. CASE file[serving[a].id] = "live"
  <2>1. CASE serving[a].does = "read"
    <3>1. GoOnServing(a, "trace")
        BY <1>3, <2>1 DEF SelectFile
    <3>2. QED
        BY <1>1, <1>3, <3>1, GoOnKeeps
  <2>2. CASE serving[a].does = "delete"
    <3>1. GoOnServing(a, "begin")
        BY <1>3, <2>2 DEF SelectFile
    <3>2. QED
        BY <1>1, <1>3, <2>2, <3>1, GoOnKeeps
  <2>3. QED
      BY <1>1, <2>1, <2>2
<1>4. QED
    BY <1>2, <1>3

\* A removal gets its connection, then the row's lock.
LEMMA RemovalKeeps ==
    ASSUME AttachmentsInv, NEW a \in Agents, BeginRemoval(a) \/ UpdateFile(a)
    PROVE  AttachmentsInv'
<1>1. /\ serving[a].step \in {"begin", "update"}
      /\ UNCHANGED <<file, bucket, links, log, undone>>
      /\ GoOnServing(a, "update") \/ GoOnServing(a, "trace")
    BY DEF BeginRemoval, UpdateFile, ServingAt
<1>2. serving[a].does = "delete" /\ file[serving[a].id] # "none"
    BY <1>1 DEF AttachmentsInv, CallsMatchRows
<1>3. QED
    BY <1>1, <1>2, GoOnKeeps

\* A trace, or a call whose trace the pool refuses.
LEMMA TraceKeeps ==
    ASSUME AttachmentsInv, NEW a \in Agents, serving[a].step = "trace", GoOnServing(a, AfterTrace(a)),
           UNCHANGED <<file, bucket, links, undone>>,
           log' = log \/ log' = log \union {<<serving[a].does, serving[a].id>>}
    PROVE  AttachmentsInv'
<1>1. file[serving[a].id] # "none"
    BY DEF AttachmentsInv, CallsMatchRows
<1>2. CASE serving[a].does = "delete"
  <2>1. GoOnServing(a, "commit")
      BY <1>2 DEF AfterTrace
  <2>2. QED
      BY <1>1, <1>2, <2>1, GoOnKeeps
<1>3. CASE serving[a].does # "delete"
  <2>1. GoOnServing(a, "answer")
      BY <1>3 DEF AfterTrace
  <2>2. QED
      BY <1>1, <1>3, <2>1, GoOnKeeps
<1>4. QED
    BY <1>2, <1>3

\* The client gets the link.
LEMMA AnswerKeeps ==
    ASSUME AttachmentsInv, NEW a \in Agents, AnswerLink(a)
    PROVE  AttachmentsInv'
<1>1. /\ serving[a].step = "answer" /\ EndServing(a) /\ UNCHANGED <<file, bucket, log, undone>>
      /\ links' = links \/ links' = links \union {serving[a].id}
    BY DEF AnswerLink, ServingAt
<1>2. serving[a].id \in Files /\ file[serving[a].id] # "none"
    BY <1>1, ServesFile DEF AttachmentsInv, CallsMatchRows
<1>3. QED
    BY <1>1, <1>2, AttachmentEndKeeps DEF AttachmentsInv, LinksHaveRows, AttachmentsTypeOK

\* The wait for a connection is given up.
LEMMA GiveUpKeeps ==
    ASSUME AttachmentsInv, NEW a \in Agents, GiveUpWaiting(a)
    PROVE  AttachmentsInv'
<1>1. AsksPool(a) /\ UNCHANGED <<file, bucket, links, log, undone>>
    BY DEF GiveUpWaiting
<1>2. CASE serving[a].step = "trace"
    BY <1>1, <1>2, TraceKeeps DEF GiveUpWaiting, ServingAt
<1>3. CASE serving[a].step # "trace"
  <2>1. EndServing(a) /\ serving[a].step # "commit"
      BY <1>1, <1>3 DEF GiveUpWaiting, ServingAt, AsksPool
  <2>2. QED
      BY <1>1, <2>1, AttachmentEndKeeps DEF AttachmentsInv, LinksHaveRows, AttachmentsTypeOK
<1>4. QED
    BY <1>2, <1>3

\* A call stops before its next statement.
LEMMA AttachmentStopKeeps ==
    ASSUME AttachmentsInv, NEW a \in Agents, StopServing(a)
    PROVE  AttachmentsInv'
<1>1. /\ EndServing(a) /\ UNCHANGED <<file, bucket, links, log>>
      /\ undone' = IF serving[a].step = "commit" THEN undone \union {serving[a].id} ELSE undone
      /\ serving[a].id \in Files
    BY ServesFile DEF StopServing, ServingAt, AttachmentsInv
<1>2. QED
    BY <1>1, AttachmentEndKeeps DEF AttachmentsInv, LinksHaveRows, AttachmentsTypeOK

\* What clients do with their links.
LEMMA LinkKeeps ==
    ASSUME AttachmentsInv, NEW f \in Files, PutBytes(f) \/ LinkExpires(f)
    PROVE  AttachmentsInv'
<1>1. /\ f \in links /\ bucket' \subseteq bucket \union {f} /\ links' \subseteq links
      /\ UNCHANGED <<file, log, serving, undone>>
    BY DEF PutBytes, LinkExpires
<1>2. file[f] # "none"
    BY <1>1 DEF AttachmentsInv, LinksHaveRows
<1>3. AttachmentsTypeOK'
    BY <1>1 DEF AttachmentsInv, AttachmentsTypeOK
<1>4. StoreAndLogHaveRows'
    BY <1>1, <1>2 DEF AttachmentsInv, StoreAndLogHaveRows, ServingAt
<1>5. CallsMatchRows' /\ OneCreates' /\ LinksHaveRows'
    BY <1>1 DEF AttachmentsInv, CallsMatchRows, OneCreates, LinksHaveRows
<1>6. QED
    BY <1>3, <1>4, <1>5 DEF AttachmentsInv

-----------------------------------------------------------------------------
\* Every step keeps the invariant.
LEMMA AttachmentStepKeeps == AttachmentsInv /\ [AttachmentsNext]_attachmentVars => AttachmentsInv'
<1> SUFFICES ASSUME AttachmentsInv, [AttachmentsNext]_attachmentVars PROVE AttachmentsInv'
    OBVIOUS
<1>1. ASSUME NEW a \in Agents, NEW f \in Files, GetDownloadUrl(a, f) \/ RemoveFile(a, f)
      PROVE  AttachmentsInv'
    BY <1>1, AttachmentBeginKeeps DEF GetDownloadUrl, RemoveFile
<1>2. ASSUME NEW a \in Agents, Record(a) PROVE AttachmentsInv'
    BY <1>2, TraceKeeps DEF Record, ServingAt
<1>3. CASE UNCHANGED attachmentVars
    BY <1>3 DEF attachmentVars, AttachmentsInv, AttachmentsTypeOK, CallsMatchRows,
       OneCreates, LinksHaveRows,
                StoreAndLogHaveRows, ServingAt
<1>4. QED
    BY <1>1, <1>2, <1>3, AttachmentCreateKeeps, InsertKeeps, SelectKeeps, RemovalKeeps,
       AttachmentCommitKeeps,
       AnswerKeeps, GiveUpKeeps, AttachmentStopKeeps, LinkKeeps DEF AttachmentsNext

\* A call at each step has the row it needs, and one call creates a file.
THEOREM AttachmentsInvariant == AttachmentsSpec => []AttachmentsInv
<1>1. AttachmentsInit => AttachmentsInv
    BY AttachmentsStart
<1>2. AttachmentsInv /\ [AttachmentsNext]_attachmentVars => AttachmentsInv'
    BY AttachmentStepKeeps
<1>3. QED
    BY <1>1, <1>2, PTL DEF AttachmentsSpec

\* Bytes and traces are about a row that says so (remove, record).
THEOREM RowsOfStoreAndLog == AttachmentsSpec => []StoreAndLogHaveRows
<1>1. AttachmentsInv => StoreAndLogHaveRows
    BY DEF AttachmentsInv
<1>2. QED
    BY <1>1, AttachmentsInvariant, PTL

\* However small the pool, one of the calls under way can go on: whoever waits for
\* a connection is given one or refused, and whoever waits for a row waits for a
\* call that holds it and waits for a connection at most.
THEOREM SomebodyGoesOn == AttachmentsSpec => []NoStandstill
<1>1. AttachmentsInv => NoStandstill
  <2> SUFFICES ASSUME AttachmentsInv, NEW a \in Agents, serving[a].step # "idle"
               PROVE  \E b \in Agents : CanGoOn(b)
      BY DEF NoStandstill, ServingAt
  <2>1. serving[a].step \in {"select", "insert", "begin", "update", "trace", "commit", "answer"}
      BY DEF AttachmentsInv, AttachmentsTypeOK, Serving, NotServing
  <2>2. CASE serving[a].step # "update"
      BY <2>1, <2>2 DEF CanGoOn, AsksPool, WaitTimesOut
  <2>3. CASE serving[a].step = "update" /\ RowIsFree(a)
      BY <2>3 DEF CanGoOn, ServingAt
  <2>4. CASE ~RowIsFree(a)
    <3>1. PICK o \in Agents : Holds(o) /\ serving[o].step # "update"
        BY <2>4 DEF RowIsFree
    <3>2. CanGoOn(o)
        BY <3>1 DEF Holds, CanGoOn, AsksPool, WaitTimesOut
    <3>3. QED
        BY <3>2
  <2>5. QED
      BY <2>2, <2>3, <2>4
<1>2. QED
    BY <1>1, AttachmentsInvariant, PTL

-----------------------------------------------------------------------------
(* The answers of an event's attendees.                                    *)

\* setRsvp: a member has one answer at most, whatever calls overlap, because
\* calendar_event_attendees_unique_member refuses a second one.
THEOREM AttendanceTyped == AttendanceSpec => []AttendanceTypeOK
<1>1. AttendanceInit => AttendanceTypeOK
  BY DEF AttendanceInit, AttendanceTypeOK
<1>2. AttendanceTypeOK /\ [AttendanceNext]_attendanceVars => AttendanceTypeOK'
  <2> SUFFICES ASSUME AttendanceTypeOK, [AttendanceNext]_attendanceVars
               PROVE  AttendanceTypeOK'
      OBVIOUS
  <2>1. CASE RemoveEvent \/ RestoreEvent \/ PurgeEvent
    BY <2>1 DEF AttendanceTypeOK, RemoveEvent, RestoreEvent, PurgeEvent
  <2>2. ASSUME NEW a \in Attendees, NEW p \in Invited, StartRsvp(a, p) PROVE AttendanceTypeOK'
    <3> DEFINE job == [step |-> IF answers[p] > 0 THEN "update" ELSE "insert", person |-> p]
    <3>1. job \in Replying
      BY DEF Replying
    <3>2. replying' = [replying EXCEPT ![a] = job] /\ UNCHANGED <<event, answers>>
      BY <2>2 DEF StartRsvp
    <3> HIDE DEF job
    <3> QED BY <3>1, <3>2 DEF AttendanceTypeOK
  <2>3. ASSUME NEW a \in Attendees, InsertAnswer(a) PROVE AttendanceTypeOK'
    <3>1. replying[a].person \in Invited
      BY <2>3 DEF InsertAnswer, AttendanceTypeOK, Replying, NotReplying
    <3>2. answers' \in [Invited -> 0 .. 1]
      BY <2>3, <3>1 DEF InsertAnswer, Unique, AttendanceTypeOK
    <3> QED BY <2>3, <3>2 DEF InsertAnswer, EndReplying, AttendanceTypeOK
  <2>4. ASSUME NEW a \in Attendees, UpdateAnswer(a) \/ StopReplying(a) PROVE AttendanceTypeOK'
    BY <2>4 DEF UpdateAnswer, StopReplying, EndReplying, AttendanceTypeOK
  <2>5. CASE UNCHANGED attendanceVars
    BY <2>5 DEF attendanceVars, AttendanceTypeOK
  <2> QED BY <2>1, <2>2, <2>3, <2>4, <2>5 DEF AttendanceNext
<1> QED BY <1>1, <1>2, PTL DEF AttendanceSpec
=============================================================================
