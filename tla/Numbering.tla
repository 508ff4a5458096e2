------------------------------ MODULE Numbering ------------------------------
(***************************************************************************)
(* NumberingService.next and the transactions that call it: the numbers of *)
(* requests, work items, letters, budgets and inventory items.             *)
(*                                                                         *)
(* A series is a row of document_counters: a type with its variant and     *)
(* year.  next is one INSERT ... ON CONFLICT DO UPDATE, so the transaction *)
(* holds the counter's row from then to its end, and the document's own    *)
(* INSERT follows in the same transaction; no other call can see the       *)
(* moment between the two, and a failure there is a failure of both.       *)
(* A document may later be deleted for good (RecycleBinService), which     *)
(* leaves the counter where it is.                                         *)
(***************************************************************************)
EXTENDS Integers, FiniteSets

CONSTANTS Clients,    \* running transactions
          Documents,  \* rows that may be created
          Series,     \* rows of document_counters
          SeriesOf,   \* of each type: the series its variants and years have
          None

Types == {"request", "work_item", "letter", "budget", "inventory_item"}

\* The types whose tables RecycleBinService knows (TRASHABLE_TABLES); the budgets
\* are not among them.
TrashableTypes == {"request", "work_item", "letter", "inventory_item"}

ASSUME SeriesAssumption ==
    /\ None \notin Series
    /\ SeriesOf \in [Types -> SUBSET Series]
    /\ \A t, u \in Types : t # u => SeriesOf[t] \cap SeriesOf[u] = {}
ASSUME ClientsAssumption == None \notin Clients

VARIABLES
    lastNumber,  \* last_number of each counter, as committed; 0: no row yet
    document,    \* the documents, those of running transactions included
    counting,    \* of each transaction: the counter it holds and its value
    purged       \* those deleted for good: their rows are gone, and what
                 \* document has of them is history

numberingVars == <<lastNumber, document, counting, purged>>

-----------------------------------------------------------------------------
\* by: the transaction that has inserted the document, None once committed.
Document == [series: Series \union {None}, number: Nat, by: Clients \union {None}]
NoDocument == [series |-> None, number |-> 0, by |-> None]

Counting == [series: Series \union {None}, number: Nat]
NotCounting == [series |-> None, number |-> 0]

NumberingTypeOK ==
    /\ lastNumber \in [Series -> Nat]
    /\ document \in [Documents -> Document]
    /\ counting \in [Clients -> Counting]
    /\ purged \subseteq Documents

NumberingInit ==
    /\ lastNumber = [s \in Series |-> 0]
    /\ document = [d \in Documents |-> NoDocument]
    /\ counting = [c \in Clients |-> NotCounting]
    /\ purged = {}

-----------------------------------------------------------------------------
\* The row lock: whoever counts up the same counter waits.
AlwaysFree(c, s) == TRUE
CounterFree(c, s) == \A other \in Clients \ {c} : counting[other].series # s

\* The documents of a series, those deleted for good included; those whose INSERT
\* has been committed; and those of them whose row is there.
Numbered(s) == {d \in Documents : document[d].series = s}
Committed(s) == {d \in Numbered(s) : document[d].by = None}
Kept(s) == Committed(s) \ purged

HighestOfTheRows(c, s) ==
    LET rows == {d \in Numbered(s) \ purged : document[d].by \in {None, c}}
    IN CHOOSE n \in {document[d].number : d \in rows} \union {0} :
          \A d \in rows : document[d].number <= n

\* What ON CONFLICT DO UPDATE adds 1 to: the committed number, or the number
\* the transaction itself has counted up to.
Counted(c, s) == IF counting[c].series = s THEN counting[c].number ELSE lastNumber[s]

\* next(tx, type, variant), and the INSERT of the document.
Number(c, s, d) ==
    /\ document[d] = NoDocument
    /\ CounterFree(c, s)
    /\ counting' = [counting EXCEPT ![c] = [series |-> s, number |-> Counted(c, s) + 1]]
    /\ document' = [document EXCEPT ![d] =
                      [series |-> s, number |-> Counted(c, s) + 1, by |-> c]]
    /\ UNCHANGED <<lastNumber, purged>>

OutsideTransaction(c) == counting[c] = NotCounting

CreateRequest(c, d) ==
    /\ OutsideTransaction(c)
    /\ \E s \in SeriesOf["request"] : Number(c, s, d)

\* Also called by the submission of a request, and once more for each task by
\* createStoryWithTasks.
CreateWorkItem(c, d) ==
    \E s \in SeriesOf["work_item"] :
        /\ counting[c].series \in {None, s}
        /\ Number(c, s, d)

FollowUpDecision(c, d) ==
    /\ OutsideTransaction(c)
    /\ \E s \in SeriesOf["work_item"] : Number(c, s, d)

\* The variant is the kind of the letter.
CreateLetter(c, d) ==
    /\ OutsideTransaction(c)
    /\ \E s \in SeriesOf["letter"] : Number(c, s, d)

NumberBudget(c, d) ==
    /\ OutsideTransaction(c)
    /\ \E s \in SeriesOf["budget"] : Number(c, s, d)

NumberItem(c, d) ==
    /\ OutsideTransaction(c)
    /\ \E s \in SeriesOf["inventory_item"] : Number(c, s, d)

CommitNumbers(c) ==
    /\ ~OutsideTransaction(c)
    /\ lastNumber' = [lastNumber EXCEPT ![counting[c].series] = counting[c].number]
    /\ document' = [d \in Documents |-> IF document[d].by = c
                                        THEN [document[d] EXCEPT !.by = None]
                                        ELSE document[d]]
    /\ counting' = [counting EXCEPT ![c] = NotCounting]
    /\ UNCHANGED purged

\* The transaction fails after next: a constraint, a rule of the service, or
\* an instance that stops.
NumbersAreBurnt(c) == [lastNumber EXCEPT ![counting[c].series] = counting[c].number]
NumbersComeBack(c) == lastNumber

RollbackNumbers(c) ==
    /\ ~OutsideTransaction(c)
    /\ lastNumber' = NumbersComeBack(c)
    /\ document' = [d \in Documents |-> IF document[d].by = c
                                        THEN NoDocument
                                        ELSE document[d]]
    /\ counting' = [counting EXCEPT ![c] = NotCounting]
    /\ UNCHANGED purged

SeriesOfTypes(types) == UNION {SeriesOf[t] : t \in types}

\* permanentlyDelete: DELETE by id, of a document in the bin or not, in a
\* transaction of its own; with a work item go the work items under it (parent_id,
\* ON DELETE CASCADE: any others here, as the parents are left out).
DeleteForGood(d) ==
    /\ \E s \in SeriesOfTypes(TrashableTypes) : d \in Kept(s)
    /\ \E below \in SUBSET UNION {Kept(s) : s \in SeriesOf["work_item"]} :
          /\ below # {} => document[d].series \in SeriesOf["work_item"]
          /\ purged' = purged \union {d} \union below
    /\ UNCHANGED <<lastNumber, document, counting>>

NumberingNext ==
    \/ \E d \in Documents : DeleteForGood(d)
    \/ \E c \in Clients :
        \/ CommitNumbers(c)
        \/ RollbackNumbers(c)
        \/ \E d \in Documents :
              \/ CreateRequest(c, d) \/ CreateWorkItem(c, d)
              \/ FollowUpDecision(c, d) \/ CreateLetter(c, d)
              \/ NumberBudget(c, d) \/ NumberItem(c, d)

NumberingSpec == NumberingInit /\ [][NumberingNext]_numberingVars

-----------------------------------------------------------------------------
\* Two documents of one series never have the same number, not even while one
\* of their transactions is still running, nor after one has been deleted for good.
NumbersAreUnique ==
    \A s \in Series : \A d, e \in Numbered(s) :
        document[d].number = document[e].number => d = e

\* The numbers of a series run from 1 up to its counter, and each is that of a
\* committed document or of one deleted for good: whatever fails on the way leaves
\* no gap ("tanpa celah", numbering.module.ts), and a gap in the rows that are left
\* is never one of a budget.
NoNumberIsMissing ==
    \A s \in Series :
        LET left == {document[d].number : d \in Kept(s)}
            gone == {document[d].number : d \in Committed(s) \cap purged}
        IN /\ left \union gone = 1 .. lastNumber[s]
           /\ left \cap gone = {}
           /\ s \in SeriesOf["budget"] => gone = {}

-----------------------------------------------------------------------------
\* The book that the committed documents make.
Booked == [s \in Series |-> [n \in {document[d].number : d \in Committed(s)} |->
                               CHOOSE d \in Committed(s) : document[d].number = n]]
Book == INSTANCE NumberBook WITH book <- Booked, struck <- purged,
                                 Erasable <- SeriesOfTypes(TrashableTypes)

\* NumberingService keeps such a book, although transactions overlap and fail and
\* documents are deleted for good: each commit enters its documents after all that
\* were ever there, and no number ever passes to another document, not even that
\* of one that is gone.
KeepsTheBook == Book!BookSpec
=============================================================================
