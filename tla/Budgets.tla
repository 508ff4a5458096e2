------------------------------- MODULE Budgets -------------------------------
(***************************************************************************)
(* FinanceService for the items of one budget and the totals kept in its   *)
(* row.  No transaction holds the statements together: the item's own      *)
(* INSERT, UPDATE or DELETE, the SELECT of all items, and the UPDATE of    *)
(* the totals by id commit one by one, and a call may end after any.       *)
(*                                                                         *)
(* The totals, and what a call has summed, are kept as the items they are  *)
(* sums of.                                                                *)
(***************************************************************************)
EXTENDS Integers, FiniteSets

CONSTANTS Editors,   \* calls that may run at the same time
          Lines,     \* rows of budget_items that may exist
          Plans,     \* what a line may plan or realize
          Missing    \* no line

ASSUME PlansAssumption == Plans \subseteq Nat /\ Missing \notin Lines

VARIABLES
    totals,   \* the items that total_planned and total_realized sum up
    removed,  \* whether the budget's deleted_at is set
    line,     \* the items
    editing   \* what each call is doing

budgetVars == <<totals, removed, line, editing>>

-----------------------------------------------------------------------------
Line == [present: BOOLEAN, planned: Nat, realized: Nat]
NoLine == [present |-> FALSE, planned |-> 0, realized |-> 0]

\* amount: what the body brings; sums: what the call has read; alone: no other
\* call has run since this one began (history).
Editing == [step: {"idle", "add", "update", "remove", "sum", "write"},
            line: Lines \union {Missing}, amount: Nat, sums: [Lines -> Line],
            alone: BOOLEAN]
NoLines == [i \in Lines |-> NoLine]
NotEditing == [step |-> "idle", line |-> Missing, amount |-> 0, sums |-> NoLines,
               alone |-> FALSE]

BudgetsTypeOK ==
    /\ totals \in [Lines -> Line]
    /\ removed \in BOOLEAN
    /\ line \in [Lines -> Line]
    /\ editing \in [Editors -> Editing]

BudgetsInit ==
    /\ totals = NoLines
    /\ removed = FALSE
    /\ line = NoLines
    /\ editing = [e \in Editors |-> NotEditing]

-----------------------------------------------------------------------------
Idlers == {e \in Editors : editing[e].step = "idle"}

\* findBudget, for the three calls.
StartEditing(e, step, i, amount) ==
    /\ ~removed
    /\ editing[e].step = "idle"
    /\ editing' = [o \in Editors |->
                     IF o = e
                     THEN [step |-> step, line |-> i, amount |-> amount, sums |-> NoLines,
                           alone |-> (Idlers = Editors)]
                     ELSE [editing[o] EXCEPT !.alone = FALSE]]
    /\ UNCHANGED <<totals, removed, line>>

StartAddLine(e, i, amount) ==
    /\ \A o \in Editors : editing[o].line # i
    /\ ~line[i].present
    /\ StartEditing(e, "add", i, amount)

StartUpdateLine(e, i, amount) ==
    /\ line[i].present
    /\ StartEditing(e, "update", i, amount)

StartRemoveLine(e, i) ==
    /\ line[i].present
    /\ StartEditing(e, "remove", i, 0)

AddLine(e) ==
    /\ editing[e].step = "add"
    /\ line' = [line EXCEPT ![editing[e].line] =
                  [NoLine EXCEPT !.present = TRUE, !.planned = editing[e].amount]]
    /\ editing' = [editing EXCEPT ![e].step = "sum"]
    /\ UNCHANGED <<totals, removed>>

\* The body of an update brings what was realized, not what was planned; the
\* item may be gone by now, which is 404.
UpdateLine(e) ==
    /\ editing[e].step = "update"
    /\ IF line[editing[e].line].present
       THEN /\ line' = [line EXCEPT ![editing[e].line].realized = editing[e].amount]
            /\ editing' = [editing EXCEPT ![e].step = "sum"]
       ELSE /\ editing' = [editing EXCEPT ![e] = NotEditing]
            /\ UNCHANGED line
    /\ UNCHANGED <<totals, removed>>

RemoveLine(e) ==
    /\ editing[e].step = "remove"
    /\ IF line[editing[e].line].present
       THEN /\ line' = [line EXCEPT ![editing[e].line] = NoLine]
            /\ editing' = [editing EXCEPT ![e].step = "sum"]
       ELSE /\ editing' = [editing EXCEPT ![e] = NotEditing]
            /\ UNCHANGED line
    /\ UNCHANGED <<totals, removed>>

\* updateBudgetTotals: the SELECT, which sees every item.
SumLines(e) ==
    /\ editing[e].step = "sum"
    /\ editing' = [editing EXCEPT ![e].step = "write", ![e].sums = line]
    /\ UNCHANGED <<totals, removed, line>>

\* updateBudgetTotals: the UPDATE by id, of a removed budget too.
PlannedOnly(e) == [i \in Lines |-> [editing[e].sums[i] EXCEPT !.realized = totals[i].realized]]
TotalsRead(e) == editing[e].sums

WriteTotals(e) ==
    /\ editing[e].step = "write"
    /\ totals' = TotalsRead(e)
    /\ editing' = [editing EXCEPT ![e] = NotEditing]
    /\ UNCHANGED <<removed, line>>

\* The statement fails or the instance stops: what has been written stays.
AbandonEditing(e) ==
    /\ editing[e].step # "idle"
    /\ editing' = [editing EXCEPT ![e] = NotEditing]
    /\ UNCHANGED <<totals, removed, line>>

\* removeBudget.  (The recycle bin does not have the table.)
RemoveBudget ==
    /\ ~removed
    /\ removed' = TRUE
    /\ UNCHANGED <<totals, line, editing>>

BudgetsNext ==
    \/ RemoveBudget
    \/ \E e \in Editors :
          \/ \E i \in Lines :
                \/ \E amount \in Plans : StartAddLine(e, i, amount) \/ StartUpdateLine(e, i, amount)
                \/ StartRemoveLine(e, i)
          \/ AddLine(e) \/ UpdateLine(e) \/ RemoveLine(e)
          \/ SumLines(e) \/ WriteTotals(e) \/ AbandonEditing(e)

BudgetsSpec == BudgetsInit /\ [][BudgetsNext]_budgetVars

-----------------------------------------------------------------------------
\* A call that has run alone to its end leaves the sums of the items, whatever
\* races and abandoned calls before it have left.
AloneLeavesTheTotals ==
    [][\A e \in Editors :
          WriteTotals(e) /\ editing[e].alone => totals' = line']_budgetVars

=============================================================================
