------------------------------ MODULE MCLedgers ------------------------------
(***************************************************************************)
(* The parts that keep a number beside the rows it comes from: the counter *)
(* of a series and its documents, the stock and its movements, the dues    *)
(* and their payments, the budget and its items.  They share no row, so    *)
(* only one of them moves in a behaviour: a state in which two have moved  *)
(* shows nothing that two states with one each do not.                     *)
(***************************************************************************)
EXTENDS Numbering, Inventory, Dues, Budgets, TLC

VARIABLE part \* the one that moves

ledgerVars == <<numberingVars, inventoryVars, duesVars, budgetVars>>

LedgersInit ==
    /\ NumberingInit
    /\ InventoryInit
    /\ DuesInit
    /\ BudgetsInit

LedgersNext ==
    \/ /\ part = "numbering"
       /\ NumberingNext
       /\ UNCHANGED <<inventoryVars, duesVars, budgetVars>>
    \/ /\ part = "inventory"
       /\ InventoryNext
       /\ UNCHANGED <<numberingVars, duesVars, budgetVars>>
    \/ /\ part = "dues"
       /\ DuesNext
       /\ UNCHANGED <<numberingVars, inventoryVars, budgetVars>>
    \/ /\ part = "budgets"
       /\ BudgetsNext
       /\ UNCHANGED <<numberingVars, inventoryVars, duesVars>>

LedgerParts == {"numbering", "inventory", "dues", "budgets"}

LedgersSpec ==
    /\ part \in LedgerParts /\ LedgersInit
    /\ [][LedgersNext /\ UNCHANGED part]_<<part, ledgerVars>>

LedgersTypeOK ==
    /\ NumberingTypeOK
    /\ InventoryTypeOK
    /\ DuesTypeOK
    /\ BudgetsTypeOK

-----------------------------------------------------------------------------
SomePayments == 1 .. 3
SomeAmounts == <<1, 2, 1>>

SomeQuantities == {-2, -1, 1}

\* Two kinds of letters count apart; the other types have one series each.
TypeSeries == [t \in Types |-> IF t = "letter" THEN {"SRT-UND", "SRT-PMH"}
                               ELSE {t}]
AllSeries == UNION {TypeSeries[t] : t \in Types}

Symmetry == Permutations(Clients)
=============================================================================
