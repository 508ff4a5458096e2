------------------------------ MODULE Inventory ------------------------------
(***************************************************************************)
(* InventoryService for one item: its stock and the movements the stock    *)
(* comes from.  addMovement checks the stock before its transaction and    *)
(* adds to the stock inside it; the transaction inserts a row nobody reads *)
(* and updates the item, so its effect is one step.  update writes by id   *)
(* the version after the one it has read.                                  *)
(*                                                                         *)
(* The movements are kept as their sum: they are only ever added, and go   *)
(* with the item when it is deleted for good.                              *)
(***************************************************************************)
EXTENDS Integers, FiniteSets

CONSTANTS Clerks,      \* calls that may run at the same time
          Quantities,  \* what a movement may bring or take
          MaxStock,    \* bound on the stock, on either side of zero
          MaxEdits     \* bound on the version of the item

ASSUME QuantitiesAssumption == Quantities \subseteq Int \ {0} /\ MaxStock \in Nat
ASSUME EditsAssumption == MaxEdits \in Nat

VARIABLES
    item,    \* the row of inventory_items
    moved,   \* the sum of its inventory_movements
    moving   \* what each call is doing

inventoryVars == <<item, moved, moving>>

-----------------------------------------------------------------------------
Item == [version: Nat, stock: Int, deleted: BOOLEAN]
NoItem == [version |-> 0, stock |-> 0, deleted |-> FALSE]
\* Deleted for good; its id is not used again.
GoneItem == [version |-> 0, stock |-> 0, deleted |-> TRUE]

\* seen: the item as findOne returned it; overtaken: another call has taken
\* something out of the stock since (history).
Moving == [step: {"idle", "move", "edit", "delete"}, quantity: Int, seen: Item,
           overtaken: BOOLEAN]
NotMoving == [step |-> "idle", quantity |-> 0, seen |-> NoItem, overtaken |-> FALSE]

InventoryTypeOK ==
    /\ item \in Item
    /\ moved \in Int
    /\ moving \in [Clerks -> Moving]

InventoryInit ==
    /\ item = NoItem
    /\ moved = 0
    /\ moving = [c \in Clerks |-> NotMoving]

-----------------------------------------------------------------------------
LiveItem == item.version > 0 /\ ~item.deleted

\* The movement is recorded for a stock above zero only; a body may also bring
\* a stock below zero, which nothing refuses.
FirstMovement(stock) == IF stock > 0 THEN stock ELSE 0

CreateItem(stock) ==
    /\ item = NoItem
    /\ item' = [NoItem EXCEPT !.version = 1, !.stock = stock]
    /\ moved' = FirstMovement(stock)
    /\ UNCHANGED moving

\* findOne and the check of the call.
CoversButOne(stock, quantity) == ~(quantity < 0 /\ stock + quantity < -1)
Covers(stock, quantity) == ~(quantity < 0 /\ stock + quantity < 0)

Begin(c, step, quantity) ==
    /\ moving[c].step = "idle"
    /\ LiveItem
    /\ moving' = [moving EXCEPT ![c] =
                    [step |-> step, quantity |-> quantity, seen |-> item,
                     overtaken |-> FALSE]]
    /\ UNCHANGED <<item, moved>>

StartMovement(c, quantity) ==
    /\ Covers(item.stock, quantity)
    /\ Begin(c, "move", quantity)

StartEdit(c)   == Begin(c, "edit", 0)
StartDelete(c) == Begin(c, "delete", 0)

EndMoving(c) == moving' = [moving EXCEPT ![c] = NotMoving]

\* A movement of an item that is gone is refused by its foreign key, and the other
\* statements, by id, find no row: the call gives up.
ItemThere == item.version > 0

\* INSERT the movement, and UPDATE ... SET stock = stock + quantity.
StockFromSeen(c) == moving[c].seen.stock + moving[c].quantity
StockAfter(c) == item.stock + moving[c].quantity

WriteMovement(c) ==
    /\ moving[c].step = "move" /\ ItemThere
    /\ StockAfter(c) \in -MaxStock .. MaxStock
    /\ item' = [item EXCEPT !.stock = StockAfter(c)]
    /\ moved' = moved + moving[c].quantity
    /\ moving' = [o \in Clerks |->
                    IF o = c THEN NotMoving
                    ELSE IF moving[o].step = "move" /\ moving[c].quantity < 0
                         THEN [moving[o] EXCEPT !.overtaken = TRUE]
                    ELSE moving[o]]

\* UPDATE ... SET version = row.version + 1 WHERE id: whatever the version is
\* by now, deleted or not.
WriteEdit(c) ==
    /\ moving[c].step = "edit" /\ ItemThere
    /\ moving[c].seen.version < MaxEdits
    /\ item' = [item EXCEPT !.version = moving[c].seen.version + 1]
    /\ EndMoving(c)
    /\ UNCHANGED moved

WriteDelete(c) ==
    /\ moving[c].step = "delete" /\ ItemThere
    /\ item' = [item EXCEPT !.deleted = TRUE]
    /\ EndMoving(c)
    /\ UNCHANGED moved

\* RecycleBinService.restore
RestoreItem ==
    /\ item.version \in 1 .. MaxEdits - 1
    /\ item' = [item EXCEPT !.deleted = FALSE, !.version = @ + 1]
    /\ UNCHANGED <<moved, moving>>

\* RecycleBinService.permanentlyDelete: by id, in the bin or not; the movements go
\* with the item (ON DELETE CASCADE).
PurgeItem ==
    /\ ItemThere
    /\ item' = GoneItem
    /\ moved' = 0
    /\ UNCHANGED moving

\* The check or the transaction fails, or the instance stops.
GiveUp(c) ==
    /\ moving[c].step # "idle"
    /\ EndMoving(c)
    /\ UNCHANGED <<item, moved>>

InventoryNext ==
    \/ \E stock \in Quantities \union {0} : CreateItem(stock)
    \/ RestoreItem \/ PurgeItem
    \/ \E c \in Clerks :
          \/ \E quantity \in Quantities : StartMovement(c, quantity)
          \/ StartEdit(c) \/ StartDelete(c)
          \/ WriteMovement(c) \/ WriteEdit(c) \/ WriteDelete(c)
          \/ GiveUp(c)

InventorySpec == InventoryInit /\ [][InventoryNext]_inventoryVars

-----------------------------------------------------------------------------
\* Once an item is registered its stock changes by what is recorded as moved,
\* whoever else moves or edits the item at the same time, until it is deleted for good.
StockFollowsMovements ==
    [][ItemThere /\ ItemThere' => item'.stock - item.stock = moved' - moved]_inventoryVars

\* A withdrawal that no other withdrawal overtakes between its check and its
\* UPDATE is covered by the stock: only a race takes the stock below zero.
OnlyARaceOverdraws ==
    \A c \in Clerks :
        moving[c].step = "move" /\ ItemThere /\ moving[c].quantity < 0 /\ ~moving[c].overtaken
          => StockAfter(c) >= 0
=============================================================================
