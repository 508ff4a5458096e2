--------------------------- MODULE LedgersProofs ----------------------------
(***************************************************************************)
(* For any number of calls and rows: the stock follows its movements and   *)
(* only a race overdraws it; a call on the dues, or on the items of a      *)
(* budget, that runs alone leaves totals that are right again; and the     *)
(* numbers of a series are unique and none is missing.                     *)
(***************************************************************************)
EXTENDS Numbering, Inventory, Dues, Budgets, SequenceTheorems, TLAPS

-----------------------------------------------------------------------------
(* The stock.                                                              *)

\* A call under way has found the item, which may be gone by now.
CallsHaveAnItem ==
    \A c \in Clerks : moving[c].step # "idle" => item.version > 0 \/ item = GoneItem

InventoryInv == InventoryTypeOK /\ CallsHaveAnItem /\ OnlyARaceOverdraws

\* Before an item is registered nobody does anything with it.
LEMMA InventoryStarts == InventoryInit => InventoryInv
BY DEF InventoryInit, InventoryInv, InventoryTypeOK, CallsHaveAnItem, OnlyARaceOverdraws,
       ItemThere, Item, NoItem, Moving, NotMoving

\* findOne, and for a withdrawal the check of the stock, establish what the
\* invariant says of a running call.
LEMMA BeginKeeps ==
    ASSUME InventoryInv, NEW c \in Clerks, NEW step \in {"move", "edit", "delete"},
           NEW quantity \in Int, Begin(c, step, quantity),
           step = "move" => Covers(item.stock, quantity)
    PROVE  InventoryInv'
<1>1. /\ moving' = [moving EXCEPT ![c] = [step |-> step, quantity |-> quantity,
                                          seen |-> item, overtaken |-> FALSE]]
      /\ item' = item /\ moved' = moved /\ item.version > 0 /\ item \in Item
  BY DEF Begin, LiveItem, InventoryInv, InventoryTypeOK
<1>2. InventoryTypeOK'
  BY <1>1 DEF InventoryInv, InventoryTypeOK, Moving
<1>3. CallsHaveAnItem'
  BY <1>1 DEF InventoryInv, InventoryTypeOK, CallsHaveAnItem
<1>4. OnlyARaceOverdraws'
  <2> SUFFICES ASSUME NEW o \in Clerks, moving'[o].step = "move", moving'[o].quantity < 0,
                      ~moving'[o].overtaken
               PROVE  item'.stock + moving'[o].quantity >= 0
    BY DEF OnlyARaceOverdraws, StockAfter, ItemThere
  <2>1. CASE o = c
    BY <1>1, <2>1 DEF Covers, InventoryInv, InventoryTypeOK, Item
  <2>2. CASE o # c
    BY <1>1, <2>2 DEF InventoryInv, InventoryTypeOK, OnlyARaceOverdraws, StockAfter, ItemThere
  <2> QED
    BY <2>1, <2>2
<1> QED
  BY <1>2, <1>3, <1>4 DEF InventoryInv

\* A movement leaves every withdrawal it does not overtake covered.
LEMMA WriteMovementKeeps ==
    ASSUME InventoryInv, NEW c \in Clerks, WriteMovement(c)
    PROVE  InventoryInv'
<1> DEFINE q == moving[c].quantity
<1>1. /\ item' = [item EXCEPT !.stock = item.stock + q]
      /\ moved' = moved + q
      /\ moving' = [o \in Clerks |->
                      IF o = c THEN NotMoving
                      ELSE IF moving[o].step = "move" /\ q < 0
                           THEN [moving[o] EXCEPT !.overtaken = TRUE]
                      ELSE moving[o]]
      /\ item \in Item /\ item.version > 0 /\ q \in Int /\ moved \in Int
      /\ \A o \in Clerks : moving[o] \in Moving
  BY DEF WriteMovement, ItemThere, StockAfter, InventoryInv, InventoryTypeOK, Moving
<1> HIDE DEF q
<1>2. InventoryTypeOK'
  <2>1. item' \in Item /\ moved' \in Int
    BY <1>1 DEF Item
  <2>2. NotMoving \in Moving
    BY DEF NotMoving, NoItem, Moving, Item
  <2>3. \A o \in Clerks : [moving[o] EXCEPT !.overtaken = TRUE] \in Moving
    BY <1>1 DEF Moving
  <2> QED
    BY <1>1, <2>1, <2>2, <2>3 DEF InventoryTypeOK
<1>3. CallsHaveAnItem'
  BY <1>1 DEF InventoryInv, CallsHaveAnItem, Item, Moving, NotMoving
<1>4. OnlyARaceOverdraws'
  <2> SUFFICES ASSUME NEW o \in Clerks, moving'[o].step = "move", moving'[o].quantity < 0,
                      ~moving'[o].overtaken
               PROVE  item'.stock + moving'[o].quantity >= 0
    BY DEF OnlyARaceOverdraws, StockAfter, ItemThere
  <2>1. o # c /\ moving'[o] = moving[o] /\ q >= 0
    BY <1>1 DEF NotMoving, Moving
  <2>2. item.stock + moving[o].quantity >= 0
    BY <1>1, <2>1 DEF InventoryInv, OnlyARaceOverdraws, StockAfter, ItemThere
  <2> QED
    BY <1>1, <2>1, <2>2 DEF Item, Moving
<1> QED
  BY <1>2, <1>3, <1>4 DEF InventoryInv

\* What the other steps leave: the stock, unless there was no item or is none now,
\* and each call as it was or idle.
LEMMA QuietStepKeeps ==
    ASSUME InventoryInv, item' \in Item, moved' \in Int,
           \/ item'.stock = item.stock /\ item.version > 0 /\ item'.version > 0
           \/ item'.stock = item.stock /\ item' = item
           \/ item = NoItem
           \/ item' = GoneItem,
           DOMAIN moving' = Clerks, moving' = [c \in Clerks |-> moving'[c]],
           \A c \in Clerks : moving'[c] \in {moving[c], NotMoving}
    PROVE  InventoryInv'
<1>1. \A c \in Clerks : moving[c] \in Moving /\ NotMoving \in Moving
  BY DEF InventoryInv, InventoryTypeOK, Moving, NotMoving, Item, NoItem
<1>2. InventoryTypeOK'
  BY <1>1 DEF InventoryTypeOK
<1>3. item = NoItem => \A c \in Clerks : moving[c].step = "idle"
  BY DEF InventoryInv, CallsHaveAnItem, NoItem, GoneItem
<1>4. CallsHaveAnItem'
  BY <1>3 DEF InventoryInv, CallsHaveAnItem, NotMoving
<1>5. OnlyARaceOverdraws'
  <2> SUFFICES ASSUME NEW c \in Clerks, moving'[c].step = "move", item'.version > 0,
                      moving'[c].quantity < 0, ~moving'[c].overtaken
               PROVE  item'.stock + moving'[c].quantity >= 0
    BY DEF OnlyARaceOverdraws, StockAfter, ItemThere
  <2>1. moving'[c] = moving[c]
    BY DEF NotMoving
  <2>2. item # NoItem /\ item' # GoneItem
    BY <1>3, <2>1 DEF GoneItem
  <2>3. item.stock = item'.stock /\ item.version > 0
    BY <2>1, <2>2 DEF InventoryInv, CallsHaveAnItem, GoneItem
  <2> QED
    BY <2>1, <2>3 DEF InventoryInv, OnlyARaceOverdraws, StockAfter, ItemThere
<1> QED
  BY <1>2, <1>4, <1>5 DEF InventoryInv

\* The inductive invariant of InventoryService for one item.
THEOREM InventoryInvariant == InventorySpec => []InventoryInv
<1>1. InventoryInv /\ [InventoryNext]_inventoryVars => InventoryInv'
  <2> SUFFICES ASSUME InventoryInv, [InventoryNext]_inventoryVars
               PROVE  InventoryInv'
    OBVIOUS
  <2> USE DEF InventoryInv, InventoryTypeOK, Item, NoItem
  <2>1. ASSUME NEW stock \in Quantities \union {0}, CreateItem(stock)
        PROVE  InventoryInv'
    <3>1. stock \in Int
      BY QuantitiesAssumption
    <3>2. /\ item' \in Item /\ moved' \in Int /\ item = NoItem
      BY <2>1, <3>1 DEF CreateItem, FirstMovement
    <3> QED
      BY <2>1, <3>2, QuietStepKeeps DEF CreateItem
  <2>2. CASE RestoreItem
    <3>1. item.version \in Nat /\ item.stock \in Int /\ item.version > 0
      BY <2>2, EditsAssumption DEF RestoreItem
    <3>2. item' = [version |-> item.version + 1, stock |-> item.stock, deleted |-> FALSE]
      BY <2>2 DEF RestoreItem
    <3>3. item' \in Item /\ item'.stock = item.stock /\ item'.version > 0
      BY <3>1, <3>2
    <3> QED
      BY <2>2, <3>3, QuietStepKeeps DEF RestoreItem
  <2>3. ASSUME NEW c \in Clerks, NEW quantity \in Quantities, StartMovement(c, quantity)
        PROVE  InventoryInv'
    BY <2>3, BeginKeeps, QuantitiesAssumption DEF StartMovement
  <2>4. ASSUME NEW c \in Clerks, StartEdit(c) \/ StartDelete(c)
        PROVE  InventoryInv'
    BY <2>4, BeginKeeps DEF StartEdit, StartDelete
  <2>5. ASSUME NEW c \in Clerks, WriteMovement(c)
        PROVE  InventoryInv'
    BY <2>5, WriteMovementKeeps
  <2>6. ASSUME NEW c \in Clerks, WriteEdit(c) \/ WriteDelete(c) \/ GiveUp(c)
        PROVE  InventoryInv'
    <3>1. moving' = [moving EXCEPT ![c] = NotMoving] /\ moved' = moved
      BY <2>6 DEF WriteEdit, WriteDelete, GiveUp, EndMoving
    <3>2. /\ moving[c].step # "idle" /\ moving[c].seen \in Item
          /\ WriteEdit(c) \/ WriteDelete(c) => item.version > 0
      BY <2>6 DEF WriteEdit, WriteDelete, GiveUp, ItemThere, Moving
    <3>3. /\ item' \in Item /\ item'.stock = item.stock
          /\ item' = item \/ (item.version > 0 /\ item'.version > 0)
      <4>1. CASE WriteEdit(c)
        <5>1. item' = [version |-> moving[c].seen.version + 1, stock |-> item.stock,
                       deleted |-> item.deleted]
          BY <4>1 DEF WriteEdit
        <5> QED
          BY <3>2, <4>1, <5>1
      <4>2. CASE WriteDelete(c)
        <5>1. item' = [version |-> item.version, stock |-> item.stock, deleted |-> TRUE]
          BY <4>2 DEF WriteDelete
        <5> QED
          BY <3>2, <4>2, <5>1
      <4> QED
        BY <2>6, <3>2, <4>1, <4>2 DEF GiveUp
    <3> QED
      BY <3>1, <3>3, QuietStepKeeps
  <2>7. CASE UNCHANGED inventoryVars
    BY <2>7 DEF inventoryVars, CallsHaveAnItem, OnlyARaceOverdraws, StockAfter, ItemThere
  <2>8. CASE PurgeItem
    BY <2>8, QuietStepKeeps DEF PurgeItem, GoneItem
  <2> QED
    BY <2>1, <2>2, <2>3, <2>4, <2>5, <2>6, <2>7, <2>8 DEF InventoryNext
<1> QED
  BY <1>1, InventoryStarts, PTL DEF InventorySpec

\* A withdrawal that no other overtakes is covered by the stock.
THEOREM RaceOverdraws == InventorySpec => []OnlyARaceOverdraws
BY InventoryInvariant, PTL DEF InventoryInv

\* The stock changes by what is recorded as moved.
THEOREM StockIsMoved == InventorySpec => StockFollowsMovements
<1>1. InventoryInv /\ [InventoryNext]_inventoryVars
        => [ItemThere /\ ItemThere' => item'.stock - item.stock = moved' - moved]_inventoryVars
  <2> SUFFICES ASSUME InventoryInv, InventoryNext, item.version > 0, item'.version > 0
               PROVE  item'.stock - item.stock = moved' - moved
    BY DEF inventoryVars, ItemThere
  <2>1. item \in Item /\ moved \in Int /\ \A c \in Clerks : moving[c] \in Moving
    BY DEF InventoryInv, InventoryTypeOK
  <2>2. ASSUME NEW c \in Clerks, WriteMovement(c)
        PROVE  item'.stock = item.stock + moving[c].quantity
               /\ moved' = moved + moving[c].quantity
    BY <2>1, <2>2 DEF WriteMovement, StockAfter, Item
  <2>3. ASSUME ~ \E c \in Clerks : WriteMovement(c)
        PROVE  item'.stock = item.stock /\ moved' = moved
    <3>1. ~ \E stock \in Quantities \union {0} : CreateItem(stock)
      <4>1. item # NoItem
        BY DEF NoItem
      <4> QED
        BY <4>1 DEF CreateItem
    <3>2. ASSUME NEW c \in Clerks, NEW quantity \in Quantities, StartMovement(c, quantity)
          PROVE  item' = item /\ moved' = moved
      BY <3>2 DEF StartMovement, Begin
    <3>3. ASSUME NEW c \in Clerks,
                 StartEdit(c) \/ StartDelete(c) \/ WriteEdit(c) \/ WriteDelete(c) \/ GiveUp(c)
          PROVE  item'.stock = item.stock /\ moved' = moved
      BY <2>1, <3>3 DEF StartEdit, StartDelete, Begin, WriteEdit, WriteDelete, GiveUp, Item
    <3>4. CASE RestoreItem
      BY <2>1, <3>4 DEF RestoreItem, Item
    <3>5. ~PurgeItem
      BY DEF PurgeItem, GoneItem, NoItem
    <3> QED
      BY <2>3, <3>1, <3>2, <3>3, <3>4, <3>5 DEF InventoryNext
  <2> QED
    BY <2>1, <2>2, <2>3 DEF Item, Moving
<1> QED
  BY <1>1, InventoryInvariant, PTL DEF InventorySpec, StockFollowsMovements

-----------------------------------------------------------------------------
(* The dues.                                                               *)

\* Whose rows are not committed is past its first statement; a call under way has found the
\* dues; one that is alone is the only one, its target is the row's, and the
\* payments it has summed are those it sees.
AloneIsAlone ==
    /\ \A p \in Payments : payment[p].by # Nobody =>
          payment[p].by \in Busy /\ paying[payment[p].by].step \in {"sum", "write"}
    /\ Busy # {} => dues.present
    /\ \A c \in Busy : paying[c].alone =>
          /\ Busy = {c}
          /\ paying[c].target = dues.target
          /\ paying[c].step = "write" => paying[c].sum = SeenBy(c)

DuesInv == DuesTypeOK /\ AloneIsAlone /\ UnpaidMeansNothingPaid

\* Without dues there are no payments and no calls.
LEMMA DuesStart == DuesInit => DuesInv
BY DEF DuesInit, DuesInv, DuesTypeOK, AloneIsAlone, UnpaidMeansNothingPaid, Busy, DuesRow,
   NoDues,
       Payment, NoPayment, NotPaying, DuesStatuses

\* What a call may look like, for the steps below.
LEMMA CallShape ==
    ASSUME DuesTypeOK, NEW c \in Treasurers
    PROVE  /\ c \in Busy => paying[c] \in Paying
           /\ c \notin Busy => paying[c] = NotPaying
BY DEF DuesTypeOK, Busy, Paying, NotPaying

\* The calls that go on when another begins or the target changes.
LEMMA DisturbedCalls ==
    ASSUME DuesTypeOK, NEW c \in Treasurers
    PROVE  /\ Disturbed[c] \in Paying \union {NotPaying}
           /\ c \in Busy => /\ Disturbed[c].step = paying[c].step
                            /\ Disturbed[c].step # "idle"
                            /\ ~Disturbed[c].alone
           /\ c \notin Busy => Disturbed[c] = NotPaying
<1>1. CASE c \in Busy
  <2>1. paying[c] \in Paying
    BY <1>1, CallShape
  <2>2. Disturbed[c] = [paying[c] EXCEPT !.alone = FALSE]
    BY <1>1 DEF Disturbed
  <2> QED
    BY <1>1, <2>1, <2>2 DEF Paying
<1>2. CASE c \notin Busy
  BY <1>2 DEF Disturbed
<1> QED
  BY <1>1, <1>2

\* Whoever reads the dues while nobody else runs is alone; the others no
\* longer are.
LEMMA StartPayingKeeps ==
    ASSUME DuesInv, NEW c \in Treasurers, NEW p \in Payments, NEW step \in {"add", "remove"},
           StartPaying(c, step, p)
    PROVE  DuesInv'
<1>1. /\ dues' = dues /\ payment' = payment /\ dues.present /\ c \notin Busy
      /\ paying' = [Disturbed EXCEPT ![c] =
                      [step |-> step, payment |-> p, target |-> dues.target,
                       sum |-> {}, alone |-> (Busy = {})]]
      /\ dues.target \in Nat
  BY DEF StartPaying, DuesInv, DuesTypeOK, DuesRow
<1>2. /\ paying'[c] = [step |-> step, payment |-> p, target |-> dues.target,
                       sum |-> {}, alone |-> (Busy = {})]
      /\ \A o \in Treasurers \ {c} : paying'[o] = Disturbed[o]
      /\ DOMAIN paying' = Treasurers
  BY <1>1 DEF Disturbed
<1>3. DuesTypeOK'
  <2>1. paying'[c] \in Paying
    BY <1>1, <1>2 DEF Paying
  <2>2. \A o \in Treasurers : paying'[o] \in Paying \union {NotPaying}
    BY <1>2, <2>1, DisturbedCalls DEF DuesInv
  <2>3. paying' = [o \in Treasurers |-> paying'[o]]
    BY <1>1 DEF Disturbed
  <2> QED
    BY <1>1, <2>2, <2>3 DEF DuesInv, DuesTypeOK
<1>4. Busy' = Busy \union {c}
  <2>1. \A o \in Treasurers \ {c} : paying'[o].step # "idle" <=> o \in Busy
    BY <1>2, DisturbedCalls DEF DuesInv, NotPaying
  <2> QED
    BY <1>1, <1>2, <2>1 DEF Busy
<1>5. AloneIsAlone'
  <2>1. \A o \in Busy : ~paying'[o].alone
    BY <1>1, <1>2, DisturbedCalls DEF DuesInv, Busy
  <2>2. paying'[c].alone <=> Busy = {}
    <3>1. PICK only \in BOOLEAN : only = (Busy = {})
      OBVIOUS
    <3>2. paying'[c] = [step |-> step, payment |-> p, target |-> dues.target,
                        sum |-> {}, alone |-> only]
      BY <1>2, <3>1, Zenon
    <3>3. paying'[c].alone = only
      BY <3>2
    <3> QED
      BY <3>1, <3>3, Zenon
  <2>3. \A o \in Busy' : paying'[o].alone => o = c /\ Busy = {}
    BY <1>4, <2>1, <2>2
  <2> QED
    <3>1. \A o \in Busy : paying'[o].step = paying[o].step
      BY <1>1, <1>2, DisturbedCalls DEF DuesInv, Busy
    <3>2. \A q \in Payments : payment'[q].by # Nobody =>
             payment'[q].by \in Busy' /\ paying'[payment'[q].by].step \in {"sum", "write"}
      BY <1>1, <1>4, <3>1 DEF DuesInv, AloneIsAlone
    <3>3. \A o \in Busy' : paying'[o].alone =>
             Busy' = {o} /\ paying'[o].target = dues'.target /\ paying'[o].step # "write"
      BY <1>1, <1>2, <1>4, <2>3
    <3> QED
      BY <1>1, <3>2, <3>3 DEF AloneIsAlone
<1> QED
  BY <1>1, <1>3, <1>5 DEF DuesInv, UnpaidMeansNothingPaid

\* The steps of a call between its first and its last.
LEMMA ContinueKeeps ==
    ASSUME DuesInv, NEW c \in Busy, NEW job \in Paying,
           dues' = dues, payment' \in [Payments -> Payment],
           paying' = [paying EXCEPT ![c] = job],
           job.alone = paying[c].alone, job.target = paying[c].target,
           job.step \in {"sum", "write"},
           \A p \in Payments : payment'[p].by \in {payment[p].by, c},
           job.step = "write" => job.sum = SeenBy(c)'
    PROVE  DuesInv'
<1>1. /\ c \in Treasurers /\ paying'[c] = job
      /\ \A o \in Treasurers \ {c} : paying'[o] = paying[o]
      /\ job.step # "idle"
  BY DEF Busy, DuesInv, DuesTypeOK, Paying
<1>2. DuesTypeOK'
  BY <1>1 DEF DuesInv, DuesTypeOK
<1>3. Busy' = Busy
  BY <1>1 DEF Busy
<1>4. \A o \in Busy' : paying'[o].alone => o = c
  BY <1>1, <1>3 DEF DuesInv, AloneIsAlone, Busy
<1>5. AloneIsAlone'
  BY <1>1, <1>3, <1>4 DEF DuesInv, AloneIsAlone
<1> QED
  BY <1>2, <1>5 DEF DuesInv, UnpaidMeansNothingPaid

\* The end of a call, whether its transaction commits, rolls back or had none.
LEMMA EndKeeps ==
    ASSUME DuesInv, NEW c \in Busy,
           dues' \in DuesRow, dues'.present, UnpaidMeansNothingPaid',
           payment' \in [Payments -> Payment],
           paying' = [paying EXCEPT ![c] = NotPaying],
           \A p \in Payments : payment'[p].by \in {payment[p].by, Nobody} \ {c}
    PROVE  DuesInv'
<1>1. /\ c \in Treasurers /\ paying'[c] = NotPaying
      /\ \A o \in Treasurers \ {c} : paying'[o] = paying[o]
  BY DEF Busy, DuesInv, DuesTypeOK
<1>2. DuesTypeOK'
  BY DEF DuesInv, DuesTypeOK
<1>3. Busy' = Busy \ {c}
  BY <1>1 DEF Busy, NotPaying
<1>4. \A o \in Busy' : ~paying'[o].alone
  BY <1>1, <1>3 DEF DuesInv, AloneIsAlone, Busy
<1>5. AloneIsAlone'
  BY <1>1, <1>3, <1>4 DEF DuesInv, AloneIsAlone
<1> QED
  BY <1>2, <1>5 DEF DuesInv

\* The UPDATE writes a status that goes with the amount, and the commit
\* leaves no row of the call behind.
LEMMA WriteDuesKeeps ==
    ASSUME DuesInv, NEW c \in Treasurers, WriteDues(c)
    PROVE  /\ DuesInv'
           /\ paying[c].alone => /\ dues'.paid = CommittedPayments'
                                 /\ dues'.status = StatusFor(dues'.paid, dues'.target)
<1>1. /\ c \in Busy /\ paying[c] \in Paying /\ paying[c].step = "write"
      /\ \A p \in Payments : payment[p] \in Payment
      /\ dues \in DuesRow /\ dues.present
  <2>1. c \in Busy
    BY DEF WriteDues, Busy
  <2> QED
    BY <2>1, CallShape DEF WriteDues, DuesInv, DuesTypeOK, AloneIsAlone
<1>2. /\ dues' = [present |-> dues.present, target |-> dues.target, paid |-> paying[c].sum,
                  status |-> StatusFor(paying[c].sum, paying[c].target)]
      /\ payment' = [p \in Payments |-> IF payment[p].by = c
                                        THEN [payment[p] EXCEPT !.by = Nobody]
                                        ELSE payment[p]]
      /\ paying' = [paying EXCEPT ![c] = NotPaying]
  BY <1>1 DEF WriteDues, Recalculated, CommittedPayment, DuesRow
<1>3. \A paid, target : /\ StatusFor(paid, target) \in DuesStatuses
                        /\ StatusFor(paid, target) = "unpaid" <=> paid = {}
  BY DEF StatusFor, DuesStatuses
<1>4. dues' \in DuesRow /\ dues'.present /\ UnpaidMeansNothingPaid'
  BY <1>1, <1>2, <1>3 DEF DuesRow, Paying, UnpaidMeansNothingPaid
<1>5. \A p \in Payments :
         /\ payment'[p] \in Payment
         /\ payment'[p].state = payment[p].state
         /\ payment'[p].by = IF payment[p].by = c THEN Nobody ELSE payment[p].by
  BY <1>1, <1>2 DEF Payment
<1>6. DuesInv'
  <2>1. payment' \in [Payments -> Payment]
    BY <1>2, <1>5
  <2>2. \A p \in Payments : payment'[p].by \in {payment[p].by, Nobody} \ {c}
    BY <1>5, TreasurersAssumption
  <2> QED
    BY <1>1, <1>2, <1>4, <2>1, <2>2, EndKeeps
<1>7. ASSUME paying[c].alone
      PROVE  /\ dues'.paid = CommittedPayments'
             /\ dues'.status = StatusFor(dues'.paid, dues'.target)
  <2>1. /\ paying[c].target = dues.target
        /\ paying[c].sum = SeenBy(c)
        /\ Busy = {c}
    BY <1>1, <1>7 DEF DuesInv, AloneIsAlone
  <2>2. \A p \in Payments : payment[p].by \in {c, Nobody}
    BY <1>1, <2>1 DEF DuesInv, AloneIsAlone
  <2>3. \A p \in Payments : p \in SeenBy(c) <=> payment[p].state = "recorded"
    BY <2>2, TreasurersAssumption DEF SeenBy, CommittedPayments
  <2>4. \A p \in Payments : p \in CommittedPayments' <=> payment[p].state = "recorded"
    BY <1>5, <2>2 DEF CommittedPayments
  <2>5. SeenBy(c) = CommittedPayments'
    BY <2>3, <2>4 DEF SeenBy, CommittedPayments
  <2> QED
    BY <1>2, <2>1, <2>5
<1> QED
  BY <1>6, <1>7

\* A rollback takes the call's rows back and leaves the dues as they were.
LEMMA FailPayingKeeps ==
    ASSUME DuesInv, NEW c \in Treasurers, FailPaying(c)
    PROVE  DuesInv'
<1>1. /\ c \in Busy /\ dues' = dues /\ dues.present /\ dues \in DuesRow
      /\ \A p \in Payments : payment[p] \in Payment
      /\ paying' = [paying EXCEPT ![c] = NotPaying]
      /\ payment' = [p \in Payments |-> RolledBackPayment(c, p)]
  BY DEF FailPaying, DuesInv, DuesTypeOK, AloneIsAlone
<1>2. \A p \in Payments : /\ RolledBackPayment(c, p) \in Payment
                          /\ RolledBackPayment(c, p).by \in {payment[p].by, Nobody} \ {c}
  <2> SUFFICES ASSUME NEW p \in Payments
               PROVE  /\ RolledBackPayment(c, p) \in Payment
                      /\ RolledBackPayment(c, p).by \in {payment[p].by, Nobody} \ {c}
    OBVIOUS
  <2>1. payment[p] \in Payment
    BY <1>1
  <2>2. CASE payment[p].by = c /\ payment[p].state = "removed"
    BY <2>1, <2>2, TreasurersAssumption DEF RolledBackPayment, Payment
  <2>3. CASE payment[p].by = c /\ payment[p].state # "removed"
    BY <2>1, <2>3, TreasurersAssumption DEF RolledBackPayment, Payment, NoPayment
  <2>4. CASE payment[p].by # c
    BY <2>1, <2>4 DEF RolledBackPayment
  <2> QED
    BY <2>2, <2>3, <2>4
<1> QED
  BY <1>1, <1>2, EndKeeps DEF DuesInv, UnpaidMeansNothingPaid

\* The INSERT of a payment belongs to a call that has yet to sum.
LEMMA AddPaymentKeeps ==
    ASSUME DuesInv, NEW c \in Treasurers, AddPayment(c)
    PROVE  DuesInv'
<1>1. c \in Busy /\ paying[c] \in Paying /\ payment \in [Payments -> Payment]
  <2>1. c \in Busy
    BY DEF AddPayment, Busy
  <2> QED
    BY <2>1, CallShape DEF DuesInv, DuesTypeOK
<1> DEFINE job == [paying[c] EXCEPT !.step = "sum"]
           entry == [state |-> "recorded", verified |-> FALSE, by |-> c]
<1>2. job \in Paying /\ job.alone = paying[c].alone /\ job.target = paying[c].target
      /\ job.step = "sum"
  BY <1>1 DEF Paying
<1>3. payment' = [payment EXCEPT ![paying[c].payment] = entry] /\ dues' = dues
      /\ paying' = [paying EXCEPT ![c] = job]
  BY DEF AddPayment
<1>4. entry \in Payment
  BY DEF Payment
<1>5. payment' \in [Payments -> Payment]
      /\ \A p \in Payments : payment'[p].by \in {payment[p].by, c}
  BY <1>1, <1>3, <1>4
<1> HIDE DEF job, entry
<1> QED
  BY <1>1, <1>2, <1>3, <1>5, ContinueKeeps

\* The DELETE of a payment belongs to a call that has yet to sum, unless it
\* finds no row.
LEMMA RemovePaymentKeeps ==
    ASSUME DuesInv, NEW c \in Treasurers, RemovePayment(c)
    PROVE  DuesInv'
<1> DEFINE p == paying[c].payment
<1>1. /\ c \in Busy /\ paying[c] \in Paying /\ payment \in [Payments -> Payment]
      /\ p \in Payments /\ dues' = dues /\ dues \in DuesRow /\ dues.present
      /\ payment[p].by = Nobody
  <2>1. c \in Busy
    BY DEF RemovePayment, Busy
  <2> QED
    BY <2>1, CallShape DEF RemovePayment, DuesInv, DuesTypeOK, AloneIsAlone, Paying
<1>2. CASE payment[p].state = "recorded"
  <2> DEFINE job == [paying[c] EXCEPT !.step = "sum"]
             entry == [state |-> "removed", verified |-> payment[p].verified, by |-> c]
  <2>1. job \in Paying /\ job.alone = paying[c].alone /\ job.target = paying[c].target
        /\ job.step = "sum"
    BY <1>1 DEF Paying
  <2>2. payment' = [payment EXCEPT ![p] = entry] /\ paying' = [paying EXCEPT ![c] = job]
    BY <1>1, <1>2 DEF RemovePayment, Payment
  <2>3. entry \in Payment
    BY <1>1 DEF Payment
  <2>4. payment' \in [Payments -> Payment]
        /\ \A q \in Payments : payment'[q].by \in {payment[q].by, c}
    BY <1>1, <2>2, <2>3
  <2> HIDE DEF job, entry
  <2> QED
    BY <1>1, <2>1, <2>2, <2>4, ContinueKeeps
<1>3. CASE payment[p].state # "recorded"
  <2>1. payment' = payment /\ paying' = [paying EXCEPT ![c] = NotPaying]
    BY <1>3 DEF RemovePayment
  <2>2. \A q \in Payments : payment[q].by # c
    BY <1>1, TreasurersAssumption DEF RemovePayment, DuesInv, AloneIsAlone
  <2> QED
    BY <1>1, <2>1, <2>2, EndKeeps DEF DuesInv, UnpaidMeansNothingPaid
<1> QED
  BY <1>2, <1>3

\* The SELECT of a call that is alone returns what the call sees.
LEMMA SumPaymentsKeeps ==
    ASSUME DuesInv, NEW c \in Treasurers, SumPayments(c)
    PROVE  DuesInv'
<1>1. c \in Busy /\ paying[c] \in Paying
  <2>1. c \in Busy
    BY DEF SumPayments, Busy
  <2> QED
    BY <2>1, CallShape DEF DuesInv
<1> DEFINE job == [paying[c] EXCEPT !.step = "write", !.sum = SeenBy(c)]
<1>2. job \in Paying /\ job.alone = paying[c].alone /\ job.target = paying[c].target
      /\ job.step = "write" /\ job.sum = SeenBy(c)
  BY <1>1 DEF Paying, SeenBy
<1>3. paying' = [paying EXCEPT ![c] = job] /\ payment' = payment /\ dues' = dues
  BY DEF SumPayments, SumSeen
<1>4. SeenBy(c)' = SeenBy(c)
  BY <1>3 DEF SeenBy, CommittedPayments
<1> HIDE DEF job
<1> QED
  BY <1>1, <1>2, <1>3, <1>4, ContinueKeeps DEF DuesInv, DuesTypeOK

\* Verifying a payment changes nothing a sum depends on.
LEMMA VerifyPaymentKeeps ==
    ASSUME DuesInv, NEW p \in Payments, VerifyPayment(p)
    PROVE  DuesInv'
<1>1. /\ payment' \in [Payments -> Payment] /\ dues' = dues /\ paying' = paying
      /\ \A q \in Payments : /\ payment'[q].state = payment[q].state
                             /\ payment'[q].by = payment[q].by
  BY DEF VerifyPayment, DuesInv, DuesTypeOK, Payment
<1>2. /\ Busy' = Busy
      /\ \A c \in Busy : SeenBy(c)' = SeenBy(c)
  BY <1>1 DEF Busy, SeenBy, CommittedPayments
<1> QED
  BY <1>1, <1>2 DEF DuesInv, DuesTypeOK, AloneIsAlone, UnpaidMeansNothingPaid

\* New dues, or a new target, leave no running call with a target that it
\* takes for the row's.
LEMMA TargetKeeps ==
    ASSUME DuesInv, NEW target \in Targets, CreateDues(target) \/ UpdateTarget(target)
    PROVE  DuesInv'
<1>1. target \in Nat
  BY AmountAssumption
<1>2. CASE CreateDues(target)
  <2>1. Busy = {} /\ Busy' = {}
    BY <1>2 DEF CreateDues, DuesInv, AloneIsAlone, Busy
  <2>2. dues' \in DuesRow /\ UnpaidMeansNothingPaid' /\ payment' = payment /\ paying' = paying
    BY <1>1, <1>2 DEF CreateDues, DuesRow, NoDues, DuesStatuses, UnpaidMeansNothingPaid
  <2> QED
    BY <2>1, <2>2 DEF DuesInv, DuesTypeOK, AloneIsAlone
<1>3. CASE UpdateTarget(target)
  <2>1. /\ dues' \in DuesRow /\ dues'.present /\ UnpaidMeansNothingPaid'
        /\ payment' = payment /\ paying' = Disturbed
    BY <1>1, <1>3 DEF UpdateTarget, DuesInv, DuesTypeOK, DuesRow, UnpaidMeansNothingPaid
  <2>2. \A c \in Treasurers : paying'[c].step # "idle" <=> c \in Busy
    BY <2>1, DisturbedCalls DEF DuesInv, NotPaying
  <2>3. Busy' = Busy
    BY <2>2 DEF Busy
  <2>4. \A c \in Busy : ~paying'[c].alone /\ paying'[c].step = paying[c].step
    BY <2>1, DisturbedCalls DEF DuesInv, Busy
  <2>5. paying' \in [Treasurers -> Paying \union {NotPaying}]
    <3>1. \A c \in Treasurers : Disturbed[c] \in Paying \union {NotPaying}
      BY DisturbedCalls DEF DuesInv
    <3>2. Disturbed = [c \in Treasurers |-> Disturbed[c]]
      BY DEF Disturbed
    <3> QED
      BY <2>1, <3>1, <3>2
  <2>6. AloneIsAlone'
    BY <2>1, <2>3, <2>4 DEF DuesInv, AloneIsAlone
  <2> QED
    BY <2>1, <2>5, <2>6 DEF DuesInv, DuesTypeOK
<1> QED
  BY <1>2, <1>3

\* The inductive invariant of DuesService for one row of dues.
THEOREM DuesInvariant == DuesSpec => []DuesInv
<1>1. DuesInv /\ [DuesNext]_duesVars => DuesInv'
  <2> SUFFICES ASSUME DuesInv, [DuesNext]_duesVars
               PROVE  DuesInv'
    OBVIOUS
  <2>1. ASSUME NEW target \in Targets, CreateDues(target) \/ UpdateTarget(target)
        PROVE  DuesInv'
    BY <2>1, TargetKeeps
  <2>2. ASSUME NEW p \in Payments, VerifyPayment(p)
        PROVE  DuesInv'
    BY <2>2, VerifyPaymentKeeps
  <2>3. ASSUME NEW c \in Treasurers, NEW p \in Payments,
               StartAddPayment(c, p) \/ StartRemovePayment(c, p)
        PROVE  DuesInv'
    BY <2>3, StartPayingKeeps DEF StartAddPayment, StartRemovePayment
  <2>4. ASSUME NEW c \in Treasurers, AddPayment(c)
        PROVE  DuesInv'
    BY <2>4, AddPaymentKeeps
  <2>5. ASSUME NEW c \in Treasurers, RemovePayment(c)
        PROVE  DuesInv'
    BY <2>5, RemovePaymentKeeps
  <2>6. ASSUME NEW c \in Treasurers, SumPayments(c)
        PROVE  DuesInv'
    BY <2>6, SumPaymentsKeeps
  <2>7. ASSUME NEW c \in Treasurers, WriteDues(c)
        PROVE  DuesInv'
    BY <2>7, WriteDuesKeeps
  <2>8. ASSUME NEW c \in Treasurers, FailPaying(c)
        PROVE  DuesInv'
    BY <2>8, FailPayingKeeps
  <2>9. CASE UNCHANGED duesVars
    BY <2>9 DEF duesVars, DuesInv, DuesTypeOK, AloneIsAlone, UnpaidMeansNothingPaid, Busy,
                SeenBy, CommittedPayments
  <2> QED
    BY <2>1, <2>2, <2>3, <2>4, <2>5, <2>6, <2>7, <2>8, <2>9 DEF DuesNext
<1> QED
  BY <1>1, DuesStart, PTL DEF DuesSpec

\* The status says unpaid exactly while nothing is paid.
THEOREM Unpaid == DuesSpec => []UnpaidMeansNothingPaid
BY DuesInvariant, PTL DEF DuesInv

\* A call that has run alone leaves the sum of the payments and its status.
THEOREM AloneSums == DuesSpec => AloneLeavesTheSum
<1>1. DuesInv /\ [DuesNext]_duesVars
        => [\A c \in Treasurers :
              WriteDues(c) /\ paying[c].alone
              => /\ dues'.paid = CommittedPayments'
                 /\ dues'.status = StatusFor(dues'.paid, dues'.target)]_duesVars
  BY WriteDuesKeeps
<1> QED
  BY <1>1, DuesInvariant, PTL DEF DuesSpec, AloneLeavesTheSum

-----------------------------------------------------------------------------
(* The items of a budget.                                                  *)

\* A call that is alone is the only one, and has read the items as they are.
OnlyEditor ==
    \A e \in Editors : editing[e].step # "idle" /\ editing[e].alone =>
        /\ \A o \in Editors \ {e} : editing[o].step = "idle"
        /\ editing[e].step = "write" => editing[e].sums = line

BudgetsInv == BudgetsTypeOK /\ OnlyEditor

\* No call runs and no item exists.
LEMMA BudgetsStart == BudgetsInit => BudgetsInv
<1> SUFFICES ASSUME BudgetsInit PROVE BudgetsInv
  OBVIOUS
<1>1. NoLines \in [Lines -> Line]
  BY DEF NoLines, NoLine, Line
<1>2. NotEditing \in Editing
  BY <1>1 DEF NotEditing, Editing
<1>3. \A e \in Editors : editing[e].step = "idle"
  BY DEF BudgetsInit, NotEditing
<1> QED
  BY <1>1, <1>2, <1>3 DEF BudgetsInit, BudgetsInv, BudgetsTypeOK, OnlyEditor

\* Whoever finds the budget while nobody else runs is the only editor.
LEMMA StartEditingKeeps ==
    ASSUME BudgetsInv, NEW e \in Editors, NEW step \in {"add", "update", "remove"},
           NEW i \in Lines, NEW amount \in Nat, StartEditing(e, step, i, amount)
    PROVE  BudgetsInv'
<1>1. PICK only \in BOOLEAN : only = (Idlers = Editors)
  OBVIOUS
<1> DEFINE job == [step |-> step, line |-> i, amount |-> amount, sums |-> NoLines, alone |-> only]
<1>2. /\ editing' = [o \in Editors |-> IF o = e THEN job
                                       ELSE [editing[o] EXCEPT !.alone = FALSE]]
      /\ totals' = totals /\ removed' = removed /\ line' = line
  BY <1>1, Zenon DEF StartEditing
<1>3. job \in Editing
  BY DEF Editing, NoLines, NoLine, Line
<1>4. \A o \in Editors : editing[o] \in Editing
  BY DEF BudgetsInv, BudgetsTypeOK
<1>5. BudgetsTypeOK'
  <2>1. \A o \in Editors : [editing[o] EXCEPT !.alone = FALSE] \in Editing
    BY <1>4 DEF Editing
  <2> HIDE DEF job
  <2> QED
    BY <1>2, <1>3, <2>1 DEF BudgetsInv, BudgetsTypeOK
<1>6. OnlyEditor'
  <2>1. ASSUME only
        PROVE  \A o \in Editors : editing[o].step = "idle"
    BY <1>1, <2>1 DEF Idlers
  <2>2. \A o \in Editors \ {e} : editing'[o].step = editing[o].step /\ ~editing'[o].alone
    BY <1>2, <1>4 DEF Editing
  <2>3. editing'[e].alone = only /\ editing'[e].step = step
    BY <1>2
  <2> QED
    BY <2>1, <2>2, <2>3 DEF OnlyEditor
<1> QED
  BY <1>5, <1>6 DEF BudgetsInv

\* Each later step of a call: it alone moves, and keeps whether it is alone.
LEMMA EditorMoves ==
    ASSUME BudgetsInv, NEW e \in Editors, editing[e].step # "idle", NEW job \in Editing,
           editing' = [editing EXCEPT ![e] = job],
           totals' \in [Lines -> Line], removed' \in BOOLEAN, line' \in [Lines -> Line],
           job.step = "idle" \/ job.alone = editing[e].alone,
           job.step = "write" => job.sums = line'
    PROVE  BudgetsInv'
<1>1. /\ editing'[e] = job
      /\ \A o \in Editors \ {e} : editing'[o] = editing[o]
  BY DEF BudgetsInv, BudgetsTypeOK
<1>2. BudgetsTypeOK'
  BY DEF BudgetsInv, BudgetsTypeOK
<1>3. OnlyEditor'
  BY <1>1 DEF BudgetsInv, OnlyEditor
<1> QED
  BY <1>2, <1>3 DEF BudgetsInv

\* The inductive invariant of FinanceService for the items of one budget.
THEOREM BudgetsInvariant == BudgetsSpec => []BudgetsInv
<1>1. BudgetsInv /\ [BudgetsNext]_budgetVars => BudgetsInv'
  <2> SUFFICES ASSUME BudgetsInv, [BudgetsNext]_budgetVars
               PROVE  BudgetsInv'
    OBVIOUS
  <2>1. CASE RemoveBudget
    BY <2>1 DEF RemoveBudget, BudgetsInv, BudgetsTypeOK, OnlyEditor
  <2>2. ASSUME NEW e \in Editors, NEW i \in Lines,
               \/ \E amount \in Plans : StartAddLine(e, i, amount) \/ StartUpdateLine(e, i, amount)
               \/ StartRemoveLine(e, i)
        PROVE  BudgetsInv'
    BY <2>2, StartEditingKeeps, PlansAssumption
       DEF StartAddLine, StartUpdateLine, StartRemoveLine
  <2>3. ASSUME NEW e \in Editors,
               \/ AddLine(e) \/ UpdateLine(e) \/ RemoveLine(e)
               \/ SumLines(e) \/ WriteTotals(e) \/ AbandonEditing(e)
        PROVE  BudgetsInv'
    <3>1. /\ editing[e] \in Editing /\ editing[e].step # "idle"
          /\ totals \in [Lines -> Line] /\ removed \in BOOLEAN /\ line \in [Lines -> Line]
      BY <2>3 DEF AddLine, UpdateLine, RemoveLine, SumLines, WriteTotals, AbandonEditing,
                  BudgetsInv, BudgetsTypeOK
    <3>2. /\ NotEditing \in Editing /\ NotEditing.step = "idle" /\ NoLine \in Line
          /\ [editing[e] EXCEPT !.step = "sum"] \in Editing
          /\ [editing[e] EXCEPT !.step = "sum"].step = "sum"
          /\ [editing[e] EXCEPT !.step = "sum"].alone = editing[e].alone
          /\ [editing[e] EXCEPT !.step = "write", !.sums = line] \in Editing
          /\ [editing[e] EXCEPT !.step = "write", !.sums = line].sums = line
          /\ [editing[e] EXCEPT !.step = "write", !.sums = line].alone = editing[e].alone
      BY <3>1 DEF Editing, NotEditing, NoLines, NoLine, Line
    <3>3. CASE AddLine(e)
      <4>1. [NoLine EXCEPT !.present = TRUE, !.planned = editing[e].amount] \in Line
        BY <3>1 DEF NoLine, Line, Editing
      <4>2. line' \in [Lines -> Line]
        BY <3>1, <3>3, <4>1 DEF AddLine
      <4> QED
        BY <3>1, <3>2, <3>3, <4>2, EditorMoves DEF AddLine
    <3>4. CASE UpdateLine(e)
      <4>1. line' \in [Lines -> Line]
        BY <3>1, <3>4 DEF UpdateLine, Line, Editing
      <4> QED
        BY <3>1, <3>2, <3>4, <4>1, EditorMoves DEF UpdateLine
    <3>5. CASE RemoveLine(e)
      <4>1. line' \in [Lines -> Line]
        BY <3>1, <3>2, <3>5 DEF RemoveLine
      <4> QED
        BY <3>1, <3>2, <3>5, <4>1, EditorMoves DEF RemoveLine
    <3>6. CASE SumLines(e)
      BY <3>1, <3>2, <3>6, EditorMoves DEF SumLines
    <3>7. CASE WriteTotals(e)
      <4>1. totals' \in [Lines -> Line]
        BY <3>1, <3>7 DEF WriteTotals, TotalsRead, Editing
      <4> QED
        BY <3>1, <3>2, <3>7, <4>1, EditorMoves DEF WriteTotals
    <3>8. CASE AbandonEditing(e)
      BY <3>1, <3>2, <3>8, EditorMoves DEF AbandonEditing
    <3> QED
      BY <2>3, <3>3, <3>4, <3>5, <3>6, <3>7, <3>8
  <2>4. CASE UNCHANGED budgetVars
    BY <2>4 DEF budgetVars, BudgetsInv, BudgetsTypeOK, OnlyEditor
  <2> QED
    BY <2>1, <2>2, <2>3, <2>4 DEF BudgetsNext
<1> QED
  BY <1>1, BudgetsStart, PTL DEF BudgetsSpec

\* A call that has run alone leaves totals that sum up the items.
THEOREM AloneTotals == BudgetsSpec => AloneLeavesTheTotals
<1>1. BudgetsInv /\ [BudgetsNext]_budgetVars
        => [\A e \in Editors :
              WriteTotals(e) /\ editing[e].alone => totals' = line']_budgetVars
  BY DEF BudgetsInv, OnlyEditor, WriteTotals, TotalsRead
<1> QED
  BY <1>1, BudgetsInvariant, PTL DEF BudgetsSpec, AloneLeavesTheTotals

-----------------------------------------------------------------------------
(* The numbers of a series. Neither that they are unique nor that none is  *)
(* missing is inductive: both rest on who holds a counter. At most one     *)
(* transaction does (OneHolder), and its documents have the numbers from   *)
(* just above the committed counter to the value it has counted up to      *)
(* (NumbersInRange, NumbersAreFilled).                                     *)

HoldersAhead ==
    \A c \in Clients :
        /\ counting[c].series = None => counting[c] = NotCounting
        /\ counting[c].series # None => counting[c].number > lastNumber[counting[c].series]

OneHolder ==
    \A c, e \in Clients :
        counting[c].series # None /\ counting[c].series = counting[e].series => c = e

NumbersInRange ==
    \A d \in Documents :
        /\ document[d].series = None => document[d] = NoDocument
        /\ document[d].series # None /\ document[d].by = None
              => document[d].number \in 1 .. lastNumber[document[d].series]
        /\ document[d].by # None
              => /\ document[d].series # None
                 /\ counting[document[d].by].series = document[d].series
                 /\ document[d].number \in
                      lastNumber[document[d].series] + 1 .. counting[document[d].by].number

Taken(docs, s, n, by) == \E d \in Documents : docs[d] = [series |-> s, number |-> n, by |-> by]

NumbersAreFilled ==
    /\ \A s \in Series : \A n \in 1 .. lastNumber[s] : Taken(document, s, n, None)
    /\ \A c \in Clients : counting[c].series # None =>
          \A n \in lastNumber[counting[c].series] + 1 .. counting[c].number :
              Taken(document, counting[c].series, n, c)

PurgedWereCommitted ==
    \A d \in purged : /\ document[d].by = None
                      /\ document[d].series \in SeriesOfTypes(TrashableTypes)

NumberingInv ==
    /\ NumberingTypeOK
    /\ PurgedWereCommitted
    /\ HoldersAhead
    /\ OneHolder
    /\ NumbersInRange
    /\ NumbersAreFilled
    /\ NumbersAreUnique

-----------------------------------------------------------------------------
\* The series whose documents may be deleted for good are series.
LEMMA ErasableAreSeries ==
    /\ SeriesOfTypes(TrashableTypes) \subseteq Series
    /\ None \notin SeriesOfTypes(TrashableTypes)
    /\ SeriesOf["work_item"] \subseteq SeriesOfTypes(TrashableTypes)
    /\ SeriesOf["budget"] \subseteq Series
    /\ \A s \in SeriesOf["budget"] : s \notin SeriesOfTypes(TrashableTypes)
BY SeriesAssumption DEF SeriesOfTypes, TrashableTypes, Types

\* No counter, no document: every range of numbers is empty.
LEMMA NumberingStart == NumberingInit => NumberingInv
BY SeriesAssumption, ClientsAssumption
   DEF NumberingInit, NumberingInv, NumberingTypeOK, HoldersAhead, OneHolder, NumbersInRange,
       NumbersAreFilled, NumbersAreUnique, Numbered, Taken, Document, NoDocument,
       Counting, NotCounting, PurgedWereCommitted

\* Numbering a document keeps the invariant: the number is one above all those
\* of its series.
LEMMA NumberKeeps ==
    ASSUME NumberingInv, NEW c \in Clients, NEW s \in Series, NEW d \in Documents,
           counting[c].series \in {None, s}, Number(c, s, d)
    PROVE  NumberingInv'
<1> DEFINE n == Counted(c, s) + 1
<1>1. /\ counting[c] \in Counting /\ lastNumber[s] \in Nat
      /\ Counted(c, s) \in Nat /\ n \in Nat /\ Counted(c, s) >= lastNumber[s]
      /\ s # None
  BY SeriesAssumption
     DEF NumberingInv, NumberingTypeOK, HoldersAhead, Counted, Counting, NotCounting
<1>2. /\ document' = [document EXCEPT ![d] = [series |-> s, number |-> n, by |-> c]]
      /\ counting' = [counting EXCEPT ![c] = [series |-> s, number |-> n]]
      /\ lastNumber' = lastNumber /\ purged' = purged
      /\ document[d] = NoDocument
      /\ \A other \in Clients \ {c} : counting[other].series # s
  BY DEF Number, CounterFree
<1> HIDE DEF n
<1>0. PurgedWereCommitted'
  <2>1. d \notin purged
    BY <1>2, ErasableAreSeries DEF NumberingInv, PurgedWereCommitted, NoDocument
  <2>2. \A e \in Documents \ {d} : document'[e] = document[e]
    BY <1>2 DEF NumberingInv, NumberingTypeOK
  <2> QED
    BY <1>2, <2>1, <2>2 DEF NumberingInv, NumberingTypeOK, PurgedWereCommitted
<1>3. NumberingTypeOK'
  BY <1>1, <1>2, ClientsAssumption DEF NumberingInv, NumberingTypeOK, Document, Counting
<1>4. /\ document'[d] = [series |-> s, number |-> n, by |-> c]
      /\ counting'[c] = [series |-> s, number |-> n]
      /\ \A e \in Documents \ {d} : document'[e] = document[e]
      /\ \A o \in Clients \ {c} : counting'[o] = counting[o]
  BY <1>2 DEF NumberingInv, NumberingTypeOK
<1>5. HoldersAhead'
  <2>1. n > lastNumber[s]
    BY <1>1 DEF n
  <2> QED
    BY <1>1, <1>2, <1>4, <2>1 DEF NumberingInv, HoldersAhead
<1>6. OneHolder'
  BY <1>1, <1>2, <1>4 DEF NumberingInv, OneHolder
<1>7. \A e \in Documents : document[e].series = s => document[e].number < n
  <2> SUFFICES ASSUME NEW e \in Documents, document[e].series = s
               PROVE  document[e].number < n
    OBVIOUS
  <2>1. CASE document[e].by = None
    BY <1>1, <2>1 DEF NumberingInv, NumbersInRange, n
  <2>2. CASE document[e].by # None
    <3>1. document[e].by \in Clients /\ counting[document[e].by].series = s
      BY <2>2 DEF NumberingInv, NumberingTypeOK, Document, NumbersInRange
    <3>2. document[e].by = c
      BY <1>2, <3>1
    <3> QED
      BY <1>1, <2>2, <3>1, <3>2 DEF NumberingInv, NumbersInRange, Counted, Counting, n
  <2> QED
    BY <2>1, <2>2
<1>8. NumbersInRange'
  <2> SUFFICES ASSUME NEW e \in Documents
               PROVE  /\ document'[e].series = None => document'[e] = NoDocument
                      /\ document'[e].series # None /\ document'[e].by = None
                            => document'[e].number \in 1 .. lastNumber'[document'[e].series]
                      /\ document'[e].by # None
                            => /\ document'[e].series # None
                               /\ counting'[document'[e].by].series = document'[e].series
                               /\ document'[e].number \in
                                    lastNumber'[document'[e].series] + 1
                                      .. counting'[document'[e].by].number
    BY DEF NumbersInRange
  <2>1. CASE e = d
    BY <1>1, <1>2, <1>4, <2>1, ClientsAssumption DEF n
  <2>2. CASE e # d /\ document[e].by # c
    <3>1. document[e].by \in (Clients \ {c}) \union {None}
      BY <2>2 DEF NumberingInv, NumberingTypeOK, Document
    <3> QED
      BY <1>2, <1>4, <2>2, <3>1 DEF NumberingInv, NumbersInRange
  <2>3. CASE e # d /\ document[e].by = c
    <3>1. document[e].series = counting[c].series /\ document[e].series # None
      BY <2>3, ClientsAssumption DEF NumberingInv, NumbersInRange
    <3>2. document[e].series = s
      BY <3>1
    <3>3. document[e].number \in lastNumber[s] + 1 .. counting[c].number
          /\ counting[c].number <= n
      BY <1>1, <2>3, <3>1, <3>2, ClientsAssumption DEF NumberingInv, NumbersInRange,
         Counted, Counting, n
    <3> QED
      BY <1>1, <1>2, <1>4, <2>3, <3>2, <3>3, ClientsAssumption DEF Counting
  <2> QED
    BY <2>1, <2>2, <2>3
<1>9. NumbersAreFilled'
  <2>1. ASSUME NEW CONSTANT t, NEW CONSTANT k, NEW CONSTANT by, Taken(document, t, k, by), t # None
        PROVE  Taken(document', t, k, by)
    <3>1. PICK e \in Documents : document[e] = [series |-> t, number |-> k, by |-> by]
      BY <2>1 DEF Taken
    <3>2. e # d
      BY <1>2, <2>1, <3>1 DEF NoDocument
    <3> QED
      BY <1>4, <3>1, <3>2 DEF Taken
  <2>2. \A t \in Series : \A k \in 1 .. lastNumber'[t] : Taken(document', t, k, None)
    BY <1>2, <2>1, SeriesAssumption DEF NumberingInv, NumbersAreFilled
  <2>3. ASSUME NEW o \in Clients, counting'[o].series # None,
               NEW k \in lastNumber'[counting'[o].series] + 1 .. counting'[o].number
        PROVE  Taken(document', counting'[o].series, k, o)
    <3>1. CASE o # c
      <4>1. Taken(document, counting[o].series, k, o)
        BY <1>2, <1>4, <2>3, <3>1 DEF NumberingInv, NumbersAreFilled
      <4> QED
        BY <1>4, <2>1, <2>3, <3>1, <4>1
    <3>2. CASE o = c /\ k = n
      BY <1>4, <3>2 DEF Taken
    <3>3. CASE o = c /\ k # n
      <4>1. k \in lastNumber[s] + 1 .. Counted(c, s)
        BY <1>1, <1>2, <1>4, <2>3, <3>3 DEF n
      <4>2. counting[c].series = s
        BY <1>1, <4>1 DEF Counted
      <4>3. Taken(document, s, k, c)
        BY <1>1, <4>1, <4>2 DEF NumberingInv, NumbersAreFilled, Counted
      <4> QED
        BY <1>1, <1>4, <2>1, <3>3, <4>3
    <3> QED
      BY <3>1, <3>2, <3>3
  <2> QED
    BY <2>2, <2>3 DEF NumbersAreFilled
<1>10. NumbersAreUnique'
  <2> SUFFICES ASSUME NEW t \in Series, NEW e \in Documents, NEW f \in Documents,
                      document'[e].series = t, document'[f].series = t,
                      document'[e].number = document'[f].number
               PROVE  e = f
    BY DEF NumbersAreUnique, Numbered
  <2>1. CASE e # d /\ f # d
    BY <1>4, <2>1 DEF NumberingInv, NumbersAreUnique, Numbered
  <2>2. CASE e = d /\ f # d
    BY <1>1, <1>4, <1>7, <2>2
  <2>3. CASE e # d /\ f = d
    BY <1>1, <1>4, <1>7, <2>3
  <2> QED
    BY <2>1, <2>2, <2>3
<1> QED
  BY <1>0, <1>3, <1>5, <1>6, <1>8, <1>9, <1>10 DEF NumberingInv

\* A commit moves the counter to the number of the transaction's last document.
LEMMA NumberCommitKeeps ==
    ASSUME NumberingInv, NEW c \in Clients, CommitNumbers(c)
    PROVE  NumberingInv'
<1> DEFINE s == counting[c].series
           last == counting[c].number
<1>1. /\ s \in Series /\ s # None /\ last \in Nat /\ last > lastNumber[s]
      /\ lastNumber[s] \in Nat
  BY DEF CommitNumbers, OutsideTransaction, NumberingInv, NumberingTypeOK, HoldersAhead,
     Counting
<1>2. /\ lastNumber' = [lastNumber EXCEPT ![s] = last]
      /\ document' = [d \in Documents |-> IF document[d].by = c
                                          THEN [document[d] EXCEPT !.by = None]
                                          ELSE document[d]]
      /\ counting' = [counting EXCEPT ![c] = NotCounting]
      /\ purged' = purged
  BY DEF CommitNumbers
<1>3. /\ lastNumber'[s] = last
      /\ \A t \in Series \ {s} : lastNumber'[t] = lastNumber[t]
      /\ counting'[c] = NotCounting
      /\ \A o \in Clients \ {c} : counting'[o] = counting[o]
      /\ \A o \in Clients \ {c} : counting[o].series # s
  BY <1>1, <1>2 DEF NumberingInv, NumberingTypeOK, OneHolder
<1>4. \A d \in Documents :
         /\ document[d] \in Document
         /\ document'[d].series = document[d].series
         /\ document'[d].number = document[d].number
         /\ document'[d] = [series |-> document[d].series, number |-> document[d].number,
                            by |-> IF document[d].by = c THEN None ELSE document[d].by]
         /\ document[d].by = c => /\ document[d].series = s
                                  /\ document[d].number \in lastNumber[s] + 1 .. last
  BY <1>2, ClientsAssumption DEF NumberingInv, NumberingTypeOK, Document, NumbersInRange
<1> HIDE DEF s, last
<1>0. PurgedWereCommitted'
  BY <1>2, <1>4, ClientsAssumption DEF NumberingInv, NumberingTypeOK, PurgedWereCommitted
<1>5. NumberingTypeOK'
  BY <1>1, <1>2, <1>4 DEF NumberingInv, NumberingTypeOK, Document, Counting, NotCounting
<1>6. HoldersAhead'
  BY <1>1, <1>3 DEF NumberingInv, HoldersAhead, NumberingTypeOK, Counting, NotCounting
<1>7. OneHolder'
  BY <1>3 DEF NumberingInv, OneHolder, NotCounting
<1>8. NumbersInRange'
  <2> SUFFICES ASSUME NEW d \in Documents
               PROVE  /\ document'[d].series = None => document'[d] = NoDocument
                      /\ document'[d].series # None /\ document'[d].by = None
                            => document'[d].number \in 1 .. lastNumber'[document'[d].series]
                      /\ document'[d].by # None
                            => /\ document'[d].series # None
                               /\ counting'[document'[d].by].series = document'[d].series
                               /\ document'[d].number \in
                                    lastNumber'[document'[d].series] + 1
                                      .. counting'[document'[d].by].number
    BY DEF NumbersInRange
  <2>1. CASE document[d].by = c
    <3>1. document'[d] = [series |-> s, number |-> document[d].number, by |-> None]
          /\ document[d].number \in lastNumber[s] + 1 .. last
      BY <1>4, <2>1
    <3>2. document'[d].number \in 1 .. lastNumber'[s]
      BY <1>1, <1>3, <3>1
    <3> QED
      BY <1>1, <3>1, <3>2
  <2>2. CASE document[d].by = None
    <3>1. document'[d] = document[d]
      BY <1>2, <2>2, ClientsAssumption
    <3>2. CASE document[d].series = s
      <4>1. document'[d].number \in 1 .. lastNumber[s]
        BY <1>1, <2>2, <3>1, <3>2 DEF NumberingInv, NumbersInRange
      <4>2. document'[d].number \in 1 .. lastNumber'[s]
        BY <1>1, <1>3, <4>1
      <4> QED
        BY <1>1, <2>2, <3>1, <3>2, <4>2
    <3>3. CASE document[d].series # s
      <4>1. CASE document[d].series = None
        BY <2>2, <3>1, <4>1 DEF NumberingInv, NumbersInRange
      <4>2. CASE document[d].series \in Series \ {s}
        <5>1. lastNumber'[document[d].series] = lastNumber[document[d].series]
          BY <1>3, <4>2
        <5> QED
          BY <2>2, <3>1, <4>2, <5>1, SeriesAssumption DEF NumberingInv, NumbersInRange
      <4> QED
        BY <1>4, <3>3, <4>1, <4>2 DEF Document
    <3> QED
      BY <3>2, <3>3
  <2>3. CASE document[d].by \in Clients \ {c}
    <3>1. document'[d] = document[d] /\ document[d].series # s
      BY <1>2, <1>3, <2>3, ClientsAssumption DEF NumberingInv, NumbersInRange
    <3>2. document[d].by # None /\ document[d].series \in Series \ {s}
      BY <1>4, <2>3, <3>1, ClientsAssumption DEF NumberingInv, NumbersInRange, Document
    <3>3. /\ counting'[document[d].by] = counting[document[d].by]
          /\ lastNumber'[document[d].series] = lastNumber[document[d].series]
      BY <1>3, <2>3, <3>2
    <3> QED
      BY <3>1, <3>2, <3>3 DEF NumberingInv, NumbersInRange
  <2> QED
    BY <1>4, <2>1, <2>2, <2>3 DEF Document
<1>9. NumbersAreFilled'
  <2>1. ASSUME NEW CONSTANT t, NEW CONSTANT k, NEW CONSTANT by, by # c,
               Taken(document, t, k, by)
        PROVE  Taken(document', t, k, by)
    BY <1>2, <2>1 DEF Taken
  <2>2. ASSUME NEW t \in Series, NEW k \in 1 .. lastNumber'[t]
        PROVE  Taken(document', t, k, None)
    <3>1. CASE t # s \/ k \in 1 .. lastNumber[s]
      <4>1. Taken(document, t, k, None)
        BY <1>3, <2>2, <3>1 DEF NumberingInv, NumbersAreFilled
      <4> QED
        BY <2>1, <4>1, ClientsAssumption
    <3>2. CASE t = s /\ k \in lastNumber[s] + 1 .. last
      <4>1. Taken(document, s, k, c)
        BY <1>1, <3>2 DEF NumberingInv, NumbersAreFilled, s, last
      <4>2. PICK d \in Documents : document[d] = [series |-> s, number |-> k, by |-> c]
        BY <4>1 DEF Taken
      <4>3. document'[d] = [series |-> s, number |-> k, by |-> None]
        BY <1>4, <4>2
      <4> QED
        BY <3>2, <4>3 DEF Taken
    <3>3. k \in 1 .. lastNumber'[t]
      BY <2>2
    <3> QED
      BY <1>1, <1>3, <3>1, <3>2, <3>3
  <2>3. ASSUME NEW o \in Clients, counting'[o].series # None,
               NEW k \in lastNumber'[counting'[o].series] + 1 .. counting'[o].number
        PROVE  Taken(document', counting'[o].series, k, o)
    <3>1. o # c /\ counting'[o] = counting[o] /\ counting[o].series # s
      BY <1>3, <2>3 DEF NotCounting
    <3>2. counting[o].series \in Series
      BY <2>3, <3>1 DEF NumberingInv, NumberingTypeOK, Counting
    <3>3. Taken(document, counting[o].series, k, o)
      BY <1>3, <2>3, <3>1, <3>2 DEF NumberingInv, NumbersAreFilled
    <3> QED
      BY <2>1, <3>1, <3>3
  <2> QED
    BY <2>2, <2>3 DEF NumbersAreFilled
<1>10. NumbersAreUnique'
  <2>1. /\ \A d \in Documents : document'[d].series = document[d].series
        /\ \A d \in Documents : document'[d].number = document[d].number
    BY <1>4
  <2> QED
    BY <2>1 DEF NumberingInv, NumbersAreUnique, Numbered
<1> QED
  BY <1>0, <1>5, <1>6, <1>7, <1>8, <1>9, <1>10 DEF NumberingInv

\* A rollback takes the documents away and gives their numbers back.
LEMMA RollbackKeeps ==
    ASSUME NumberingInv, NEW c \in Clients, RollbackNumbers(c)
    PROVE  NumberingInv'
<1>1. /\ lastNumber' = lastNumber
      /\ document' = [d \in Documents |-> IF document[d].by = c
                                          THEN NoDocument
                                          ELSE document[d]]
      /\ counting' = [counting EXCEPT ![c] = NotCounting]
      /\ purged' = purged
  BY DEF RollbackNumbers, NumbersComeBack
<1>2. /\ counting'[c] = NotCounting
      /\ \A o \in Clients \ {c} : counting'[o] = counting[o]
      /\ \A d \in Documents : document[d] \in Document
  BY <1>1 DEF NumberingInv, NumberingTypeOK
<1>3. NumberingTypeOK'
  BY <1>1 DEF NumberingInv, NumberingTypeOK, Document, NoDocument, Counting, NotCounting
<1>4. HoldersAhead'
  BY <1>1, <1>2 DEF NumberingInv, HoldersAhead, NotCounting
<1>5. OneHolder'
  BY <1>1, <1>2 DEF NumberingInv, OneHolder, NotCounting
<1>6. NumbersInRange'
  <2> SUFFICES ASSUME NEW d \in Documents
               PROVE  /\ document'[d].series = None => document'[d] = NoDocument
                      /\ document'[d].series # None /\ document'[d].by = None
                            => document'[d].number \in 1 .. lastNumber'[document'[d].series]
                      /\ document'[d].by # None
                            => /\ document'[d].series # None
                               /\ counting'[document'[d].by].series = document'[d].series
                               /\ document'[d].number \in
                                    lastNumber'[document'[d].series] + 1
                                      .. counting'[document'[d].by].number
    BY DEF NumbersInRange
  <2>1. CASE document[d].by = c
    BY <1>1, <2>1 DEF NoDocument
  <2>2. CASE document[d].by # c
    BY <1>1, <1>2, <2>2 DEF NumberingInv, NumbersInRange, Document
  <2> QED
    BY <2>1, <2>2
<1>7. NumbersAreFilled'
  <2>1. ASSUME NEW CONSTANT t, NEW CONSTANT k, NEW CONSTANT by, by # c,
               Taken(document, t, k, by)
        PROVE  Taken(document', t, k, by)
    BY <1>1, <2>1 DEF Taken
  <2>2. \A t \in Series : \A k \in 1 .. lastNumber'[t] : Taken(document', t, k, None)
    BY <1>1, <2>1, ClientsAssumption DEF NumberingInv, NumbersAreFilled
  <2>3. ASSUME NEW o \in Clients, counting'[o].series # None,
               NEW k \in lastNumber'[counting'[o].series] + 1 .. counting'[o].number
        PROVE  Taken(document', counting'[o].series, k, o)
    <3>1. o # c /\ counting'[o] = counting[o]
      BY <1>2, <2>3 DEF NotCounting
    <3>2. Taken(document, counting[o].series, k, o)
      BY <1>1, <2>3, <3>1 DEF NumberingInv, NumbersAreFilled
    <3> QED
      BY <2>1, <3>1, <3>2
  <2> QED
    BY <2>2, <2>3 DEF NumbersAreFilled
<1>8. NumbersAreUnique'
  BY <1>1, SeriesAssumption DEF NumberingInv, NumbersAreUnique, Numbered, NoDocument
<1>9. PurgedWereCommitted'
  BY <1>1, ClientsAssumption DEF NumberingInv, NumberingTypeOK, PurgedWereCommitted
<1> QED
  BY <1>3, <1>4, <1>5, <1>6, <1>7, <1>8, <1>9 DEF NumberingInv

\* Deleting documents for good leaves the counters and the numbers.
LEMMA PurgeKeeps ==
    ASSUME NumberingInv, NEW d \in Documents, DeleteForGood(d)
    PROVE  /\ NumberingInv'
           /\ purged \subseteq purged'
           /\ \A e \in purged' \ purged :
                 \E s \in SeriesOfTypes(TrashableTypes) : e \in Committed(s)
<1>1. /\ UNCHANGED <<lastNumber, document, counting>>
      /\ \E s \in SeriesOfTypes(TrashableTypes) : d \in Committed(s)
  BY DEF DeleteForGood, Kept
<1>2. PICK below \in SUBSET UNION {Kept(s) : s \in SeriesOf["work_item"]} :
         purged' = purged \union {d} \union below
  BY DEF DeleteForGood
<1>3. \A e \in below : \E s \in SeriesOfTypes(TrashableTypes) : e \in Committed(s)
  BY ErasableAreSeries DEF Kept
<1>4. \A e \in purged' \ purged : \E s \in SeriesOfTypes(TrashableTypes) : e \in Committed(s)
  BY <1>1, <1>2, <1>3
<1>5. NumberingTypeOK' /\ PurgedWereCommitted'
  BY <1>1, <1>2, <1>4 DEF NumberingInv, NumberingTypeOK, PurgedWereCommitted, Committed, Numbered
<1>6. /\ HoldersAhead' /\ OneHolder' /\ NumbersInRange' /\ NumbersAreFilled'
      /\ NumbersAreUnique'
  BY <1>1 DEF NumberingInv, HoldersAhead, OneHolder, NumbersInRange, NumbersAreFilled,
     Taken, NumbersAreUnique, Numbered
<1> QED
  BY <1>2, <1>4, <1>5, <1>6 DEF NumberingInv

-----------------------------------------------------------------------------
\* The inductive invariant of NumberingService.next and its callers.
THEOREM NumberingInvariant == NumberingSpec => []NumberingInv
<1>1. NumberingInv /\ [NumberingNext]_numberingVars => NumberingInv'
  <2> SUFFICES ASSUME NumberingInv, [NumberingNext]_numberingVars
               PROVE  NumberingInv'
    OBVIOUS
  <2>1. ASSUME NEW c \in Clients, NEW d \in Documents,
               \/ CreateRequest(c, d) \/ FollowUpDecision(c, d) \/ CreateLetter(c, d)
               \/ NumberBudget(c, d) \/ NumberItem(c, d)
        PROVE  NumberingInv'
    <3>1. PICK s \in Series : counting[c].series \in {None, s} /\ Number(c, s, d)
      BY <2>1, SeriesAssumption
         DEF CreateRequest, FollowUpDecision, CreateLetter, NumberBudget, NumberItem,
             OutsideTransaction, NotCounting, Types
    <3> QED
      BY <3>1, NumberKeeps
  <2>2. ASSUME NEW c \in Clients, NEW d \in Documents, CreateWorkItem(c, d)
        PROVE  NumberingInv'
    BY <2>2, NumberKeeps, SeriesAssumption DEF CreateWorkItem, Types
  <2>3. ASSUME NEW c \in Clients, CommitNumbers(c)
        PROVE  NumberingInv'
    BY <2>3, NumberCommitKeeps
  <2>4. ASSUME NEW c \in Clients, RollbackNumbers(c)
        PROVE  NumberingInv'
    BY <2>4, RollbackKeeps
  <2>5. CASE UNCHANGED numberingVars
    BY <2>5 DEF numberingVars, NumberingInv, NumberingTypeOK, HoldersAhead, OneHolder,
                NumbersInRange, NumbersAreFilled, NumbersAreUnique, Numbered, Taken,
                PurgedWereCommitted
  <2>6. ASSUME NEW d \in Documents, DeleteForGood(d)
        PROVE  NumberingInv'
    BY <2>6, PurgeKeeps
  <2> QED
    BY <2>1, <2>2, <2>3, <2>4, <2>5, <2>6 DEF NumberingNext
<1> QED
  BY <1>1, NumberingStart, PTL DEF NumberingSpec

\* Two documents of a series never have the same number, also if one of them has been
\* deleted for good in between.
THEOREM UniqueNumbers == NumberingSpec => []NumbersAreUnique
BY NumberingInvariant, PTL DEF NumberingInv

\* The numbers of a series, from 1 up to its counter, are those of its committed
\* documents and of those deleted for good, which a budget never is.
THEOREM NoGaps == NumberingSpec => []NoNumberIsMissing
<1>1. NumberingInv => NoNumberIsMissing
  <2> SUFFICES ASSUME NumberingInv, NEW s \in Series
               PROVE  LET left == {document[d].number : d \in Kept(s)}
                          gone == {document[d].number : d \in Committed(s) \cap purged}
                      IN /\ left \union gone = 1 .. lastNumber[s]
                         /\ left \cap gone = {}
                         /\ s \in SeriesOf["budget"] => gone = {}
    BY DEF NoNumberIsMissing
  <2> DEFINE left == {document[d].number : d \in Kept(s)}
             gone == {document[d].number : d \in Committed(s) \cap purged}
  <2>1. ASSUME NEW d \in Committed(s)
        PROVE  document[d].number \in 1 .. lastNumber[s]
    BY SeriesAssumption DEF NumberingInv, NumbersInRange, Committed, Numbered
  <2>2. ASSUME NEW n \in 1 .. lastNumber[s]
        PROVE  \E d \in Committed(s) : document[d].number = n
    <3>1. PICK d \in Documents : document[d] = [series |-> s, number |-> n, by |-> None]
      BY <2>2 DEF NumberingInv, NumbersAreFilled, Taken
    <3> QED
      BY <3>1 DEF Committed, Numbered
  <2>3. left \union gone = 1 .. lastNumber[s]
    BY <2>1, <2>2 DEF Kept
  <2>4. left \cap gone = {}
    <3>1. ASSUME NEW d \in Kept(s), NEW e \in Committed(s) \cap purged,
                 document[d].number = document[e].number
          PROVE  FALSE
      BY <3>1 DEF NumberingInv, NumbersAreUnique, Kept, Committed
    <3> QED
      BY <3>1
  <2>5. s \in SeriesOf["budget"] => gone = {}
    BY ErasableAreSeries DEF NumberingInv, PurgedWereCommitted, Committed, Numbered
  <2> QED
    BY <2>3, <2>4, <2>5
<1> QED
  BY <1>1, NumberingInvariant, PTL

-----------------------------------------------------------------------------
(* The book: a committed document is never touched again, and the book has *)
(* one line for each number up to the counter.                             *)

IsLine(s, n, d) == d \in Committed(s) /\ document[d].number = n

BookLines ==
    \A s \in Series :
        /\ Booked[s] \in [1 .. lastNumber[s] -> Documents]
        /\ \A n \in 1 .. lastNumber[s] : IsLine(s, n, Booked[s][n])

\* The committed numbers of a series are the lines of a book.
LEMMA LinesOfTheBook == NumberingInv => BookLines
<1> SUFFICES ASSUME NumberingInv, NEW s \in Series
             PROVE  /\ Booked[s] \in [1 .. lastNumber[s] -> Documents]
                    /\ \A n \in 1 .. lastNumber[s] : IsLine(s, n, Booked[s][n])
  BY DEF BookLines
<1>1. {document[d].number : d \in Committed(s)} = 1 .. lastNumber[s]
  <2>1. ASSUME NEW d \in Committed(s)
        PROVE  document[d].number \in 1 .. lastNumber[s]
    BY SeriesAssumption DEF NumberingInv, NumbersInRange, Committed, Numbered
  <2>2. ASSUME NEW n \in 1 .. lastNumber[s]
        PROVE  \E d \in Committed(s) : document[d].number = n
    <3>1. PICK d \in Documents : document[d] = [series |-> s, number |-> n, by |-> None]
      BY DEF NumberingInv, NumbersAreFilled, Taken
    <3> QED
      BY <3>1 DEF Committed, Numbered
  <2> QED
    BY <2>1, <2>2
<1>2. Booked[s] = [n \in 1 .. lastNumber[s] |->
                     CHOOSE d \in Committed(s) : document[d].number = n]
  BY <1>1 DEF Booked
<1>3. ASSUME NEW n \in 1 .. lastNumber[s]
      PROVE  IsLine(s, n, Booked[s][n])
  <2>1. \E d \in Committed(s) : document[d].number = n
    BY <1>1
  <2>2. Booked[s][n] = CHOOSE d \in Committed(s) : document[d].number = n
    BY <1>2
  <2> QED
    BY <2>1, <2>2 DEF IsLine
<1> QED
  BY <1>2, <1>3 DEF IsLine, Committed, Numbered

\* A document that is entered twice would be on two lines, with two numbers.
LEMMA BookIsWellKept == NumberingInv => Book!WellKept
<1> SUFFICES ASSUME NumberingInv
             PROVE  Book!WellKept
  OBVIOUS
<1>1. BookLines
  BY LinesOfTheBook
<1>2. \A s \in Series : lastNumber[s] \in Nat
  BY DEF NumberingInv, NumberingTypeOK
<1>3. \A s \in Series : Booked[s] \in Seq(Documents)
  BY <1>1, <1>2, SeqDef DEF BookLines
<1>4. Booked \in [Series -> Seq(Documents)]
  BY <1>3 DEF Booked
<1>5. ASSUME NEW s \in Series, NEW t \in Series,
             NEW m \in DOMAIN Booked[s], NEW n \in DOMAIN Booked[t],
             Booked[s][m] = Booked[t][n]
      PROVE  s = t /\ m = n
  <2>1. m \in 1 .. lastNumber[s] /\ n \in 1 .. lastNumber[t]
    BY <1>1 DEF BookLines
  <2> QED
    BY <1>1, <1>5, <2>1 DEF BookLines, IsLine, Committed, Numbered
<1> QED
  BY <1>4, <1>5 DEF Book!WellKept

\* Every committed document is on a line of its series, also when it is gone.
LEMMA CommittedAreEntered ==
    ASSUME NumberingInv, NEW s \in Series, NEW d \in Committed(s)
    PROVE  d \in Book!Entries(s)
<1> DEFINE n == document[d].number
<1>1. d \in Documents /\ document[d].series = s /\ document[d].by = None
  BY DEF Committed, Numbered
<1>2. n \in 1 .. lastNumber[s]
  BY <1>1, SeriesAssumption DEF NumberingInv, NumbersInRange
<1>3. /\ Booked[s] \in [1 .. lastNumber[s] -> Documents]
      /\ IsLine(s, n, Booked[s][n])
  BY <1>2, LinesOfTheBook DEF BookLines
<1>4. Booked[s][n] = d
  BY <1>1, <1>3 DEF IsLine, Committed, Numbered, NumberingInv, NumbersAreUnique
<1> QED
  BY <1>2, <1>3, <1>4 DEF Book!Entries

CommittedStay ==
    \A s \in Series : \A d \in Committed(s) : document'[d] = document[d]

\* Numbering touches a row that was no document, the end of a transaction the
\* documents of that transaction.
LEMMA CommittedDocumentsStay ==
    ASSUME NumberingInv, NumberingNext, ~\E d \in Documents : DeleteForGood(d)
    PROVE  /\ CommittedStay
           /\ purged' = purged
           /\ \/ lastNumber' = lastNumber
              \/ \E s \in Series : \A t \in Series \ {s} : lastNumber'[t] = lastNumber[t]
<1>1. ASSUME NEW c \in Clients, NEW s \in Series, NEW d \in Documents, Number(c, s, d)
      PROVE  CommittedStay /\ lastNumber' = lastNumber /\ purged' = purged
  BY <1>1, SeriesAssumption
     DEF CommittedStay, Committed, Numbered, Number, NoDocument, NumberingInv, NumberingTypeOK
<1>2. ASSUME NEW c \in Clients, CommitNumbers(c)
      PROVE  /\ CommittedStay /\ purged' = purged
             /\ \E s \in Series : \A t \in Series \ {s} : lastNumber'[t] = lastNumber[t]
  <2>1. CommittedStay
    BY <1>2, ClientsAssumption
       DEF CommittedStay, Committed, Numbered, CommitNumbers, NumberingInv, NumberingTypeOK
  <2>2. counting[c].series \in Series
    BY <1>2 DEF CommitNumbers, OutsideTransaction, NumberingInv, NumberingTypeOK,
       HoldersAhead, Counting
  <2>3. \A t \in Series \ {counting[c].series} : lastNumber'[t] = lastNumber[t]
    BY <1>2 DEF CommitNumbers, NumberingInv, NumberingTypeOK
  <2> QED
    BY <1>2, <2>1, <2>2, <2>3 DEF CommitNumbers
<1>3. ASSUME NEW c \in Clients, RollbackNumbers(c)
      PROVE  CommittedStay /\ lastNumber' = lastNumber /\ purged' = purged
  BY <1>3, ClientsAssumption
     DEF CommittedStay, Committed, Numbered, RollbackNumbers, NumbersComeBack, NumberingInv,
         NumberingTypeOK
<1>4. ASSUME NEW c \in Clients, NEW d \in Documents,
             \/ CreateRequest(c, d) \/ CreateWorkItem(c, d)
             \/ FollowUpDecision(c, d) \/ CreateLetter(c, d)
             \/ NumberBudget(c, d) \/ NumberItem(c, d)
      PROVE  \E s \in Series : Number(c, s, d)
  BY <1>4, SeriesAssumption
     DEF CreateRequest, CreateWorkItem, FollowUpDecision, CreateLetter, NumberBudget,
         NumberItem, Types
<1> QED
  BY <1>1, <1>2, <1>3, <1>4 DEF NumberingNext

\* A line holds the one document that has its number.
LEMMA LinesStay ==
    ASSUME NumberingInv, NumberingInv', BookLines, BookLines', CommittedStay,
           NEW s \in Series, NEW n \in 1 .. lastNumber[s]
    PROVE  /\ n \in 1 .. lastNumber'[s]
           /\ Booked'[s][n] = Booked[s][n]
<1> DEFINE d == Booked[s][n]
<1>1. d \in Documents /\ document[d].series = s /\ document[d].by = None
        /\ document[d].number = n
  BY DEF BookLines, IsLine, Committed, Numbered
<1>2. document'[d] = document[d]
  BY <1>1 DEF CommittedStay, Committed, Numbered
<1>3. n \in 1 .. lastNumber'[s]
  BY <1>1, <1>2, SeriesAssumption DEF NumberingInv, NumbersInRange
<1>4. /\ Booked'[s][n] \in Documents
      /\ document'[Booked'[s][n]].series = s
      /\ document'[Booked'[s][n]].number = n
  BY <1>3 DEF BookLines, IsLine, Committed, Numbered
<1> QED
  BY <1>1, <1>2, <1>3, <1>4 DEF NumberingInv, NumbersAreUnique, Numbered

\* Numbering keeps the book of NumberBook: a step enters documents at the end of
\* one series, strikes some out that may be, or leaves the book as it is.
THEOREM NumberingKeepsTheBook == NumberingSpec => KeepsTheBook
<1>1. NumberingInit => Book!BookInit
  BY SeriesAssumption DEF NumberingInit, Book!BookInit, Booked, Committed, Numbered,
     NoDocument
<1>2. NumberingInv /\ NumberingInv' /\ BookLines /\ BookLines' /\ Book!WellKept' /\ [NumberingNext]_numberingVars
        => [Book!BookNext]_<<Booked, purged>>
  <2> SUFFICES ASSUME NumberingInv, NumberingInv', BookLines, BookLines', Book!WellKept',
                      [NumberingNext]_numberingVars
               PROVE  Book!BookNext \/ (Booked' = Booked /\ purged' = purged)
    OBVIOUS
  <2>1. CASE UNCHANGED numberingVars
    BY <2>1 DEF numberingVars, Booked, Committed, Numbered
  <2>2. ASSUME NEW d \in Documents, DeleteForGood(d)
        PROVE  Book!BookNext \/ (Booked' = Booked /\ purged' = purged)
    <3>1. Booked' = Booked
      BY <2>2 DEF DeleteForGood, Booked, Committed, Numbered
    <3>2. ASSUME NEW e \in purged' \ purged
          PROVE  e \in UNION {Book!Entries(s) : s \in SeriesOfTypes(TrashableTypes)}
      <4>1. PICK s \in SeriesOfTypes(TrashableTypes) : e \in Committed(s)
        BY <2>2, PurgeKeeps
      <4>2. s \in Series
        BY ErasableAreSeries
      <4>3. e \in Book!Entries(s)
        BY <4>1, <4>2, CommittedAreEntered
      <4> QED
        BY <4>3
    <3>3. purged \subseteq purged'
      BY <2>2, PurgeKeeps
    <3> QED
      BY <3>1, <3>2, <3>3 DEF Book!BookNext, Book!StrikeOut
  <2>3. CASE NumberingNext /\ ~\E d \in Documents : DeleteForGood(d)
    <3>1. /\ CommittedStay
          /\ purged' = purged
          /\ \/ lastNumber' = lastNumber
             \/ \E s \in Series : \A t \in Series \ {s} : lastNumber'[t] = lastNumber[t]
      BY <2>3, CommittedDocumentsStay
    <3>2. \A s \in Series : \A n \in 1 .. lastNumber[s] :
             n \in 1 .. lastNumber'[s] /\ Booked'[s][n] = Booked[s][n]
      BY <3>1, LinesStay
    <3>3. \A s \in Series : /\ Booked[s] \in [1 .. lastNumber[s] -> Documents]
                           /\ Booked'[s] \in [1 .. lastNumber'[s] -> Documents]
      BY DEF BookLines
    <3>4. ASSUME NEW s \in Series, lastNumber'[s] = lastNumber[s]
          PROVE  Booked'[s] = Booked[s]
      <4>1. /\ Booked[s] = [n \in 1 .. lastNumber[s] |-> Booked[s][n]]
            /\ Booked'[s] = [n \in 1 .. lastNumber[s] |-> Booked'[s][n]]
        BY <3>3, <3>4
      <4>2. \A n \in 1 .. lastNumber[s] : Booked'[s][n] = Booked[s][n]
        BY <3>2
      <4> QED
        BY <4>1, <4>2
    <3>5. CASE lastNumber' = lastNumber
      <4>1. \A s \in Series : Booked'[s] = Booked[s]
        BY <3>4, <3>5
      <4> QED
        BY <3>1, <4>1 DEF Booked
    <3>6. ASSUME NEW s \in Series, \A t \in Series \ {s} : lastNumber'[t] = lastNumber[t]
          PROVE  Book!BookNext \/ (Booked' = Booked /\ purged' = purged)
      <4>1. \A t \in Series \ {s} : Booked'[t] = Booked[t]
        BY <3>4, <3>6
      <4>2. \A n \in DOMAIN Booked[s] : n \in DOMAIN Booked'[s] /\ Booked'[s][n] = Booked[s][n]
        BY <3>2, <3>3
      <4>3. Booked' # Booked => Book!Enter(s)
        BY <3>1, <4>1, <4>2 DEF Book!Enter
      <4> QED
        BY <3>1, <4>3 DEF Book!BookNext
    <3> QED
      BY <3>1, <3>5, <3>6
  <2> QED
    BY <2>1, <2>2, <2>3
<1> QED
  BY <1>1, <1>2, NumberingInvariant, LinesOfTheBook, BookIsWellKept, PTL
     DEF NumberingSpec, KeepsTheBook, Book!BookSpec, Book!bookVars
=============================================================================
