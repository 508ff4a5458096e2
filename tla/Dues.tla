-------------------------------- MODULE Dues --------------------------------
(***************************************************************************)
(* DuesService for the dues of one member and period: the payments, and    *)
(* the amount paid and the status kept beside them.                        *)
(*                                                                         *)
(* addPayment and removePayment read the dues, then run a transaction of   *)
(* three statements: the payment's INSERT or DELETE, the SELECT of all     *)
(* payments, and the UPDATE of the dues by id.  Nothing locks the dues     *)
(* before that UPDATE, which is the last statement before the commit.      *)
(*                                                                         *)
(* The amount of a payment never changes, so paid_amount is kept as the    *)
(* set of payments it is the sum of.                                       *)
(***************************************************************************)
EXTENDS Integers, FiniteSets, Functions

CONSTANTS Treasurers,  \* calls that may run at the same time
          Payments,    \* rows of member_payments that may be inserted
          Amount,      \* of each payment
          Targets,     \* what target_amount may be
          Nobody       \* no transaction

ASSUME AmountAssumption == Amount \in [Payments -> Nat \ {0}] /\ Targets \subseteq Nat
ASSUME TreasurersAssumption == Nobody \notin Treasurers

VARIABLES
    dues,     \* the row of member_dues, as committed
    payment,  \* the payments, what running transactions did to them included
    paying    \* what each call is doing

duesVars == <<dues, payment, paying>>

-----------------------------------------------------------------------------
DuesStatuses == {"unpaid", "installment", "paid"}
DuesRow == [present: BOOLEAN, target: Nat, paid: SUBSET Payments, status: DuesStatuses]
NoDues == [present |-> FALSE, target |-> 0, paid |-> {}, status |-> "unpaid"]

\* by: the transaction that has inserted or deleted the row and not yet ended.
Payment == [state: {"new", "recorded", "removed"}, verified: BOOLEAN,
            by: Treasurers \union {Nobody}]
NoPayment == [state |-> "new", verified |-> FALSE, by |-> Nobody]

\* target, sum: what the call has read; alone: no other call has run since
\* this one began (history).
Paying == [step: {"add", "remove", "sum", "write"}, payment: Payments,
           target: Nat, sum: SUBSET Payments, alone: BOOLEAN]
NotPaying == [step |-> "idle"]

DuesTypeOK ==
    /\ dues \in DuesRow
    /\ payment \in [Payments -> Payment]
    /\ paying \in [Treasurers -> Paying \union {NotPaying}]

DuesInit ==
    /\ dues = NoDues
    /\ payment = [p \in Payments |-> NoPayment]
    /\ paying = [c \in Treasurers |-> NotPaying]

-----------------------------------------------------------------------------
CommittedPayments == {p \in Payments : \/ payment[p].state = "recorded" /\ payment[p].by = Nobody
                                       \/ payment[p].state = "removed" /\ payment[p].by # Nobody}

\* The payments a SELECT of the call sees: READ COMMITTED, and its own.
SeenBy(c) == {p \in Payments : IF payment[p].by = c
                               THEN payment[p].state = "recorded"
                               ELSE p \in CommittedPayments}

Reaches(paid, target) ==
    paid # {} /\ target > 0 /\ SumFunctionOnSet(Amount, paid) >= target

\* A payment is above zero, so only no payment sums to zero.
StatusOrNone(paid, target) ==
    IF paid = {} THEN Nobody ELSE IF Reaches(paid, target) THEN "paid" ELSE "installment"

StatusFor(paid, target) ==
    IF paid = {} THEN "unpaid" ELSE IF Reaches(paid, target) THEN "paid" ELSE "installment"

\* History: the calls under way are no longer alone.
Busy == {c \in Treasurers : paying[c].step # "idle"}
Disturbed == [c \in Treasurers |-> IF c \in Busy
                                   THEN [paying[c] EXCEPT !.alone = FALSE]
                                   ELSE NotPaying]

-----------------------------------------------------------------------------
\* A second row for the same member and period breaks a unique index.
CreateDues(target) ==
    /\ ~dues.present
    /\ dues' = [NoDues EXCEPT !.present = TRUE, !.target = target]
    /\ UNCHANGED <<payment, paying>>

\* The status stays as it is.
UpdateTarget(target) ==
    /\ dues.present
    /\ dues' = [dues EXCEPT !.target = target]
    /\ paying' = Disturbed
    /\ UNCHANGED payment

VerifyPayment(p) ==
    /\ payment[p].state = "recorded" /\ payment[p].by = Nobody
    /\ payment' = [payment EXCEPT ![p].verified = TRUE]
    /\ UNCHANGED <<dues, paying>>

\* findOne: the target is read before the transaction.
StartPaying(c, step, p) ==
    /\ dues.present
    /\ c \notin Busy
    /\ paying' = [Disturbed EXCEPT ![c] =
                    [step |-> step, payment |-> p, target |-> dues.target,
                     sum |-> {}, alone |-> (Busy = {})]]
    /\ UNCHANGED <<dues, payment>>

\* An id is given out once.
StartAddPayment(c, p) ==
    /\ \A o \in Busy : paying[o].payment # p
    /\ payment[p].state = "new"
    /\ StartPaying(c, "add", p)

StartRemovePayment(c, p) ==
    /\ p \in CommittedPayments
    /\ StartPaying(c, "remove", p)

AddPayment(c) ==
    /\ paying[c].step = "add"
    /\ payment' = [payment EXCEPT ![paying[c].payment] =
                     [state |-> "recorded", verified |-> FALSE, by |-> c]]
    /\ paying' = [paying EXCEPT ![c].step = "sum"]
    /\ UNCHANGED dues

\* DELETE waits for another transaction that is deleting the row, and may then
\* find none: the call ends with 404.
RemovePayment(c) ==
    LET p == paying[c].payment IN
    /\ paying[c].step = "remove"
    /\ payment[p].by = Nobody
    /\ IF payment[p].state = "recorded"
       THEN /\ payment' = [payment EXCEPT ![p].state = "removed", ![p].by = c]
            /\ paying' = [paying EXCEPT ![c].step = "sum"]
       ELSE /\ paying' = [paying EXCEPT ![c] = NotPaying]
            /\ UNCHANGED payment
    /\ UNCHANGED dues

\* recalcDues: the SELECT.
SumCommitted(c) == CommittedPayments
SumSeen(c) == SeenBy(c)

SumPayments(c) ==
    /\ paying[c].step = "sum"
    /\ paying' = [paying EXCEPT ![c].step = "write", ![c].sum = SumSeen(c)]
    /\ UNCHANGED <<dues, payment>>

\* What a transaction leaves of a payment when it ends.
CommittedPayment(c, p) ==
    IF payment[p].by = c THEN [payment[p] EXCEPT !.by = Nobody] ELSE payment[p]

RolledBackPayment(c, p) ==
    CASE payment[p].by = c /\ payment[p].state = "removed" ->
            [payment[p] EXCEPT !.state = "recorded", !.by = Nobody]
      [] payment[p].by = c /\ payment[p].state # "removed" -> NoPayment
      [] OTHER -> payment[p]

\* recalcDues: the UPDATE, and the commit.
Recalculated(c) == [dues EXCEPT !.paid = paying[c].sum,
                                !.status = StatusFor(paying[c].sum, paying[c].target)]

WriteDues(c) ==
    /\ paying[c].step = "write"
    /\ dues' = Recalculated(c)
    /\ payment' = [p \in Payments |-> CommittedPayment(c, p)]
    /\ paying' = [paying EXCEPT ![c] = NotPaying]

\* An error, or an instance that stops.
FailPaying(c) ==
    /\ c \in Busy
    /\ payment' = [p \in Payments |-> RolledBackPayment(c, p)]
    /\ paying' = [paying EXCEPT ![c] = NotPaying]
    /\ UNCHANGED dues

DuesNext ==
    \/ \E target \in Targets : CreateDues(target) \/ UpdateTarget(target)
    \/ \E p \in Payments : VerifyPayment(p)
    \/ \E c \in Treasurers :
          \/ \E p \in Payments : StartAddPayment(c, p) \/ StartRemovePayment(c, p)
          \/ AddPayment(c) \/ RemovePayment(c)
          \/ SumPayments(c) \/ WriteDues(c) \/ FailPaying(c)

DuesSpec == DuesInit /\ [][DuesNext]_duesVars

-----------------------------------------------------------------------------
\* A call that has run alone leaves the sum of the payments and the status that
\* goes with it, whatever it found: what concurrent calls have spoilt stays
\* spoilt only until the next payment.
AloneLeavesTheSum ==
    [][\A c \in Treasurers :
          WriteDues(c) /\ paying[c].alone
          => /\ dues'.paid = CommittedPayments'
             /\ dues'.status = StatusFor(dues'.paid, dues'.target)]_duesVars

\* The status says unpaid exactly while the amount paid is zero, concurrent
\* calls and changes of the target included.
UnpaidMeansNothingPaid == dues.status = "unpaid" <=> dues.paid = {}

\* What schema/finance.ts says of the amount: there is no moment when it is not
\* the sum of the payments.
PaidIsTheSum ==
    SumFunctionOnSet(Amount, dues.paid) = SumFunctionOnSet(Amount, CommittedPayments)
=============================================================================
