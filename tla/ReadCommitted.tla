---------------------------- MODULE ReadCommitted ----------------------------
(***************************************************************************)
(* What the API's handlers may count on from a Postgres table at READ      *)
(* COMMITTED, the isolation level every transaction of the API runs at: a  *)
(* statement sees the rows committed by the time it starts and its own     *)
(* transaction's writes; an UPDATE, an INSERT or a DELETE locks its row    *)
(* until the transaction ends and waits for a lock another one holds.      *)
(*                                                                         *)
(* The module has no behaviour of its own: the modules that extend it say  *)
(* which statements the handlers make.                                     *)
(***************************************************************************)
CONSTANTS Rows,      \* the rows of the table
          Handlers,  \* calls of the API that run at the same time
          None       \* SQL null, and the owner of a free row lock

ASSUME NoneAssumption == None \notin Rows \union Handlers

VARIABLES table,     \* the committed row
          dirty,     \* the uncommitted version of a locked row
          lock       \* the handler whose transaction has written the row

tableVars == <<table, dirty, lock>>

Visible(h, r) == IF lock[r] = h THEN dirty[r] ELSE table[r]

CanLock(h, r) == lock[r] \in {None, h}

\* An INSERT or UPDATE of one row.
Write(h, r, row) ==
    /\ lock' = [lock EXCEPT ![r] = h]
    /\ dirty' = [dirty EXCEPT ![r] = row]
    /\ UNCHANGED table

\* A statement outside any transaction: one row, at once.
WriteThrough(r, row) ==
    /\ lock[r] = None
    /\ table' = [table EXCEPT ![r] = row]
    /\ dirty' = [dirty EXCEPT ![r] = row]
    /\ UNCHANGED lock

Released(h) == [r \in Rows |-> IF lock[r] = h THEN None ELSE lock[r]]

CommitRows(h) ==
    /\ table' = [r \in Rows |-> Visible(h, r)]
    /\ lock' = Released(h)
    /\ UNCHANGED dirty

RollbackRows(h) ==
    /\ dirty' = [r \in Rows |-> IF lock[r] = h THEN table[r] ELSE dirty[r]]
    /\ lock' = Released(h)
    /\ UNCHANGED table

\* The handlers that wait for one another when needs[g] are the rows the next
\* statement of g asks for; one that is on a cycle may be aborted.
OnCycle(h, needs) ==
    LET Waits(g, f) == g # f /\ \E r \in needs[g] : lock[r] = f IN
    \E S \in SUBSET Handlers :
        /\ h \in S
        /\ \A g \in S : /\ \E f \in S : Waits(g, f)
                        /\ \E f \in S : Waits(f, g)
=============================================================================
