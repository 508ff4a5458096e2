-------------------------- MODULE OrganizationRows ---------------------------
(***************************************************************************)
(* The columns of the organisation's rows: OrganizationService's creates,  *)
(* updates and removals of periods, divisions, clusters and subunits.      *)
(* (Organization has what refers to them and which period is active.)      *)
(*                                                                         *)
(* None of the handlers has a transaction, and the tables have no version  *)
(* column: between the SELECTs that check and the statement that writes,   *)
(* another owner's call may write.                                         *)
(***************************************************************************)
EXTENDS Integers, FiniteSets

CONSTANTS Rows,    \* ids of rows
          Codes,   \* what their code may be
          Days,    \* the dates a period may start and end on
          Created, \* bodies of a create: each names all columns of a table
          Sets,    \* bodies of an update: each names some
          Keepers  \* calls that may run at the same time

VARIABLES
    table,  \* the table the rows are in
    unit,   \* the rows
    keeping \* what each call is doing

rowVars == <<table, unit, keeping>>

-----------------------------------------------------------------------------
(* The tables, with the columns that matter here.                          *)

UnitTable(name, columns) == [name |-> name, columns |-> columns]

PeriodsRows   == UnitTable("periods", {"code", "startsOn", "endsOn"})
DivisionsRows == UnitTable("divisions", {"code"})
ClustersRows  == UnitTable("clusters", {"code"})
SubunitsRows  == UnitTable("subunits", {"code"})
UnitTables    == {PeriodsRows, DivisionsRows, ClustersRows, SubunitsRows}

NoColumns == [column \in {} |-> 0]
ValuesOf(column) == IF column = "code" THEN Codes ELSE Days
IsBody(body, columns) ==
    DOMAIN body = columns /\ \A column \in columns : body[column] \in ValuesOf(column)

ASSUME DaysAssumption == Days \subseteq Nat
ASSUME BodiesAssumption ==
    /\ \A body \in Created : \E t \in UnitTables : IsBody(body, t.columns)
    /\ \A body \in Sets : DOMAIN body # {} /\ IsBody(body, DOMAIN body)

-----------------------------------------------------------------------------
(* The handlers.  asks: "order", the period starts before it ends.         *)

UnitHandler(name, does, asks) == [table |-> name, does |-> does, asks |-> asks]

UpdatePeriodUnordered == UnitHandler("periods", "update", {})
CreatePeriodRow   == UnitHandler("periods", "create", {"order"})
UpdatePeriodRow   == UnitHandler("periods", "update", {"order"})
RemovePeriodRow   == UnitHandler("periods", "remove", {})
CreateDivisionRow == UnitHandler("divisions", "create", {})
UpdateDivisionRow == UnitHandler("divisions", "update", {})
RemoveDivisionRow == UnitHandler("divisions", "remove", {})
CreateClusterRow  == UnitHandler("clusters", "create", {})
UpdateClusterRow  == UnitHandler("clusters", "update", {})
RemoveClusterRow  == UnitHandler("clusters", "remove", {})
CreateSubunitRow  == UnitHandler("subunits", "create", {})
UpdateSubunitRow  == UnitHandler("subunits", "update", {})
RemoveSubunitRow  == UnitHandler("subunits", "remove", {})

UnitHandlers ==
    {CreatePeriodRow, UpdatePeriodRow, RemovePeriodRow,
     CreateDivisionRow, UpdateDivisionRow, RemoveDivisionRow,
     CreateClusterRow, UpdateClusterRow, RemoveClusterRow,
     CreateSubunitRow, UpdateSubunitRow, RemoveSubunitRow}

-----------------------------------------------------------------------------
(* body: the columns the call brings.  overtaken: the row has been written *)
(* since the call's SELECT (history).                                      *)

Keeping == [step: {"code", "write"}, handler: UnitHandlers, id: Rows,
            body: Created \union Sets \union {NoColumns}, overtaken: BOOLEAN]
NotKeeping == [step |-> "idle"]

RowsTypeOK ==
    /\ table \in UnitTables
    /\ \A i \in Rows : unit[i] = NoColumns \/ IsBody(unit[i], table.columns)
    /\ keeping \in [Keepers -> Keeping \union {NotKeeping}]

RowsInit ==
    /\ table \in UnitTables
    /\ unit = [i \in Rows |-> NoColumns]
    /\ keeping = [c \in Keepers |-> NotKeeping]

BeginKeeping(c, step, h, i, body) ==
    /\ keeping[c] = NotKeeping
    /\ keeping' = [keeping EXCEPT ![c] = [step |-> step, handler |-> h, id |-> i,
                                          body |-> body, overtaken |-> FALSE]]
    /\ UNCHANGED <<table, unit>>

\* The row with the body's columns in place of its own.
WithBody(body, old) ==
    [column \in DOMAIN old |-> IF column \in DOMAIN body THEN body[column] ELSE old[column]]

PeriodOrder(period) == period.startsOn < period.endsOn
Asked(h, merged) == "order" \in h.asks => PeriodOrder(merged)

StartCreateRow(c, h, i, body) ==
    /\ h.does = "create"
    /\ unit[i] = NoColumns /\ \A o \in Keepers : keeping[o] # NotKeeping => keeping[o].id # i
    /\ DOMAIN body = table.columns
    /\ Asked(h, body)
    /\ BeginKeeping(c, "code", h, i, body)

\* The SELECT; the body with the row as it was read is in order; and the code
\* is looked up if the body brings another one.
StartUpdateRow(c, h, i, body) ==
    /\ h.does = "update"
    /\ unit[i] # NoColumns
    /\ DOMAIN body \subseteq table.columns
    /\ Asked(h, WithBody(body, unit[i]))
    /\ LET newCode == "code" \in DOMAIN body /\ body.code # unit[i].code
       IN BeginKeeping(c, IF newCode THEN "code" ELSE "write", h, i, body)

\* Nothing refers to the row.
StartRemoveRow(c, h, i) ==
    /\ h.does = "remove"
    /\ unit[i] # NoColumns
    /\ BeginKeeping(c, "write", h, i, NoColumns)

\* assertCodeFree
InUse(code) == \E i \in Rows : unit[i] # NoColumns /\ unit[i].code = code
AssertCodeFree(c) ==
    /\ keeping[c] # NotKeeping /\ keeping[c].step = "code"
    /\ keeping' = [keeping EXCEPT ![c] = IF InUse(keeping[c].body.code) THEN NotKeeping
                                         ELSE [keeping[c] EXCEPT !.step = "write"]]
    /\ UNCHANGED <<table, unit>>

\* The unique index on code.
CodeKey(i, new) == \A j \in Rows \ {i} : unit[j] # NoColumns => unit[j].code # new.code

\* The statement, by id: what it makes of the row.
RowAfter(call) ==
    CASE call.handler.does = "create" -> call.body
      [] call.handler.does = "update" /\ unit[call.id] # NoColumns -> WithBody(call.body, unit[call.id])
      [] OTHER -> NoColumns

WriteRow(c) ==
    LET i == keeping[c].id
        new == RowAfter(keeping[c])
    IN /\ keeping[c] # NotKeeping /\ keeping[c].step = "write"
       /\ unit' = IF new = NoColumns \/ CodeKey(i, new) THEN [unit EXCEPT ![i] = new] ELSE unit
       /\ keeping' = [o \in Keepers |->
                        CASE o = c -> NotKeeping
                          [] o # c /\ keeping[o] # NotKeeping /\ keeping[o].id = i ->
                                [keeping[o] EXCEPT !.overtaken = TRUE]
                          [] OTHER -> keeping[o]]
       /\ UNCHANGED table

\* A statement fails or the instance stops.
StopKeeping(c) ==
    /\ keeping[c] # NotKeeping
    /\ keeping' = [keeping EXCEPT ![c] = NotKeeping]
    /\ UNCHANGED <<table, unit>>

HandlersHere == {h \in UnitHandlers : h.table = table.name}

RowsNext ==
    \E c \in Keepers :
        \/ \E h \in HandlersHere, i \in Rows :
              \/ \E body \in Created : StartCreateRow(c, h, i, body)
              \/ \E body \in Sets : StartUpdateRow(c, h, i, body)
              \/ StartRemoveRow(c, h, i)
        \/ AssertCodeFree(c)
        \/ WriteRow(c)
        \/ StopKeeping(c)

RowsSpec == RowsInit /\ [][RowsNext]_rowVars

-----------------------------------------------------------------------------
Inverted(period) == table = PeriodsRows /\ period # NoColumns /\ period.startsOn >= period.endsOn

\* assertPeriodOrder ("{ endsOn: <lebih awal> } akan lolos validasi lalu
\* tersimpan" is what it is to prevent): a period comes to end before it starts
\* only by an update whose row was written under way, when the two have moved
\* one end of it each.
OnlyARaceInvertsAPeriod ==
    [][\A i \in Rows : Inverted(unit'[i]) =>
          \/ Inverted(unit[i])
          \/ \E c \in Keepers : WriteRow(c) /\ keeping[c].id = i /\ keeping[c].overtaken
      ]_rowVars
=============================================================================
