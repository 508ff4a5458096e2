---------------------------- MODULE Organization -----------------------------
(***************************************************************************)
(* Periods and the units of the organisation (divisions, clusters and      *)
(* subunits): OrganizationService, and the rows of the other tables that   *)
(* refer to them.                                                          *)
(*                                                                         *)
(* activatePeriod is a transaction of two UPDATEs at READ COMMITTED; the   *)
(* others are checks, each a statement of its own, and then a statement.   *)
(***************************************************************************)
EXTENDS Integers, FiniteSets

CONSTANTS Periods, Units, \* ids of periods, and of divisions, clusters, subunits
          Keys,           \* the foreign keys of other tables to theirs
          OnDelete,       \* for a key, its rule: "restrict", "cascade" or "set null"
          Referrers,      \* rows of other tables that have such a key
          KeyOf,          \* for a row, its key
          Admins,         \* calls that may run at the same time
          NoEntity            \* no id

Entities == Periods \union Units

ASSUME NoEntityAssumption == {NoEntity, "unborn", "gone"} \intersect Entities = {}
ASSUME OnDeleteAssumption == OnDelete \in [Keys -> {"restrict", "cascade", "set null"}]
ASSUME KeyOfAssumption == KeyOf \in [Referrers -> Keys]

VARIABLES
    entity,    \* the rows: "none", "there" or, of a period, "active"
    refers,    \* what each row of another table refers to; "unborn" and "gone" if
               \* it is not there yet or any more
    arranging  \* what each call is doing

organizationVars == <<entity, refers, arranging>>

-----------------------------------------------------------------------------
(* lowered: the active period whose row the transaction has locked and not *)
(* yet committed.  counted: the keys behind which the call has found no    *)
(* row.  unseen: the rows that have come to refer to the entity since the  *)
(* call counted those of their key (history).                              *)

Arranging == [step: {"idle", "lower", "wait", "raise", "remove"},
              id: Entities \union {NoEntity}, lowered: SUBSET Periods,
              counted: SUBSET Keys, unseen: SUBSET Referrers]
NotArranging == [step |-> "idle", id |-> NoEntity, lowered |-> {}, counted |-> {}, unseen |-> {}]

OrganizationTypeOK ==
    /\ entity \in [Entities -> {"none", "there", "active"}]
    /\ refers \in [Referrers -> Entities \union {NoEntity, "unborn", "gone"}]
    /\ arranging \in [Admins -> Arranging]

OrganizationInit ==
    /\ entity = [e \in Entities |-> "none"]
    /\ refers = [r \in Referrers |-> "unborn"]
    /\ arranging = [a \in Admins |-> NotArranging]

-----------------------------------------------------------------------------
ArrangingAt(a, step)   == arranging[a].step = step
BeginArranging(a, step, e) ==
    /\ ArrangingAt(a, "idle")
    /\ arranging' = [arranging EXCEPT ![a] = [NotArranging EXCEPT !.step = step, !.id = e]]
EndArranging(a)       == arranging' = [arranging EXCEPT ![a] = NotArranging]
ActivePeriods == {p \in Periods : entity[p] = "active"}
LockedByOthers(a) == UNION {arranging[o].lowered : o \in {o \in Admins \ {a} : ArrangingAt(o, "raise")}}

\* createPeriod, createDivision, createCluster, createSubunit.
CreateEntity(e) ==
    /\ entity[e] = "none"
    /\ entity' = [entity EXCEPT ![e] = "there"]
    /\ UNCHANGED <<refers, arranging>>

CreatePeriod(p)   == p \in Periods /\ CreateEntity(p)
CreateUnit(u)     == u \in Units /\ CreateEntity(u)

\* An INSERT or UPDATE of another table names the entity; its key waits for
\* nobody here and refuses an id that is not there.  resolvePeriod names the
\* active period if the body names none.
Refer(r, e) ==
    /\ refers[r] # "gone" /\ entity[e] # "none"
    /\ refers' = [refers EXCEPT ![r] = e]
    /\ arranging' = [a \in Admins |->
                       IF /\ ArrangingAt(a, "remove") /\ arranging[a].id = e
                          /\ KeyOf[r] \in arranging[a].counted
                       THEN [arranging[a] EXCEPT !.unseen = @ \union {r}]
                       ELSE arranging[a]]
    /\ UNCHANGED entity

ReferToNone(r) ==
    /\ refers[r] \in Entities
    /\ refers' = [refers EXCEPT ![r] = NoEntity]
    /\ UNCHANGED <<entity, arranging>>

-----------------------------------------------------------------------------
(* activatePeriod.                                                         *)

StartActivate(a, p) ==
    /\ p \in Periods /\ entity[p] # "none"
    /\ BeginArranging(a, "lower", p)
    /\ UNCHANGED <<entity, refers>>

\* The first UPDATE sees the active periods but this one, ...
SeeActive(a) ==
    /\ ArrangingAt(a, "lower")
    /\ arranging' = [arranging EXCEPT ![a].step = "wait",
                                      ![a].lowered = ActivePeriods \ {arranging[a].id}]
    /\ UNCHANGED <<entity, refers>>

\* The first UPDATE committed by itself, as it would be without the transaction.
LowerAtOnce(a) ==
    /\ ArrangingAt(a, "wait")
    /\ arranging[a].lowered \intersect LockedByOthers(a) = {}
    /\ entity' = [e \in Entities |-> IF e \in arranging[a].lowered /\ entity[e] = "active"
                                     THEN "there" ELSE entity[e]]
    /\ arranging' = [arranging EXCEPT ![a].step = "raise", ![a].lowered = {}]
    /\ UNCHANGED refers

\* ... waits for their rows and lowers those that still are active.
LowerActive(a) ==
    /\ ArrangingAt(a, "wait")
    /\ arranging[a].lowered \intersect LockedByOthers(a) = {}
    /\ arranging' = [arranging EXCEPT ![a].step = "raise",
                                      ![a].lowered = @ \intersect ActivePeriods]
    /\ UNCHANGED <<entity, refers>>

\* periods_active_key: no other active period is left when the row is raised.
ActiveKey(a) == ActivePeriods \subseteq arranging[a].lowered \union {arranging[a].id}

\* The second UPDATE and the COMMIT.  A period that is gone, and the key, make
\* the transaction fail.
RaisePeriod(a) ==
    LET p == arranging[a].id
    IN /\ ArrangingAt(a, "raise")
       /\ p \notin LockedByOthers(a)
       /\ entity' = IF entity[p] # "none" /\ ActiveKey(a)
                    THEN [e \in Entities |-> CASE e = p -> "active"
                                               [] e \in arranging[a].lowered -> "there"
                                               [] OTHER -> entity[e]]
                    ELSE entity
       /\ EndArranging(a)
       /\ UNCHANGED refers

-----------------------------------------------------------------------------
(* removePeriod, removeDivision, removeCluster, removeSubunit.             *)

StartRemove(a, e) ==
    /\ entity[e] = "there"
    /\ BeginArranging(a, "remove", e)
    /\ UNCHANGED <<entity, refers>>

ReferencesTo(e) == {r \in Referrers : refers[r] = e}

\* findReferences counts the rows behind one foreign key after another.
RestrictedOnly(e, k) == {r \in ReferencesTo(e) : KeyOf[r] = k /\ OnDelete[k] = "restrict"}
FindReferences(e, k) == {r \in ReferencesTo(e) : KeyOf[r] = k}

\* assertNotReferenced refuses if any count is not zero; what is counted after
\* that one changes nothing.
CountReferences(a) ==
    /\ ArrangingAt(a, "remove")
    /\ \E k \in Keys \ arranging[a].counted :
          IF FindReferences(arranging[a].id, k) = {}
          THEN arranging' = [arranging EXCEPT ![a].counted = @ \union {k}]
          ELSE EndArranging(a)
    /\ UNCHANGED <<entity, refers>>

\* The DELETE, by id, and what the foreign keys make of it.  It waits for a
\* transaction that holds the row.
DeleteEntity(a) ==
    LET e == arranging[a].id
    IN /\ ArrangingAt(a, "remove") /\ arranging[a].counted = Keys
       /\ e \notin LockedByOthers(a)
       /\ IF \E r \in ReferencesTo(e) : OnDelete[KeyOf[r]] = "restrict"
          THEN UNCHANGED <<entity, refers>>
          ELSE /\ entity' = [entity EXCEPT ![e] = "none"]
               /\ refers' = [r \in Referrers |->
                               IF refers[r] # e THEN refers[r]
                               ELSE IF OnDelete[KeyOf[r]] = "cascade" THEN "gone" ELSE NoEntity]
       /\ EndArranging(a)

\* The statement fails or the instance stops.
StopArranging(a) ==
    /\ ~ArrangingAt(a, "idle")
    /\ EndArranging(a)
    /\ UNCHANGED <<entity, refers>>

OrganizationNext ==
    \/ \E e \in Entities : CreatePeriod(e) \/ CreateUnit(e)
    \/ \E r \in Referrers : ReferToNone(r) \/ \E e \in Entities : Refer(r, e)
    \/ \E a \in Admins :
          \/ \E e \in Entities : StartActivate(a, e) \/ StartRemove(a, e)
          \/ SeeActive(a) \/ LowerActive(a) \/ RaisePeriod(a)
          \/ CountReferences(a) \/ DeleteEntity(a)
          \/ StopArranging(a)

OrganizationSpec == OrganizationInit /\ [][OrganizationNext]_organizationVars

-----------------------------------------------------------------------------
\* activatePeriod and removePeriod ("seluruh sistem menganggap periode yang
\* berlaku selalu ada"): once a period is active, one is, through failing and
\* overlapping activations, unless a removal that had found the period idle
\* deletes it after its activation.
OnlyARaceEndsTheActivePeriod ==
    [][ActivePeriods # {} /\ ActivePeriods' = {}
          => \E a \in Admins : DeleteEntity(a) /\ entity[arranging[a].id] = "active"]_organizationVars

\* assertNotReferenced ("akan mengosongkan rujukan itu tanpa pemberitahuan"): a
\* removal takes the reference, or the row, only of those that came to refer to
\* the entity after the rows of their own foreign key were counted.
OnlyARaceEmptiesReferences ==
    [][\A a \in Admins : DeleteEntity(a)
          => \A r \in Referrers : refers'[r] = refers[r] \/ r \in arranging[a].unseen
      ]_organizationVars
=============================================================================
