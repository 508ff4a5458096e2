------------------------------ MODULE Policies -------------------------------
(***************************************************************************)
(* Who may write a row: PolicyGuard with the matrix of roles, the rules of *)
(* policy/resource.ts for a row, and the calls that ask them and write     *)
(* later.                                                                  *)
(*                                                                         *)
(* A call authenticates, reads the row and asks in a row, here one step;   *)
(* then it writes.  The writes of work items and requests compare the      *)
(* version that was read, the others write by id.  Meanwhile the member    *)
(* may get other roles, and others may write the row.                      *)
(***************************************************************************)
EXTENDS Integers, FiniteSets

CONSTANTS Me, Other,  \* the member whose calls these are, and another
          NoPerson,   \* no member
          DivisionIds,
          NoDivision,
          RoleSets    \* what the member's roles may be

ASSUME PeopleAssumption == Me # Other /\ NoPerson \notin {Me, Other}
ASSUME DivisionAssumption == NoDivision \notin DivisionIds

VARIABLES
    actor,   \* the member's row of profiles: roles and division
    target,  \* the row that is written
    deciding \* what the member's call is doing

policyVars == <<actor, target, deciding>>

-----------------------------------------------------------------------------
(* ROLE_POLICY_MATRIX, for the kinds of rows that are written here.        *)

Owners   == {"owner", "co_owner"}
Heads    == {"division_head", "division_deputy"}
Everyone == Owners \union Heads \union {"member"}
ASSUME RoleAssumption == RoleSets \subseteq SUBSET Everyone /\ {"member"} \in RoleSets

WorkItemPolicies == [create |-> Everyone, write |-> Everyone, delete |-> Owners \union Heads]
RequestPolicies  == [create |-> Everyone, write |-> Everyone, delete |-> Owners \union Heads]

\* The policies that have no create, or no delete, guard those routes by write.
FinancePolicies  == [create |-> Owners, write |-> Owners, delete |-> Owners]
DocumentPolicies == [create |-> Everyone, write |-> Everyone, delete |-> Owners \union Heads]
AnnouncementPolicies ==
    [create |-> Owners \union Heads, write |-> Owners \union Heads, delete |-> Owners \union Heads]
CollaborationPolicies ==
    [create |-> Everyone, write |-> Everyone, delete |-> Owners \union Heads]
OrganizationPolicies == [create |-> Owners, write |-> Owners, delete |-> Owners]

\* member:admin.  Settings are only written, feedback is only given.
MemberPolicies   == [create |-> Owners, write |-> Owners]
SettingsPolicies == [create |-> {}, write |-> Owners]
FeedbackPolicies == [create |-> Everyone, write |-> {}]

\* The policies that are not about a row.
AuthPolicies == [session |-> Everyone, changePassword |-> Everyone, logout |-> Everyone]

RolePolicyMatrix(kind) ==
    CASE kind = "work_item"     -> WorkItemPolicies
      [] kind = "request"       -> RequestPolicies
      [] kind = "finance"       -> FinancePolicies
      [] kind = "announcement"  -> AnnouncementPolicies
      [] kind = "collaboration" -> CollaborationPolicies
      [] kind = "organization"  -> OrganizationPolicies
      [] kind = "profile"       -> MemberPolicies
      [] kind = "setting"       -> SettingsPolicies
      [] kind = "feedback"      -> FeedbackPolicies
      [] kind = "auth"          -> AuthPolicies
      [] OTHER                  -> DocumentPolicies

\* PENDING_PASSWORD_EXEMPT: what a member may do who has still to change the
\* password that was given out.
PendingPasswordExempt == {<<"auth", "session">>, <<"auth", "changePassword">>, <<"auth", "logout">>}
PasswordIsSettled(kind, policy) == actor.pending => <<kind, policy>> \in PendingPasswordExempt

IsAllowed(kind, policy) == actor.roles \intersect RolePolicyMatrix(kind)[policy] # {}

\* PolicyGuard.canActivate
PassesGuard(kind, policy) == PasswordIsSettled(kind, policy) /\ IsAllowed(kind, policy)

-----------------------------------------------------------------------------
(* The rows, with the columns the rules look at.  creator is a request's   *)
(* requester; division a request's target; conflict, whether               *)
(* sync_conflict_at is set.  Another PIC is to the rules what none is.     *)

PolicyRow(kinds, divisions, pics, assignees, drafts, tasks, conflicts) ==
    [kind: kinds, division: divisions, creator: {Me, Other}, pic: pics,
     assignees: assignees, draft: drafts, task: tasks, conflict: conflicts]

Persons == {Me, NoPerson}
WorkItemRows == PolicyRow({"work_item"}, DivisionIds \union {NoDivision}, Persons,
                    SUBSET {Me}, {FALSE}, BOOLEAN, BOOLEAN)
RequestRows  == PolicyRow({"request"}, DivisionIds, Persons, {{}}, BOOLEAN, {FALSE}, BOOLEAN)
\* content, creative, partners, inventory and logistics ask with no division.
OtherKinds   == {"letter", "content", "creative", "partner", "item", "shipment", "trip",
                 "finance"}
OtherRows    == PolicyRow(OtherKinds, {NoDivision}, Persons, {{}}, {FALSE}, {FALSE}, {FALSE})
\* announcements, meetings, decisions, agenda and attachments, the units of the
\* organization, members, settings and feedback are guarded by their policy alone.
RemovedKinds == {"announcement", "collaboration", "organization"}
GuardedKinds == RemovedKinds \union {"profile", "setting", "feedback"}
GuardedRows  == PolicyRow(GuardedKinds, {NoDivision}, {NoPerson}, {{}}, {FALSE}, {FALSE}, {FALSE})
PolicyRows == WorkItemRows \union RequestRows \union OtherRows \union GuardedRows
RowsOf == [k \in {"work_item", "request"} \union OtherKinds \union GuardedKinds |->
             {r \in PolicyRows : r.kind = k}]
NoRowYet == [kind |-> "none", division |-> NoDivision, creator |-> Other, pic |-> NoPerson,
             assignees |-> {}, draft |-> FALSE, task |-> FALSE, conflict |-> FALSE]

-----------------------------------------------------------------------------
(* policy/resource.ts                                                      *)

IsOwnerOrCoOwner == actor.roles \intersect Owners # {}
IsDivisionLead   == actor.roles \intersect Heads # {}

\* toActor gives a lead the code of the own division.
DivisionCodes == IF IsDivisionLead THEN {actor.division} \ {NoDivision} ELSE {}
LeadsDivisionOf(division) == division \in DivisionCodes

CanEditWorkItem(item) ==
    \/ IsOwnerOrCoOwner
    \/ LeadsDivisionOf(item.division)
    \/ item.task
    \/ Me \in {item.creator, item.pic} \union item.assignees

CanDeleteWorkItem(item) == IsOwnerOrCoOwner \/ LeadsDivisionOf(item.division)

CanChangePic(item) == IsOwnerOrCoOwner \/ LeadsDivisionOf(item.division) \/ item.task

\* To another status; the same for every role while the conflict is open.
CanTransitionWorkItem(item) == ~item.conflict /\ CanEditWorkItem(item)

CanTransitionRequest(request, to) ==
    /\ ~request.conflict
    /\ \/ IsOwnerOrCoOwner
       \/ LeadsDivisionOf(request.division)
       \/ request.draft /\ to = "submitted" /\ request.creator = Me

CanEditRequest(request) ==
    \/ IsOwnerOrCoOwner
    \/ LeadsDivisionOf(request.division)
    \/ Me \in {request.creator, request.pic}

CanDeleteRequest(request) == IsOwnerOrCoOwner \/ LeadsDivisionOf(request.division)

CanReadFinance == IsOwnerOrCoOwner \/ LeadsDivisionOf("sekbend")

CanEditLetter(letter) ==
    IsOwnerOrCoOwner \/ IsDivisionLead \/ Me \in {letter.creator, letter.pic}

\* creator: of content; requester, of a creative request.
CanEditContent(entry) ==
    \/ IsOwnerOrCoOwner
    \/ LeadsDivisionOf(entry.division)
    \/ Me \in {entry.creator, entry.pic}
CanEditCreative(request) ==
    \/ IsOwnerOrCoOwner
    \/ LeadsDivisionOf(request.division)
    \/ Me \in {request.creator, request.pic}

CanEditPartner(partner) ==
    IsOwnerOrCoOwner \/ LeadsDivisionOf(partner.division) \/ partner.pic = Me
CanEditInventoryItem(thing) ==
    IsOwnerOrCoOwner \/ LeadsDivisionOf(thing.division) \/ thing.pic = Me

\* A shipment has no PIC: null is passed.
CanEditLogistics(transport) ==
    \/ IsOwnerOrCoOwner
    \/ LeadsDivisionOf(transport.division)
    \/ transport.kind = "trip" /\ transport.pic = Me

-----------------------------------------------------------------------------
(* The calls: what the body may change (columns; kind, when the row goes), *)
(* and whether the UPDATE compares the version.  An update of the other    *)
(* kinds stands for their transitions too, which ask the same.             *)

Operation(kind, does, policy, columns, versioned) ==
    [kind |-> kind, does |-> does, policy |-> policy, columns |-> columns,
     versioned |-> versioned]

Operations ==
    {Operation("work_item", "update", "write", {"division", "pic", "assignees", "task"}, TRUE),
     Operation("work_item", "transition", "write", {}, TRUE),
     Operation("work_item", "setPic", "write", {"pic"}, TRUE),
     Operation("work_item", "remove", "delete", {"kind"}, TRUE),
     Operation("request", "update", "write", {"division", "pic"}, TRUE),
     Operation("request", "submit", "write", {"draft"}, TRUE),
     Operation("request", "transition", "write", {}, TRUE),
     Operation("request", "remove", "delete", {"kind"}, TRUE)}
    \union {Operation(k, "update", "write", {"pic"}, FALSE) : k \in OtherKinds}
    \union {Operation(k, "update", "write", {}, k = "profile") : k \in GuardedKinds \ {"feedback"}}
    \union {Operation(k, "remove", "delete", {"kind"}, FALSE) : k \in OtherKinds \union RemovedKinds}

\* assertTargetDivisionUnlocked, of the row as it was read.
UnlockedAlways(op, division) == TRUE
TargetDivisionUnlocked(op, division) ==
    op.kind = "request" /\ division # target.division => target.draft

\* What the service asks of the row it has read.
Permits(op) ==
    CASE op.kind = "work_item" /\ op.does = "update" -> CanEditWorkItem(target)
      [] op.kind = "work_item" /\ op.does = "transition" -> CanTransitionWorkItem(target)
      [] op.kind = "work_item" /\ op.does = "setPic" -> CanChangePic(target)
      [] op.kind = "work_item" /\ op.does = "remove" -> CanDeleteWorkItem(target)
      [] op.kind = "request" /\ op.does = "update" -> CanEditRequest(target)
      [] op.kind = "request" /\ op.does = "submit" -> CanTransitionRequest(target, "submitted")
      [] op.kind = "request" /\ op.does = "transition" -> CanTransitionRequest(target, "accepted")
      [] op.kind = "request" /\ op.does = "remove" -> CanDeleteRequest(target)
      [] op.kind = "finance" -> CanReadFinance
      [] op.kind = "letter" /\ op.does = "update" -> CanEditLetter(target)
      [] op.kind = "content" /\ op.does = "update" -> CanEditContent(target)
      [] op.kind = "creative" /\ op.does = "update" -> CanEditCreative(target)
      [] op.kind = "partner" /\ op.does = "update" -> CanEditPartner(target)
      [] op.kind = "item" /\ op.does = "update" -> CanEditInventoryItem(target)
      [] op.kind \in {"shipment", "trip"} /\ op.does = "update" -> CanEditLogistics(target)
      [] OTHER -> TRUE

MayCall(op) == PassesGuard(op.kind, op.policy) /\ Permits(op)
-----------------------------------------------------------------------------
(* A call that has been allowed, and not yet written: division is the one  *)
(* the row is to have.  fresh: the row has not been written since;         *)
(* sameMember: nor the member's roles and division (history).              *)

Deciding == [step: {"write"}, op: Operations, division: DivisionIds \union {NoDivision},
             fresh: BOOLEAN, sameMember: BOOLEAN]
NotDeciding == [step |-> "idle"]

\* The member's row of profiles, as loadActor and toActor give it to the guard.
Actor == [roles: RoleSets, division: DivisionIds \union {NoDivision}, pending: BOOLEAN]
NewActor == [roles |-> {"member"}, division |-> NoDivision, pending |-> FALSE]

PoliciesInit ==
    /\ actor = NewActor
    /\ target = NoRowYet
    /\ deciding = NotDeciding

\* The member, or another one, creates the row.
CreateRow(new) ==
    /\ target = NoRowYet
    /\ ~new.conflict
    /\ deciding = NotDeciding
    /\ new.creator = Me => PassesGuard(new.kind, "create")
    /\ target' = new
    /\ UNCHANGED <<actor, deciding>>

\* A call about the row.
Decide(op, division) ==
    /\ deciding = NotDeciding
    /\ division = target.division \/ "division" \in op.columns
    /\ MayCall(op)
    /\ TargetDivisionUnlocked(op, division)
    /\ deciding' = [step |-> "write", op |-> op, division |-> division,
                    fresh |-> TRUE, sameMember |-> TRUE]
    /\ UNCHANGED <<actor, target>>

\* The rows an operation may leave: its columns are the body's, the rest stays.
RowsLeft(op, division) ==
    IF op.does = "remove" THEN {NoRowYet}
    ELSE {new \in RowsOf[target.kind] :
             /\ new.division = division
             /\ op.does = "submit" => ~new.draft
             /\ \A column \in DOMAIN new \ op.columns :
                   column = "division" \/ new[column] = target[column]}

\* The UPDATE: with a version that has moved on it hits no row.
AlwaysLandsWrite == target # NoRowYet
LandsWrite == target # NoRowYet /\ (deciding.op.versioned => deciding.fresh)

Write ==
    /\ deciding # NotDeciding
    /\ IF LandsWrite THEN target' \in RowsLeft(deciding.op, deciding.division)
                     ELSE target' = target
    /\ deciding' = NotDeciding
    /\ UNCHANGED actor

\* An error, or the instance stops.
StopDeciding ==
    /\ deciding # NotDeciding
    /\ deciding' = NotDeciding
    /\ UNCHANGED <<actor, target>>

Overtake(fact) == deciding' = IF deciding = NotDeciding THEN NotDeciding
                              ELSE [deciding EXCEPT ![fact] = FALSE]

\* Others write the row, with whatever rights they have: one column, or, write by
\* write, several.
DifferAt(old, new) == {column \in DOMAIN old : old[column] # new[column]}
OthersWrite ==
    /\ target # NoRowYet
    /\ \/ target' = NoRowYet
       \/ \E new \in RowsOf[target.kind] :
             /\ Cardinality(DifferAt(target, new)) <= 1
             /\ new.creator = target.creator
             /\ new.draft => target.draft
             /\ target.kind = "request" /\ new.division # target.division => target.draft
             /\ target' = new
    /\ Overtake("fresh")
    /\ UNCHANGED actor

\* ProfilesService.update gives the member other roles or another division;
\* resetPassword a password that has to be changed.
ChangeMember(roles, division) ==
    /\ actor' = [actor EXCEPT !.roles = roles, !.division = division]
    /\ Overtake("sameMember")
    /\ UNCHANGED target

GiveOutPassword ==
    /\ actor' = [actor EXCEPT !.pending = TRUE]
    /\ Overtake("sameMember")
    /\ UNCHANGED target

\* AuthService.changePassword
ChangeOwnPassword ==
    /\ PassesGuard("auth", "changePassword")
    /\ actor' = [actor EXCEPT !.pending = FALSE]
    /\ UNCHANGED <<target, deciding>>

PoliciesNext ==
    \/ \E new \in PolicyRows : CreateRow(new)
    \/ \E op \in {op \in Operations : op.kind = target.kind},
          division \in DivisionIds \union {NoDivision} : Decide(op, division)
    \/ Write
    \/ StopDeciding
    \/ OthersWrite
    \/ \E roles \in RoleSets, division \in DivisionIds \union {NoDivision} :
          ChangeMember(roles, division)
    \/ GiveOutPassword
    \/ ChangeOwnPassword

PoliciesSpec == PoliciesInit /\ [][PoliciesNext]_policyVars

-----------------------------------------------------------------------------
PoliciesTypeOK ==
    /\ actor \in Actor
    /\ target \in PolicyRows \union {NoRowYet}
    /\ deciding \in Deciding \union {NotDeciding}

\* A write lands with the right it was allowed by: the rules still allow it on
\* the row and for the member as they are when it lands, unless the member's
\* row changed under way, or, where the UPDATE does not compare the version,
\* the row did.
RightsHoldAtTheWrite ==
    deciding # NotDeciding /\ LandsWrite =>
        \/ MayCall(deciding.op)
        \/ ~deciding.sameMember
        \/ ~deciding.op.versioned /\ ~deciding.fresh

\* assertTargetDivisionUnlocked: a request keeps its target once submitted,
\* although the row that was asked is not the row that is written.
SubmittedRequestsStay ==
    [][target.kind = "request" /\ target'.kind = "request" /\ ~target.draft
          => target'.division = target.division]_policyVars
=============================================================================
