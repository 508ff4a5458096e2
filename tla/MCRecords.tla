------------------------------ MODULE MCRecords ------------------------------
(***************************************************************************)
(* The parts of the API that share no row with each other: the ledgers,    *)
(* the keys of IdempotencyInterceptor, the documents, what hangs on a      *)
(* meeting, an agenda and a partner, the sessions, the members and the     *)
(* heads of their clusters, the organization, the login's counters, the    *)
(* rules of who may write, the attached files.  As in MCLedgers only one   *)
(* of them moves in a behaviour.                                           *)
(***************************************************************************)
EXTENDS MCLedgers, Idempotency, MCDocuments, Meetings, Sessions, MCMembers, Organization,
        OrganizationRows, RateLimits, Policies, Attachments, Attendance,
        ClusterHeads, PartnerRows

Parts == LedgerParts \union {"keys", "documents", "meetings", "sessions", "members",
                             "organization", "rows", "rateLimits", "policies",
                             "attachments", "attendance", "heads", "partners"}

RecordsInit ==
    /\ part \in Parts
    /\ LedgersInit
    /\ Init
    /\ DocumentsInit
    /\ MeetingsInit
    /\ SessionsInit
    /\ MembersInit
    /\ OrganizationInit
    /\ RowsInit
    /\ part = "rows" \/ table = PeriodsRows
    /\ RateLimitsInit
    /\ PoliciesInit
    /\ AttachmentsInit
    /\ AttendanceInit
    /\ HeadsInit
    /\ PartnersInit

RecordsNext ==
    \/ /\ LedgersNext
       /\ UNCHANGED <<vars, documentVars, meetingVars, sessionVars, memberVars,
                      organizationVars, rowVars, rateVars, policyVars, attachmentVars,
                      attendanceVars, headVars, partnerVars>>
    \/ /\ part = "keys"
       /\ Next
       /\ UNCHANGED <<ledgerVars, documentVars, meetingVars, sessionVars, memberVars,
                      organizationVars, rowVars, rateVars, policyVars, attachmentVars,
                      attendanceVars, headVars, partnerVars>>
    \/ /\ part = "documents"
       /\ DocumentsNext
       /\ UNCHANGED <<ledgerVars, vars, meetingVars, sessionVars, memberVars,
                      organizationVars, rowVars, rateVars, policyVars, attachmentVars,
                      attendanceVars, headVars, partnerVars>>
    \/ /\ part = "meetings"
       /\ MeetingsNext
       /\ UNCHANGED <<ledgerVars, vars, documentVars, sessionVars, memberVars,
                      organizationVars, rowVars, rateVars, policyVars, attachmentVars,
                      attendanceVars, headVars, partnerVars>>
    \/ /\ part = "sessions"
       /\ SessionsNext
       /\ UNCHANGED <<ledgerVars, vars, documentVars, meetingVars, memberVars,
                      organizationVars, rowVars, rateVars, policyVars, attachmentVars,
                      attendanceVars, headVars, partnerVars>>
    \/ /\ part = "members"
       /\ MembersNext
       /\ UNCHANGED <<ledgerVars, vars, documentVars, meetingVars, sessionVars,
                      organizationVars, rowVars, rateVars, policyVars, attachmentVars,
                      attendanceVars, headVars, partnerVars>>
    \/ /\ part = "organization"
       /\ OrganizationNext
       /\ UNCHANGED <<ledgerVars, vars, documentVars, meetingVars, sessionVars,
                      memberVars, rowVars, rateVars, policyVars, attachmentVars,
                      attendanceVars, headVars, partnerVars>>
    \/ /\ part = "rows"
       /\ RowsNext
       /\ UNCHANGED <<ledgerVars, vars, documentVars, meetingVars, sessionVars,
                      memberVars, organizationVars, rateVars, policyVars,
                      attachmentVars, attendanceVars, headVars, partnerVars>>
    \/ /\ part = "rateLimits"
       /\ RateLimitsNext
       /\ UNCHANGED <<ledgerVars, vars, documentVars, meetingVars, sessionVars,
                      memberVars, organizationVars, rowVars, policyVars,
                      attachmentVars, attendanceVars, headVars, partnerVars>>
    \/ /\ part = "policies"
       /\ PoliciesNext
       /\ UNCHANGED <<ledgerVars, vars, documentVars, meetingVars, sessionVars,
                      memberVars, organizationVars, rowVars, rateVars, attachmentVars,
                      attendanceVars, headVars, partnerVars>>
    \/ /\ part = "attachments"
       /\ AttachmentsNext
       /\ UNCHANGED <<ledgerVars, vars, documentVars, meetingVars, sessionVars,
                      memberVars, organizationVars, rowVars, rateVars, policyVars,
                      attendanceVars, headVars, partnerVars>>
    \/ /\ part = "attendance"
       /\ AttendanceNext
       /\ UNCHANGED <<ledgerVars, vars, documentVars, meetingVars, sessionVars,
                      memberVars, organizationVars, rowVars, rateVars, policyVars,
                      attachmentVars, headVars, partnerVars>>
    \/ /\ part = "heads"
       /\ HeadsNext
       /\ UNCHANGED <<ledgerVars, vars, documentVars, meetingVars, sessionVars,
                      memberVars, organizationVars, rowVars, rateVars, policyVars,
                      attachmentVars, attendanceVars, partnerVars>>
    \/ /\ part = "partners"
       /\ PartnersNext
       /\ UNCHANGED <<ledgerVars, vars, documentVars, meetingVars, sessionVars,
                      memberVars, organizationVars, rowVars, rateVars, policyVars,
                      attachmentVars, attendanceVars, headVars>>

RecordsSpec ==
    /\ RecordsInit
    /\ [][RecordsNext /\ UNCHANGED part]_<<part, ledgerVars, vars, documentVars,
                                          meetingVars, sessionVars, memberVars,
                                          organizationVars, rowVars, rateVars,
                                          policyVars, attachmentVars, attendanceVars,
                                          headVars, partnerVars>>

\* Every part has its type; the parts that do not move are as they began.
RecordsTypeOK ==
    /\ part \in LedgerParts => LedgersTypeOK
    /\ part = "keys" => TypeOK
    /\ part = "documents" => DocumentsTypeOK
    /\ part = "meetings" => MeetingsTypeOK
    /\ part = "sessions" => SessionsTypeOK
    /\ part = "members" => MembersTypeOK
    /\ part = "organization" => OrganizationTypeOK
    /\ part = "rows" => RowsTypeOK
    /\ part = "rateLimits" => RateLimitsTypeOK
    /\ part = "policies" => PoliciesTypeOK
    /\ part = "attachments" => AttachmentsTypeOK
    /\ part = "attendance" => AttendanceTypeOK
    /\ part = "heads" => HeadsTypeOK
    /\ part = "partners" => PartnersTypeOK

-----------------------------------------------------------------------------
\* The calls are alike, and so are the bodies, lines, people, periods and the other
\* things the same two values stand for.
RecordsSymmetry == Symmetry \union Permutations(Hashes)

\* Two payments of the member, of different amounts.
TwoPayments == 1 .. 2
TwoAmounts == <<1, 2>>

\* One row that goes with what it refers to, and one whose reference is emptied. A
\* key that restricts only makes the DELETE fail.
Rules == "k2" :> "cascade" @@ "k3" :> "set null"
RefersBy == "r2" :> "k2" @@ "r3" :> "k3"

\* A period's ends move together or alone; its code is changed by a body of its own.
CodeBodies == [{"code"} -> Codes]
EndBodies == UNION {[columns -> Days] : columns \in SUBSET {"startsOn", "endsOn"} \ {{}}}
CreateBodies == CodeBodies \union [code: Codes, startsOn: Days, endsOn: Days]
SetBodies == CodeBodies \union EndBodies

\* A member is made the head of the cluster the body names, or of the member's own;
\* or is head no more; or moves, and the flag is left out.
SomeHeadBodies == {b \in HeadBody : CASE b.head = "yes"  -> b.cluster # NoCluster
                                      [] b.head = "no"   -> b.cluster = "same"
                                      [] b.head = "same" -> TRUE}
SomeRoleSets == {{"member"}, {"division_head", "member"}, {"owner"}}
=============================================================================
