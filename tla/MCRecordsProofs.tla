---------------------------- MODULE MCRecordsProofs ----------------------------
(***************************************************************************)
(* The parts of the API that share no row, side by side: what one of them  *)
(* does in the common specification it does by its own, so every theorem   *)
(* of a part is a theorem of the whole.                                    *)
(***************************************************************************)
EXTENDS MCRecords, LedgersProofs, GuardsProofs, PeopleProofs, RecordsProofs

-----------------------------------------------------------------------------
\* A step of the whole is a step of each part, or leaves it alone.
LEMMA StepOfTheParts ==
    ASSUME [RecordsNext /\ UNCHANGED part]_<<part, ledgerVars, vars, documentVars,
                                            meetingVars, sessionVars, memberVars,
                                            organizationVars, rowVars, rateVars,
                                            policyVars, attachmentVars, attendanceVars,
                                            headVars, partnerVars>>
    PROVE  /\ [NumberingNext]_numberingVars
           /\ [InventoryNext]_inventoryVars
           /\ [DuesNext]_duesVars
           /\ [BudgetsNext]_budgetVars
           /\ [Next]_vars
           /\ [DocumentsNext]_documentVars
           /\ [MeetingsNext]_meetingVars
           /\ [SessionsNext]_sessionVars
           /\ [MembersNext]_memberVars
           /\ [OrganizationNext]_organizationVars
           /\ [RowsNext]_rowVars
           /\ [RateLimitsNext]_rateVars
           /\ [PoliciesNext]_policyVars
           /\ [AttachmentsNext]_attachmentVars
           /\ [AttendanceNext]_attendanceVars
           /\ [HeadsNext]_headVars
           /\ [PartnersNext]_partnerVars
<1> DEFINE OneLedger ==
              /\ LedgersNext
              /\ UNCHANGED <<vars, documentVars, meetingVars, sessionVars, memberVars,
                             organizationVars, rowVars, rateVars, policyVars, attachmentVars,
                             attendanceVars, headVars, partnerVars>>
<1>1. CASE OneLedger
    BY <1>1 DEF LedgersNext
<1>2. CASE RecordsNext /\ ~OneLedger
  <2>1. [NumberingNext]_numberingVars /\ [InventoryNext]_inventoryVars
        /\ [DuesNext]_duesVars /\ [BudgetsNext]_budgetVars
    <3>1. UNCHANGED <<numberingVars, inventoryVars, duesVars, budgetVars>>
      BY <1>2, Zenon DEF RecordsNext, ledgerVars
    <3>2. QED
      BY <3>1
  <2>2. [Next]_vars
    BY <1>2, Zenon DEF RecordsNext
  <2>3. [DocumentsNext]_documentVars
    BY <1>2, Zenon DEF RecordsNext
  <2>4. [MeetingsNext]_meetingVars
    BY <1>2, Zenon DEF RecordsNext
  <2>5. [SessionsNext]_sessionVars
    BY <1>2, Zenon DEF RecordsNext
  <2>6. [MembersNext]_memberVars
    BY <1>2, Zenon DEF RecordsNext
  <2>7. [OrganizationNext]_organizationVars
    BY <1>2, Zenon DEF RecordsNext
  <2>8. [RowsNext]_rowVars
    BY <1>2, Zenon DEF RecordsNext
  <2>9. [RateLimitsNext]_rateVars
    BY <1>2, Zenon DEF RecordsNext
  <2>10. [PoliciesNext]_policyVars
    BY <1>2, Zenon DEF RecordsNext
  <2>11. [AttachmentsNext]_attachmentVars
    BY <1>2, Zenon DEF RecordsNext
  <2>12. [AttendanceNext]_attendanceVars
    BY <1>2, Zenon DEF RecordsNext
  <2>13. [HeadsNext]_headVars
    BY <1>2, Zenon DEF RecordsNext
  <2>14. [PartnersNext]_partnerVars
    BY <1>2, Zenon DEF RecordsNext
  <2>15. QED
    BY <2>1, <2>2, <2>3, <2>4, <2>5, <2>6, <2>7, <2>8, <2>9, <2>10, <2>11, <2>12, <2>13,
       <2>14,
       Zenon
<1>3. CASE UNCHANGED <<ledgerVars, vars, documentVars, meetingVars, sessionVars, memberVars,
                       organizationVars, rowVars, rateVars, policyVars, attachmentVars,
                       attendanceVars, headVars, partnerVars>>
    BY <1>3 DEF ledgerVars
<1>4. \/ RecordsNext
      \/ UNCHANGED <<ledgerVars, vars, documentVars, meetingVars, sessionVars, memberVars,
                     organizationVars, rowVars, rateVars, policyVars, attachmentVars,
                     attendanceVars, headVars, partnerVars>>
    OBVIOUS
<1>5. QED
    BY <1>1, <1>2, <1>3, <1>4

\* The whole runs each part as its own specification says (the parts that do not move
\* stutter), so what is proved of a part holds of it here.
THEOREM TheWholeRunsItsParts ==
    RecordsSpec => /\ NumberingSpec
                   /\ InventorySpec
                   /\ DuesSpec
                   /\ BudgetsSpec
                   /\ Spec
                   /\ DocumentsSpec
                   /\ MeetingsSpec
                   /\ SessionsSpec
                   /\ MembersSpec
                   /\ OrganizationSpec
                   /\ RowsSpec
                   /\ RateLimitsSpec
                   /\ PoliciesSpec
                   /\ AttachmentsSpec
                   /\ AttendanceSpec
                   /\ HeadsSpec
                   /\ PartnersSpec
<1>1. RecordsInit => /\ NumberingInit /\ InventoryInit /\ DuesInit /\ BudgetsInit /\ Init
                     /\ DocumentsInit /\ MeetingsInit /\ SessionsInit /\ MembersInit
                     /\ OrganizationInit /\ RowsInit /\ RateLimitsInit /\ PoliciesInit
                     /\ AttachmentsInit /\ AttendanceInit /\ HeadsInit /\ PartnersInit
    BY DEF RecordsInit, LedgersInit
<1>2. RecordsSpec => NumberingSpec
    BY <1>1, StepOfTheParts, PTL DEF RecordsSpec, NumberingSpec
<1>3. RecordsSpec => InventorySpec
    BY <1>1, StepOfTheParts, PTL DEF RecordsSpec, InventorySpec
<1>4. RecordsSpec => DuesSpec
    BY <1>1, StepOfTheParts, PTL DEF RecordsSpec, DuesSpec
<1>5. RecordsSpec => BudgetsSpec
    BY <1>1, StepOfTheParts, PTL DEF RecordsSpec, BudgetsSpec
<1>6. RecordsSpec => Spec
    BY <1>1, StepOfTheParts, PTL DEF RecordsSpec, Spec
<1>7. RecordsSpec => DocumentsSpec
    BY <1>1, StepOfTheParts, PTL DEF RecordsSpec, DocumentsSpec
<1>8. RecordsSpec => MeetingsSpec
    BY <1>1, StepOfTheParts, PTL DEF RecordsSpec, MeetingsSpec
<1>9. RecordsSpec => SessionsSpec
    BY <1>1, StepOfTheParts, PTL DEF RecordsSpec, SessionsSpec
<1>10. RecordsSpec => MembersSpec
    BY <1>1, StepOfTheParts, PTL DEF RecordsSpec, MembersSpec
<1>11. RecordsSpec => OrganizationSpec
    BY <1>1, StepOfTheParts, PTL DEF RecordsSpec, OrganizationSpec
<1>12. RecordsSpec => RowsSpec
    BY <1>1, StepOfTheParts, PTL DEF RecordsSpec, RowsSpec
<1>13. RecordsSpec => RateLimitsSpec
    BY <1>1, StepOfTheParts, PTL DEF RecordsSpec, RateLimitsSpec
<1>14. RecordsSpec => PoliciesSpec
    BY <1>1, StepOfTheParts, PTL DEF RecordsSpec, PoliciesSpec
<1>15. RecordsSpec => AttachmentsSpec
    BY <1>1, StepOfTheParts, PTL DEF RecordsSpec, AttachmentsSpec
<1>16. RecordsSpec => AttendanceSpec
    BY <1>1, StepOfTheParts, PTL DEF RecordsSpec, AttendanceSpec
<1>17. RecordsSpec => HeadsSpec
    BY <1>1, StepOfTheParts, PTL DEF RecordsSpec, HeadsSpec
<1>18. RecordsSpec => PartnersSpec
    BY <1>1, StepOfTheParts, PTL DEF RecordsSpec, PartnersSpec
<1>19. QED
    BY <1>2, <1>3, <1>4, <1>5, <1>6, <1>7, <1>8, <1>9, <1>10, <1>11, <1>12, <1>13, <1>14,
       <1>15, <1>16, <1>17, <1>18

\* Every row, lock and call of every part is what its columns and steps allow.
THEOREM RecordsTyped == RecordsSpec => []RecordsTypeOK
<1>1. /\ NumberingInv => NumberingTypeOK
      /\ InventoryInv => InventoryTypeOK
      /\ DuesInv => DuesTypeOK
      /\ BudgetsInv => BudgetsTypeOK
      /\ IdempotencyInv => TypeOK
      /\ DocumentsInv => DocumentsTypeOK
      /\ MeetingsInv => MeetingsTypeOK
      /\ SessionsInv => SessionsTypeOK
      /\ MembersInv => MembersTypeOK
      /\ OrganizationInv => OrganizationTypeOK
      /\ RowsInv => RowsTypeOK
      /\ RateLimitsInv => RateLimitsTypeOK
      /\ PoliciesInv => PoliciesTypeOK
      /\ AttachmentsInv => AttachmentsTypeOK
      /\ HeadsInv => HeadsTypeOK
      /\ PartnersInv => PartnersTypeOK
    BY DEF NumberingInv, InventoryInv, DuesInv, BudgetsInv, IdempotencyInv, DocumentsInv,
       MeetingsInv, SessionsInv, MembersInv, OrganizationInv, RowsInv, RateLimitsInv,
       PoliciesInv, AttachmentsInv, HeadsInv, PartnersInv
<1>2. /\ NumberingTypeOK
      /\ InventoryTypeOK
      /\ DuesTypeOK
      /\ BudgetsTypeOK
      /\ TypeOK
      /\ DocumentsTypeOK
      /\ MeetingsTypeOK
      /\ SessionsTypeOK
      /\ MembersTypeOK
      /\ OrganizationTypeOK
      /\ RowsTypeOK
      /\ RateLimitsTypeOK
      /\ PoliciesTypeOK
      /\ AttachmentsTypeOK
      /\ HeadsTypeOK
      /\ PartnersTypeOK
      /\ AttendanceTypeOK
      => RecordsTypeOK
    BY DEF RecordsTypeOK, LedgersTypeOK
<1>3. QED
    BY <1>1, <1>2, TheWholeRunsItsParts, NumberingInvariant, InventoryInvariant,
       DuesInvariant, BudgetsInvariant, IdempotencyInvariant, DocumentsInvariant,
       MeetingsInvariant, SessionsInvariant, MembersInvariant, OrganizationInvariant,
       RowsInvariant, RateLimitsInvariant, PoliciesInvariant, AttachmentsInvariant,
       HeadsInvariant, PartnersInvariant, AttendanceTyped, PTL
=============================================================================
