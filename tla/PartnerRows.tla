----------------------------- MODULE PartnerRows ------------------------------
(***************************************************************************)
(* What hangs on a partner: the follow-ups, which are only added, and the  *)
(* promised benefits.  Each call of PartnersService is a SELECT of the     *)
(* live partner and then one statement on the other table; the partner's   *)
(* own row is in Documents.                                                *)
(***************************************************************************)
EXTENDS Integers

CONSTANTS Benefits,    \* benefits that may be promised
          Fulfilments, \* what a benefit's status may say
          Tenders,     \* calls that may run at the same time
          MaxFollowups

ASSUME MaxFollowupsAssumption == MaxFollowups \in Nat

VARIABLES
    partner,   \* the partner: "live", "removed" or "gone"
    promised,  \* the rows of sponsor_benefits: each one's status, or "none"
    followups, \* how many rows partner_followups has
    tending    \* what each call is doing

partnerVars == <<partner, promised, followups, tending>>

\* late: the partner has left the live ones since the call found it (history).
Tending ==
    [step: {"addFollowup"}, late: BOOLEAN]
    \union [step: {"removeBenefit"}, benefit: Benefits, late: BOOLEAN]
    \union [step: {"addBenefit", "updateBenefit"}, benefit: Benefits,
            status: Fulfilments, late: BOOLEAN]
NotTending == [step |-> "idle"]

PartnersTypeOK ==
    /\ partner \in {"live", "removed", "gone"}
    /\ promised \in [Benefits -> Fulfilments \union {"none"}]
    /\ followups \in 0 .. MaxFollowups
    /\ tending \in [Tenders -> Tending \union {NotTending}]

PartnersInit ==
    /\ partner = "live"
    /\ promised = [b \in Benefits |-> "none"]
    /\ followups = 0
    /\ tending = [t \in Tenders |-> NotTending]

-----------------------------------------------------------------------------
\* findOne
FoundInTheBinToo == partner # "gone"
FindOne == partner = "live"

\* A new benefit has an id of its own.
StartTending(t, call) ==
    /\ FindOne
    /\ tending[t] = NotTending
    /\ ~call.late
    /\ call.step = "addBenefit" =>
          /\ promised[call.benefit] = "none"
          /\ \A o \in Tenders : tending[o].step = "addBenefit" => tending[o].benefit # call.benefit
    /\ tending' = [tending EXCEPT ![t] = call]
    /\ UNCHANGED <<partner, promised, followups>>

Tend(t, step) ==
    /\ tending[t].step = step
    /\ tending' = [tending EXCEPT ![t] = NotTending]
    /\ UNCHANGED partner

\* A row may be added as long as there is a partner for it to point at.
AddFollowup(t) ==
    /\ Tend(t, "addFollowup")
    /\ partner # "gone" => followups < MaxFollowups
    /\ followups' = IF partner = "gone" THEN followups ELSE followups + 1
    /\ UNCHANGED promised

AddBenefit(t) ==
    LET b == tending[t].benefit
    IN /\ Tend(t, "addBenefit")
       /\ promised' = IF partner = "gone" THEN promised
                      ELSE [promised EXCEPT ![b] = tending[t].status]
       /\ UNCHANGED followups

UpdateBenefit(t) ==
    LET b == tending[t].benefit
    IN /\ Tend(t, "updateBenefit")
       /\ promised' = IF promised[b] = "none" THEN promised
                      ELSE [promised EXCEPT ![b] = tending[t].status]
       /\ UNCHANGED followups

RemoveBenefit(t) ==
    /\ Tend(t, "removeBenefit")
    /\ promised' = [promised EXCEPT ![tending[t].benefit] = "none"]
    /\ UNCHANGED followups

-----------------------------------------------------------------------------
LateAll == [t \in Tenders |-> IF tending[t] = NotTending THEN NotTending
                                ELSE [tending[t] EXCEPT !.late = TRUE]]

\* PartnersService.remove, and the bin: restore, and permanentlyDelete, which takes
\* the rows with it (on delete cascade).
RemovePartner ==
    /\ partner = "live"
    /\ partner' = "removed"
    /\ tending' = LateAll
    /\ UNCHANGED <<promised, followups>>

RestorePartner ==
    /\ partner = "removed"
    /\ partner' = "live"
    /\ UNCHANGED <<promised, followups, tending>>

PurgePartner ==
    /\ partner # "gone"
    /\ partner' = "gone"
    /\ promised' = [b \in Benefits |-> "none"]
    /\ followups' = 0
    /\ tending' = LateAll

\* A statement fails or the instance stops.
StopTending(t) ==
    /\ tending[t] # NotTending
    /\ tending' = [tending EXCEPT ![t] = NotTending]
    /\ UNCHANGED <<partner, promised, followups>>

PartnersNext ==
    \/ RemovePartner \/ RestorePartner \/ PurgePartner
    \/ \E t \in Tenders :
          \/ \E call \in Tending : StartTending(t, call)
          \/ AddFollowup(t) \/ AddBenefit(t) \/ UpdateBenefit(t) \/ RemoveBenefit(t)
          \/ StopTending(t)

PartnersSpec == PartnersInit /\ [][PartnersNext]_partnerVars

-----------------------------------------------------------------------------
\* What hangs on a partner changes while the partner is in the bin only by a call
\* that had found it live; with the partner it goes, and nothing comes after.
TheBinKeepsAPartnersRows ==
    [][<<promised, followups>>' # <<promised, followups>> /\ partner # "live"
          => \/ partner' = "gone" /\ partner # "gone" /\ followups' = 0
             \/ /\ partner = "removed"
                /\ \E t \in Tenders : /\ tending[t] # NotTending
                                      /\ tending[t].late
                                      /\ tending'[t] = NotTending]_partnerVars
=============================================================================
