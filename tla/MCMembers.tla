------------------------------ MODULE MCMembers ------------------------------
(***************************************************************************)
(* The bodies of ProfilesService.update that the runs send.                *)
(***************************************************************************)
EXTENDS Members

\* Bodies that change the status or take the owner role away, not both.  (CreateProfile
\* brings the other owners, and the members who are only invited.)
SomeBodies == {b \in Body : /\ b.owner # "give" /\ b.status # "invited"
                            /\ b.status = "same" \/ b.owner = "same"} \ {NoBody}
=============================================================================
