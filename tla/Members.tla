------------------------------- MODULE Members -------------------------------
(***************************************************************************)
(* Members and the posts they hold: ProfilesService, the login that adopts *)
(* an invited member, WorkReleaseService, and the calls of WorkItems- and  *)
(* RequestsService that name a person in charge (PIC) or ask for one.      *)
(*                                                                         *)
(* A call reads and checks, and writes later.  Of a version only this      *)
(* matters, whether the row still has the one that was read: each call     *)
(* keeps that as fresh, and a write that raises the version takes it from  *)
(* the calls that have read the row.                                       *)
(*                                                                         *)
(* The transaction of update has up to four steps: the UPDATE of the       *)
(* profile, those of the work items and of the requests, and the COMMIT.   *)
(* Until it commits others read the rows as they were, and who would write *)
(* one of its rows waits.  The other calls write one row each, by the      *)
(* statement that ends them.                                               *)
(***************************************************************************)
EXTENDS Integers, FiniteSets

CONSTANTS Profiles, \* profiles that may be created
          Founder,  \* the owner the system begins with
          Posts,    \* work items and requests
          WorkPosts, \* those that are work items
          Managers, \* calls that may run at the same time
          Sent,     \* the bodies of update that clients send
          NoProfile    \* no profile

ASSUME FounderAssumption == Founder \in Profiles
ASSUME NoProfileAssumption == NoProfile \notin Profiles
ASSUME WorkPostsAssumption == WorkPosts \subseteq Posts

VARIABLES
    member,   \* the rows of profiles: status, and whether roles has owner
    post,     \* the rows of work_items and requests: the PIC, and whether the row
              \* is neither removed nor archived
    managing, \* what each call is doing
    astray    \* the posts that were given to a PIC who had stopped being active
              \* since the check, or whose posts had just been released, whose PIC
              \* was updated after a login the update had not seen, or that came
              \* back from the bin (history)

memberVars == <<member, post, managing, astray>>

-----------------------------------------------------------------------------
ProfileStatuses == {"invited", "active", "inactive"}
Member == [status: ProfileStatuses \union {"none"}, owner: BOOLEAN]
NoMember == [status |-> "none", owner |-> FALSE]
Post == [pic: Profiles \union {NoProfile}, live: BOOLEAN]

\* A body of update: what it leaves out stays "same".
Body == [status: ProfileStatuses \union {"same"}, owner: {"same", "give", "take"}]
NoBody == [status |-> "same", owner |-> "same"]
ASSUME SentAssumption == Sent \subseteq Body

TransactionSteps == {"releaseItems", "releaseRequests", "commit"}
UpdateSteps == {"update"} \union TransactionSteps

\* seen: the member as it was read.  post: the post of an assignment or a move,
\* or those an update has released.  alone: no other call has written a member
\* since an update has read it (history).
Managing == [step: {"idle", "login", "assign", "move"} \union UpdateSteps,
             who: Profiles \union {NoProfile}, post: SUBSET Posts, body: Body,
             seen: Member, fresh: BOOLEAN, alone: BOOLEAN]
NotManaging == [step |-> "idle", who |-> NoProfile, post |-> {}, body |-> NoBody,
                seen |-> NoMember, fresh |-> FALSE, alone |-> FALSE]

MembersTypeOK ==
    /\ member \in [Profiles -> Member]
    /\ post \in [Posts -> Post]
    /\ managing \in [Managers -> Managing]
    /\ astray \subseteq Posts

MembersInit ==
    /\ member = [p \in Profiles |-> IF p = Founder
                                    THEN [status |-> "active", owner |-> TRUE] ELSE NoMember]
    /\ post = [k \in Posts |-> [pic |-> NoProfile, live |-> TRUE]]
    /\ managing = [c \in Managers |-> NotManaging]
    /\ astray = {}

-----------------------------------------------------------------------------
ActiveOwner(m) == m.status = "active" /\ m.owner
IsActive(p)    == p # NoProfile /\ member[p].status = "active"
ManagingAt(c, step)    == managing[c].step = step

\* The rows that a transaction of update has written and not committed.
InTransaction(c)  == managing[c].step \in TransactionSteps
ProfileLocked(p)  == \E c \in Managers : InTransaction(c) /\ managing[c].who = p
PostLocked(k)     == \E c \in Managers : InTransaction(c) /\ k \in managing[c].post

BeginManaging(c, call) ==
    /\ ManagingAt(c, "idle")
    /\ managing' = [managing EXCEPT ![c] = [call EXCEPT !.fresh = TRUE, !.alone = TRUE]]

\* What becomes of alone when the profiles in ps are written.
StaysAlone(o, ps) == managing[o].alone /\ (managing[o].step \in UpdateSteps => ps = {})

\* Call c ends.  The rows of profiles in ps and of posts in ks have a new version.
EndManaging(c, ps, ks) ==
    managing' = [o \in Managers |->
        IF o = c THEN NotManaging
        ELSE [managing[o] EXCEPT
                !.fresh = @ /\ (IF managing[o].step \in UpdateSteps THEN managing[o].who \notin ps
                                ELSE managing[o].post \intersect ks = {}),
                !.alone = StaysAlone(o, ps)]]

-----------------------------------------------------------------------------
(* ProfilesService.                                                        *)

CreateProfile(p, status, owner) ==
    /\ member[p].status = "none"
    /\ member' = [member EXCEPT ![p] = [status |-> status, owner |-> owner]]
    /\ UNCHANGED <<post, managing, astray>>

After(m, body) ==
    [status |-> IF body.status = "same" THEN m.status ELSE body.status,
     owner  |-> IF body.owner = "same" THEN m.owner ELSE body.owner = "give"]

StatusTransition(p, body) == body.status = "invited" => member[p].status = "invited"

NotTheLastCountingItself(p, body) ==
    ActiveOwner(member[p]) /\ ~ActiveOwner(After(member[p], body))
        => \E o \in Profiles : ActiveOwner(member[o])
NotTheLastOwner(p, body) ==
    ActiveOwner(member[p]) /\ ~ActiveOwner(After(member[p], body))
        => \E o \in Profiles \ {p} : ActiveOwner(member[o])

\* update, before its transaction: the two checks are made of a body that
\* brings a status.  (The member was read by an earlier statement than the other
\* owners; nothing comes of it if it has changed in between.)
StartUpdate(c, p, body) ==
    /\ member[p].status # "none"
    /\ body.status # "same" => StatusTransition(p, body) /\ NotTheLastOwner(p, body)
    /\ BeginManaging(c, [NotManaging EXCEPT !.step = "update", !.who = p, !.body = body,
                                    !.seen = member[p]])
    /\ UNCHANGED <<member, post, astray>>

\* releaseWithin: no live work item and no live request keeps the member as its PIC.
ReleasesNothing(p) == {}
Released(p) == {k \in Posts : post[k].live /\ post[k].pic = p}

\* What the transaction of update makes of the member, whose row it keeps.
Becomes(c) == After(member[managing[c].who], managing[c].body)
Releases(c) == Becomes(c).status = "inactive" /\ managing[c].seen.status # "inactive"

\* The UPDATE ... WHERE version.
WriteProfile(c) ==
    /\ ManagingAt(c, "update")
    /\ ~ProfileLocked(managing[c].who)
    /\ IF managing[c].fresh
       THEN managing' = [managing EXCEPT ![c].step = IF Releases(c) THEN "releaseItems" ELSE "commit"]
       ELSE EndManaging(c, {}, {})
    /\ UNCHANGED <<member, post, astray>>

\* releaseWithin of one who becomes inactive, in the work items first.
ReleaseWithin(c, ks, next) ==
    /\ managing' = [managing EXCEPT ![c].step = next, ![c].post = @ \union ks]
    /\ UNCHANGED <<member, post, astray>>
ReleaseWorkItems(c) ==
    /\ ManagingAt(c, "releaseItems")
    /\ ReleaseWithin(c, Released(managing[c].who) \intersect WorkPosts, "releaseRequests")
ReleaseRequests(c) ==
    /\ ManagingAt(c, "releaseRequests")
    /\ ReleaseWithin(c, Released(managing[c].who) \ WorkPosts, "commit")

\* Call c has written the table of post k.
PastRelease(c, k) ==
    ManagingAt(c, "commit") \/ (ManagingAt(c, "releaseRequests") /\ k \in WorkPosts)

\* A call that makes p inactive no longer releases post k.
MissedBy(p, k) ==
    \E c \in Managers :
        managing[c].who = p /\ Becomes(c).status = "inactive" /\ PastRelease(c, k)

CommitUpdate(c) ==
    LET p  == managing[c].who
        ks == managing[c].post
    IN /\ ManagingAt(c, "commit")
       /\ member' = [member EXCEPT ![p] = Becomes(c)]
       /\ post' = [k \in Posts |-> IF k \in ks THEN [post[k] EXCEPT !.pic = NoProfile] ELSE post[k]]
       /\ astray' = IF managing[c].seen = member[p] THEN astray \ ks
                    ELSE (astray \union Released(p)) \ ks
       /\ EndManaging(c, {p}, ks)

\* updateSelf and resetPassword set columns that do not matter here, and raise
\* the version.
TouchProfile(p) ==
    /\ member[p].status # "none"
    /\ ~ProfileLocked(p)
    /\ managing' = [c \in Managers |->
                      IF ManagingAt(c, "update") /\ managing[c].who = p
                      THEN [managing[c] EXCEPT !.fresh = FALSE] ELSE managing[c]]
    /\ UNCHANGED <<member, post, astray>>

UpdateSelf(p)    == member[p].status # "inactive" /\ TouchProfile(p)
ResetPasswordOf(p) == TouchProfile(p)

-----------------------------------------------------------------------------
(* loginWithGoogle: a member who was invited becomes active, by id and     *)
(* without a new version.                                                  *)

StartFirstLogin(c, p) ==
    /\ member[p].status = "invited"
    /\ BeginManaging(c, [NotManaging EXCEPT !.step = "login", !.who = p])
    /\ UNCHANGED <<member, post, astray>>

FinishFirstLogin(c) ==
    /\ ManagingAt(c, "login")
    /\ ~ProfileLocked(managing[c].who)
    /\ member' = [member EXCEPT ![managing[c].who].status = "active"]
    /\ managing' = [o \in Managers |->
                       IF o = c THEN NotManaging
                       ELSE [managing[o] EXCEPT !.alone = StaysAlone(o, {managing[c].who})]]
    /\ UNCHANGED <<post, astray>>

-----------------------------------------------------------------------------
(* Work items and requests.                                                *)

\* assertPicIsActive, a SELECT in the transaction that sets the PIC.
StartAssign(c, k, p) ==
    /\ post[k].live
    /\ p = NoProfile \/ IsActive(p)
    /\ BeginManaging(c, [NotManaging EXCEPT !.step = "assign", !.who = p, !.post = {k}])
    /\ UNCHANGED <<member, post, astray>>

\* The UPDATE ... WHERE version.
FinishAssign(c) ==
    LET k == CHOOSE k \in managing[c].post : TRUE
        p == managing[c].who
    IN /\ ManagingAt(c, "assign")
       /\ ~PostLocked(k)
       /\ IF managing[c].fresh
          THEN /\ post' = [post EXCEPT ![k].pic = p]
               /\ astray' = IF p = NoProfile \/ (IsActive(p) /\ ~MissedBy(p, k)) THEN astray \ {k}
                            ELSE astray \union {k}
               /\ EndManaging(c, {}, {k})
          ELSE /\ EndManaging(c, {}, {})
               /\ UNCHANGED <<post, astray>>
       /\ UNCHANGED member

\* WorkItemsService.transition to a status that asks for a PIC: assertPicReady,
\* of the row read before the transaction.
StartMove(c, k) ==
    /\ k \in WorkPosts
    /\ post[k].live
    /\ IsActive(post[k].pic)
    /\ BeginManaging(c, [NotManaging EXCEPT !.step = "move", !.post = {k}])
    /\ UNCHANGED <<member, post, astray>>

AlwaysLands(c) == TRUE
Lands(c) == managing[c].fresh

FinishMove(c) ==
    /\ ManagingAt(c, "move")
    /\ \A k \in managing[c].post : ~PostLocked(k)
    /\ EndManaging(c, {}, IF Lands(c) THEN managing[c].post ELSE {})
    /\ UNCHANGED <<member, post, astray>>

\* remove, and the recycle bin: a removed post keeps its PIC, and is not released.
\* (To one that is deleted for good nothing happens any more.)
RemovePost(k) ==
    /\ post[k].live
    /\ ~PostLocked(k)
    /\ post' = [post EXCEPT ![k].live = FALSE]
    /\ managing' = [c \in Managers |-> [managing[c] EXCEPT !.fresh = @ /\ k \notin managing[c].post]]
    /\ UNCHANGED <<member, astray>>

RestorePost(k) ==
    /\ ~PostLocked(k)
    /\ post' = [post EXCEPT ![k].live = TRUE]
    /\ managing' = [c \in Managers |-> [managing[c] EXCEPT !.fresh = @ /\ k \notin managing[c].post]]
    /\ astray' = IF post[k].live \/ post[k].pic = NoProfile THEN astray ELSE astray \union {k}
    /\ UNCHANGED member

\* The statement fails or the instance stops: the transaction is rolled back.
StopManaging(c) ==
    /\ ~ManagingAt(c, "idle")
    /\ EndManaging(c, {}, {})
    /\ UNCHANGED <<member, post, astray>>

MembersNext ==
    \/ \E p \in Profiles :
          \/ \E status \in ProfileStatuses, owner \in BOOLEAN : CreateProfile(p, status, owner)
          \/ UpdateSelf(p) \/ ResetPasswordOf(p)
    \/ \E c \in Managers :
          \/ \E p \in Profiles :
                \/ \E body \in Sent : StartUpdate(c, p, body)
                \/ StartFirstLogin(c, p)
          \/ \E k \in Posts :
                \/ \E p \in Profiles \union {NoProfile} : StartAssign(c, k, p)
                \/ StartMove(c, k)
          \/ WriteProfile(c) \/ ReleaseWorkItems(c) \/ ReleaseRequests(c) \/ CommitUpdate(c)
          \/ FinishFirstLogin(c) \/ FinishAssign(c) \/ FinishMove(c)
          \/ StopManaging(c)
    \/ \E k \in Posts : RemovePost(k) \/ RestorePost(k)

MembersSpec == MembersInit /\ [][MembersNext]_memberVars

-----------------------------------------------------------------------------
\* assertNotLastOwner: a body that brings a status takes away the last active
\* owner only if another call wrote a member since its check.
OnlyARaceEndsTheLastOwner ==
    [][(\E p \in Profiles : ActiveOwner(member[p]))
       /\ ~(\E p \in Profiles : ActiveOwner(member'[p]))
         => \E c \in Managers : /\ CommitUpdate(c)
                                /\ managing[c].body.status = "same" \/ ~managing[c].alone
      ]_memberVars

\* The system keeps an active owner ("Menolak perubahan yang membuat sistem
\* kehilangan owner aktif terakhirnya", profiles.service.ts).
AnOwnerRemains == \E p \in Profiles : ActiveOwner(member[p])

\* releaseWithin: the PIC of a post that is not removed is no inactive member,
\* unless the member was deactivated between the check and the assignment, the
\* assignment was committed after the release and before the deactivation was, a
\* login came between the member's own check and update, or the post comes from
\* the bin.
OnlyARaceKeepsAnInactivePic ==
    \A k \in Posts :
        post[k].live /\ post[k].pic # NoProfile /\ member[post[k].pic].status = "inactive"
            => k \in astray

\* assertPicReady: a work item that is moved has an active PIC when its row is
\* written, or one it was given astray, although only the item's version is
\* compared.
MovesHaveAPic ==
    \A c \in Managers : \A k \in Posts :
        ManagingAt(c, "move") /\ Lands(c) /\ k \in managing[c].post
            => post[k].pic # NoProfile /\ (member[post[k].pic].status = "inactive" => k \in astray)
=============================================================================
