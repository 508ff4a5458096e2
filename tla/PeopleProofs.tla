---------------------------- MODULE PeopleProofs ----------------------------
(***************************************************************************)
(* The members and the heads of their clusters, the units of the           *)
(* organization and the periods, for any of them and any number of calls.  *)
(***************************************************************************)
EXTENDS Members, ClusterHeads, Organization, OrganizationRows, TLAPS

-----------------------------------------------------------------------------
(* The members, their roles and the work items they are in charge of.      *)

\* A PIC is a member there is: profiles are never removed.
PicsExist ==
    \A k \in Posts : post[k].pic # NoProfile => member[post[k].pic].status # "none"

\* What a running call is about, and what it still knows: of a work item as long
\* as its version is the one it has read, of the owners as long as nobody else
\* has written a member.
MemberCallStands(c) ==
    /\ managing[c].step \in UpdateSteps \union {"login"} => managing[c].who \in Profiles
    /\ managing[c].step # "idle" /\ managing[c].who # NoProfile
        => member[managing[c].who].status # "none"
    /\ managing[c].step = "assign" => \E k \in Posts : managing[c].post = {k}
    /\ managing[c].step = "move" /\ managing[c].fresh
        => \A k \in managing[c].post : post[k].live /\ post[k].pic # NoProfile
    /\ managing[c].step \in UpdateSteps /\ managing[c].alone /\ managing[c].body.status # "same"
        => NotTheLastOwner(managing[c].who, managing[c].body)

\* Two transactions never hold the row of one member.
LocksExclude ==
    \A c, o \in Managers :
        InTransaction(c) /\ InTransaction(o) /\ managing[c].who = managing[o].who => c = o

\* Of the tables it has written, a call that deactivates a member has missed only
\* the posts that went astray.
ReleaseStands(c) ==
    \A k \in Posts :
        /\ Releases(c) /\ PastRelease(c, k)
        /\ post[k].live /\ post[k].pic = managing[c].who /\ k \notin managing[c].post
        => k \in astray

MembersInv ==
    /\ MembersTypeOK
    /\ PicsExist
    /\ \A c \in Managers : MemberCallStands(c)
    /\ LocksExclude
    /\ \A c \in Managers : ReleaseStands(c)
    /\ OnlyARaceKeepsAnInactivePic

\* A step leaves call c what it is; it may only take from it what it knows.
SameCall(c) ==
    /\ managing'[c].step = managing[c].step /\ managing'[c].who = managing[c].who
    /\ managing'[c].post = managing[c].post /\ managing'[c].body = managing[c].body
    /\ managing'[c].seen = managing[c].seen
    /\ managing'[c].fresh => managing[c].fresh
    /\ managing'[c].alone => managing[c].alone

-----------------------------------------------------------------------------
\* A body makes a member of a member.
LEMMA AfterIsAMember ==
    ASSUME NEW m \in Member, NEW body \in Body, m.status # "none"
    PROVE  After(m, body) \in Member /\ After(m, body).status # "none"
BY DEF After, Member, Body, ProfileStatuses

\* What a call knows of the rows it keeps as long as they stay as they are, and
\* the more owners there are the better.
LEMMA CallStays ==
    ASSUME MembersInv, NEW c \in Managers,
           SameCall(c),
           \A p \in Profiles : member[p].status # "none" => member'[p].status # "none",
           managing[c].step = "move" /\ managing'[c].fresh
              => \A k \in managing[c].post : post'[k] = post[k],
           managing[c].step \in UpdateSteps /\ managing'[c].alone
              => \A p \in Profiles : member[p].status # "none" => member'[p] = member[p]
    PROVE  MemberCallStands(c)'
<1>1. MemberCallStands(c) /\ managing[c] \in Managing /\ member \in [Profiles -> Member]
    BY DEF MembersInv, MembersTypeOK
<1>2. managing'[c].step \in UpdateSteps \union {"login"} => managing'[c].who \in Profiles
    BY <1>1 DEF MemberCallStands, SameCall
<1>3. managing'[c].step # "idle" /\ managing'[c].who # NoProfile
        => member'[managing'[c].who].status # "none"
    BY <1>1 DEF MemberCallStands, Managing, SameCall
<1>4. managing'[c].step = "assign" => \E k \in Posts : managing'[c].post = {k}
    BY <1>1 DEF MemberCallStands, SameCall
<1>5. managing'[c].step = "move" /\ managing'[c].fresh
        => \A k \in managing'[c].post : post'[k].live /\ post'[k].pic # NoProfile
    BY <1>1 DEF MemberCallStands, SameCall
<1>6. ASSUME managing'[c].step \in UpdateSteps, managing'[c].alone,
             managing'[c].body.status # "same"
      PROVE  NotTheLastOwner(managing[c].who, managing[c].body)'
  <2> DEFINE p == managing[c].who
  <2>1. /\ p \in Profiles /\ member[p].status # "none"
        /\ NotTheLastOwner(p, managing[c].body)
      BY <1>1, <1>6, NoProfileAssumption
         DEF MemberCallStands, SameCall, UpdateSteps, TransactionSteps
  <2>2. \A o \in Profiles : member[o].status # "none" => member'[o] = member[o]
      BY <1>6 DEF SameCall
  <2>3. \A o \in Profiles : ActiveOwner(member[o]) => ActiveOwner(member'[o])
      BY <2>2 DEF ActiveOwner
  <2>4. QED
      BY <2>1, <2>2, <2>3, <1>6 DEF NotTheLastOwner, SameCall
<1>7. QED
    BY <1>2, <1>3, <1>4, <1>5, <1>6 DEF MemberCallStands, SameCall

\* A call that has ended knows nothing.
LEMMA IdleStands ==
    ASSUME NEW c, managing'[c] = NotManaging PROVE MemberCallStands(c)'
BY DEF MemberCallStands, NotManaging, UpdateSteps, TransactionSteps

\* A step that brings no call into its transaction, writes no row a transaction
\* holds, and gives no member who is being deactivated a post that does not go
\* astray.
LEMMA LocksAndReleasesStay ==
    ASSUME MembersInv,
           \A o \in Managers : SameCall(o) \/ managing'[o].step \notin TransactionSteps,
           \A o \in Managers : managing'[o].step \in TransactionSteps
               => member'[managing[o].who] = member[managing[o].who],
           \A o \in Managers : \A k \in Posts :
               /\ managing'[o].step \in TransactionSteps /\ Releases(o) /\ PastRelease(o, k)
               /\ post'[k].live /\ post'[k].pic = managing[o].who
               => \/ k \in astray'
                  \/ /\ post[k].live /\ post[k].pic = managing[o].who
                     /\ k \in astray => k \in astray'
    PROVE  LocksExclude' /\ \A o \in Managers : ReleaseStands(o)'
<1>1. \A o \in Managers : InTransaction(o)' => SameCall(o) /\ InTransaction(o)
    BY DEF InTransaction, SameCall
<1>2. LocksExclude'
    BY <1>1 DEF MembersInv, LocksExclude, SameCall
<1>3. ASSUME NEW o \in Managers PROVE ReleaseStands(o)'
  <2> SUFFICES ASSUME NEW k \in Posts, Releases(o)', PastRelease(o, k)',
                      post'[k].live, post'[k].pic = managing'[o].who, k \notin managing'[o].post
               PROVE  k \in astray'
      BY DEF ReleaseStands
  <2>1. managing'[o].step \in TransactionSteps
      BY DEF PastRelease, ManagingAt, TransactionSteps
  <2>2. SameCall(o)
      BY <2>1
  <2>3. PastRelease(o, k)
      BY <2>2 DEF PastRelease, ManagingAt, SameCall
  <2>4. Releases(o)
      BY <2>1, <2>2 DEF Releases, Becomes, SameCall
  <2>5. ReleaseStands(o)
      BY DEF MembersInv
  <2>6. QED
      BY <2>1, <2>2, <2>3, <2>4, <2>5 DEF ReleaseStands, SameCall
<1>4. QED
    BY <1>2, <1>3

\* EndManaging leaves every other call what it is, if no member is written, or
\* alone is taken from the updates.
LEMMA EndOf ==
    ASSUME MembersInv, NEW c \in Managers, NEW ps \in SUBSET Profiles, NEW ks \in SUBSET Posts,
           EndManaging(c, ps, ks)
    PROVE  /\ managing' \in [Managers -> Managing]
           /\ managing'[c] = NotManaging
           /\ \A o \in Managers \ {c} :
                 /\ SameCall(o)
                 /\ managing[o].step = "move" /\ managing'[o].fresh
                       => managing[o].post \intersect ks = {}
                 /\ managing[o].step \in UpdateSteps /\ managing'[o].alone => ps = {}
<1> DEFINE rest(o) == [managing[o] EXCEPT
                !.fresh = @ /\ (IF managing[o].step \in UpdateSteps THEN managing[o].who \notin ps
                                ELSE managing[o].post \intersect ks = {}),
                !.alone = StaysAlone(o, ps)]
<1>1. managing' = [o \in Managers |-> IF o = c THEN NotManaging ELSE rest(o)]
    BY DEF EndManaging
<1>2. NotManaging \in Managing
    BY DEF NotManaging, Managing, NoBody, Body, NoMember, Member
<1>3. \A o \in Managers : managing[o] \in Managing
    BY DEF MembersInv, MembersTypeOK
<1>4. \A o \in Managers : rest(o) \in Managing
    BY <1>3 DEF Managing, StaysAlone
<1>5. managing' \in [Managers -> Managing]
    BY <1>1, <1>2, <1>4
<1>6. managing'[c] = NotManaging
    BY <1>1
<1>7. ASSUME NEW o \in Managers \ {c}
      PROVE  /\ SameCall(o)
             /\ managing[o].step = "move" /\ managing'[o].fresh
                   => managing[o].post \intersect ks = {}
             /\ managing[o].step \in UpdateSteps /\ managing'[o].alone => ps = {}
  <2>1. "move" \notin UpdateSteps
      BY DEF UpdateSteps, TransactionSteps
  <2>2. QED
    BY <1>1, <1>3, <2>1 DEF Managing, StaysAlone, SameCall
<1>8. QED
    BY <1>5, <1>6, <1>7

\* BeginManaging brings one call of its own.
LEMMA BeginOf ==
    ASSUME MembersInv, NEW c \in Managers, NEW job \in Managing, BeginManaging(c, job)
    PROVE  /\ managing' \in [Managers -> Managing]
           /\ managing'[c] = [job EXCEPT !.fresh = TRUE, !.alone = TRUE]
           /\ \A o \in Managers \ {c} : managing'[o] = managing[o]
<1>1. [job EXCEPT !.fresh = TRUE, !.alone = TRUE] \in Managing
    BY DEF Managing
<1>2. managing \in [Managers -> Managing]
    BY DEF MembersInv, MembersTypeOK
<1>3. QED
    BY <1>1, <1>2 DEF BeginManaging

\* A call that begins changes nothing but what it knows itself.
LEMMA MemberBeginKeeps ==
    ASSUME MembersInv, NEW c \in Managers, NEW job \in Managing, BeginManaging(c, job),
           job.step \notin TransactionSteps,
           UNCHANGED <<member, post, astray>>, MemberCallStands(c)'
    PROVE  MembersInv'
<1>1. managing' \in [Managers -> Managing] /\ \A o \in Managers \ {c} : managing'[o] = managing[o]
    BY BeginOf
<1>2. \A o \in Managers \ {c} : MemberCallStands(o)'
    BY <1>1, CallStays DEF SameCall
<1>3. MembersTypeOK' /\ PicsExist' /\ OnlyARaceKeepsAnInactivePic'
    BY <1>1 DEF MembersInv, MembersTypeOK, PicsExist, OnlyARaceKeepsAnInactivePic
<1>4. managing'[c].step \notin TransactionSteps
  <2>1. managing'[c] = [job EXCEPT !.fresh = TRUE, !.alone = TRUE]
      BY BeginOf
  <2>2. QED
      BY <2>1 DEF Managing
<1>5. LocksExclude' /\ \A o \in Managers : ReleaseStands(o)'
    BY <1>1, <1>4, LocksAndReleasesStay DEF SameCall
<1>6. QED
    BY <1>2, <1>3, <1>5 DEF MembersInv

-----------------------------------------------------------------------------
\* Between two calls there is a record, too, and nobody it is about.
LEMMA NoCall == NotManaging \in Managing /\ NotManaging.who = NoProfile
BY DEF NotManaging, Managing, NoBody, Body, NoMember, Member

\* Only the founder is a member, the posts are empty, and no call runs.
LEMMA MembersStart == MembersInit => MembersInv
<1> SUFFICES ASSUME MembersInit PROVE MembersInv
    OBVIOUS
<1>1. MembersTypeOK
    BY NoCall DEF MembersInit, MembersTypeOK, NoMember, Member, Post, ProfileStatuses
<1>2. PicsExist /\ OnlyARaceKeepsAnInactivePic
    BY DEF MembersInit, PicsExist, OnlyARaceKeepsAnInactivePic
<1>3. \A c \in Managers : MemberCallStands(c)
    BY DEF MembersInit, MemberCallStands, NotManaging, UpdateSteps, TransactionSteps
<1>4. LocksExclude /\ \A c \in Managers : ReleaseStands(c)
    BY DEF MembersInit, LocksExclude, ReleaseStands, InTransaction, TransactionSteps,
       PastRelease, ManagingAt, NotManaging
<1>5. QED
    BY <1>1, <1>2, <1>3, <1>4 DEF MembersInv

\* No post has a member for its PIC who is only now created.
LEMMA MemberCreateKeeps ==
    ASSUME MembersInv, NEW p \in Profiles, NEW status \in ProfileStatuses, NEW owner \in BOOLEAN,
           CreateProfile(p, status, owner)
    PROVE  MembersInv'
<1>1. /\ member \in [Profiles -> Member] /\ post \in [Posts -> Post]
      /\ member[p].status = "none" /\ UNCHANGED <<post, managing, astray>>
      /\ member' = [member EXCEPT ![p] = [status |-> status, owner |-> owner]]
    BY DEF CreateProfile, MembersInv, MembersTypeOK
<1>2. MembersTypeOK'
    BY <1>1 DEF MembersInv, MembersTypeOK, Member
<1>3. \A o \in Profiles : member[o].status # "none" => member'[o] = member[o]
    BY <1>1
<1>4. \A k \in Posts : post[k].pic # NoProfile
                          => post[k].pic \in Profiles /\ member[post[k].pic].status # "none"
    BY <1>1 DEF MembersInv, PicsExist, Post
<1>5. PicsExist' /\ OnlyARaceKeepsAnInactivePic'
    BY <1>1, <1>3, <1>4 DEF MembersInv, PicsExist, OnlyARaceKeepsAnInactivePic
<1>6. \A c \in Managers : MemberCallStands(c)'
    BY <1>1, <1>3, CallStays DEF SameCall
<1>7. ASSUME NEW c \in Managers, managing'[c].step \in TransactionSteps
      PROVE  member'[managing[c].who] = member[managing[c].who]
  <2>1. managing[c].step \in UpdateSteps /\ managing[c].step # "idle"
      BY <1>1, <1>7 DEF UpdateSteps, TransactionSteps
  <2>2. managing[c].who \in Profiles /\ member[managing[c].who].status # "none"
      BY <2>1, NoProfileAssumption DEF MembersInv, MemberCallStands
  <2>3. QED
      BY <1>3, <2>2
<1>8. LocksExclude' /\ \A c \in Managers : ReleaseStands(c)'
    BY <1>1, <1>7, LocksAndReleasesStay DEF SameCall
<1>9. QED
    BY <1>2, <1>5, <1>6, <1>8 DEF MembersInv

\* ProfilesService.update has read the member and passed its checks.
LEMMA StartUpdateKeeps ==
    ASSUME MembersInv, NEW c \in Managers, NEW p \in Profiles, NEW body \in Sent,
           StartUpdate(c, p, body)
    PROVE  MembersInv'
<1> DEFINE job == [NotManaging EXCEPT !.step = "update", !.who = p, !.body = body,
                                       !.seen = member[p]]
<1>1. /\ member[p].status # "none" /\ BeginManaging(c, job)
      /\ body.status # "same" => NotTheLastOwner(p, body)
      /\ UNCHANGED <<member, post, astray>>
    BY DEF StartUpdate
<1>2. job \in Managing
    BY NoCall, SentAssumption DEF Managing, MembersInv, MembersTypeOK, UpdateSteps
<1>3. managing'[c] = [job EXCEPT !.fresh = TRUE, !.alone = TRUE]
    BY <1>1, <1>2, BeginOf
<1>4. managing'[c].step = "update" /\ managing'[c].who = p /\ managing'[c].body = body
    BY NoCall, <1>3 DEF Managing
<1>5. NotTheLastOwner(p, body) => NotTheLastOwner(p, body)'
    BY <1>1 DEF NotTheLastOwner
<1>6. MemberCallStands(c)'
    BY <1>1, <1>4, <1>5 DEF MemberCallStands, UpdateSteps
<1>7. QED
    BY <1>1, <1>2, <1>6, MemberBeginKeeps, NoCall DEF Managing, TransactionSteps

\* The first login of a member who was invited has read the row.
LEMMA StartFirstLoginKeeps ==
    ASSUME MembersInv, NEW c \in Managers, NEW p \in Profiles, StartFirstLogin(c, p)
    PROVE  MembersInv'
<1> DEFINE job == [NotManaging EXCEPT !.step = "login", !.who = p]
<1>1. /\ member[p].status = "invited" /\ BeginManaging(c, job)
      /\ UNCHANGED <<member, post, astray>>
    BY DEF StartFirstLogin
<1>2. job \in Managing
    BY NoCall DEF Managing, MembersInv, MembersTypeOK
<1>3. managing'[c] = [job EXCEPT !.fresh = TRUE, !.alone = TRUE]
    BY <1>1, <1>2, BeginOf
<1>4. managing'[c].step = "login" /\ managing'[c].who = p
    BY NoCall, <1>3 DEF Managing
<1>5. MemberCallStands(c)'
    BY <1>1, <1>4 DEF MemberCallStands, UpdateSteps, TransactionSteps
<1>6. QED
    BY <1>1, <1>2, <1>5, MemberBeginKeeps, NoCall DEF Managing, TransactionSteps

\* A call that names a PIC has found the member active.
LEMMA StartAssignKeeps ==
    ASSUME MembersInv, NEW c \in Managers, NEW k \in Posts,
           NEW p \in Profiles \union {NoProfile}, StartAssign(c, k, p)
    PROVE  MembersInv'
<1> DEFINE job == [NotManaging EXCEPT !.step = "assign", !.who = p, !.post = {k}]
<1>1. UNCHANGED <<member, post, astray>>
    BY DEF StartAssign
<1>2. BeginManaging(c, job)
    BY DEF StartAssign
<1>3. job \in Managing
    BY NoCall DEF Managing
<1>4. managing'[c] = [job EXCEPT !.fresh = TRUE, !.alone = TRUE]
    BY <1>2, <1>3, BeginOf
<1>5. managing'[c].step = "assign" /\ managing'[c].who = p /\ managing'[c].post = {k}
    BY NoCall, <1>4 DEF Managing
<1>6. p # NoProfile => member'[p].status # "none"
    BY <1>1 DEF StartAssign, IsActive
<1>7. MemberCallStands(c)'
    BY <1>5, <1>6 DEF MemberCallStands, UpdateSteps, TransactionSteps
<1>8. QED
    BY <1>1, <1>2, <1>3, <1>7, MemberBeginKeeps, NoCall DEF Managing, TransactionSteps

\* A call that moves a work item has found its PIC ready.
LEMMA StartMoveKeeps ==
    ASSUME MembersInv, NEW c \in Managers, NEW k \in Posts, StartMove(c, k) PROVE MembersInv'
<1> DEFINE job == [NotManaging EXCEPT !.step = "move", !.post = {k}]
<1>1. /\ post[k].live /\ post[k].pic # NoProfile /\ BeginManaging(c, job)
      /\ UNCHANGED <<member, post, astray>>
    BY DEF StartMove, IsActive
<1>2. job \in Managing
    BY NoCall DEF Managing
<1>3. managing'[c] = [job EXCEPT !.fresh = TRUE, !.alone = TRUE]
    BY <1>1, <1>2, BeginOf
<1>4. managing'[c].step = "move" /\ managing'[c].who = NoProfile /\ managing'[c].post = {k}
    BY NoCall, <1>3 DEF Managing
<1>5. MemberCallStands(c)'
    BY <1>1, <1>4 DEF MemberCallStands, UpdateSteps, TransactionSteps
<1>6. QED
    BY <1>1, <1>2, <1>5, MemberBeginKeeps, NoCall DEF Managing, TransactionSteps

\* A call that ends and has written no member and no post.
LEMMA QuietEnd ==
    ASSUME MembersInv, NEW c \in Managers, NEW ks \in SUBSET Posts, EndManaging(c, {}, ks),
           UNCHANGED <<member, post, astray>>
    PROVE  MembersInv'
<1>1. {} \in SUBSET Profiles
    OBVIOUS
<1>2. /\ managing' \in [Managers -> Managing] /\ managing'[c] = NotManaging
      /\ \A o \in Managers \ {c} :
            /\ SameCall(o)
    BY <1>1, EndOf
<1>3. \A o \in Managers : MemberCallStands(o)'
    BY <1>2, CallStays, IdleStands
<1>4. MembersTypeOK' /\ PicsExist' /\ OnlyARaceKeepsAnInactivePic'
    BY <1>2 DEF MembersInv, MembersTypeOK, PicsExist, OnlyARaceKeepsAnInactivePic
<1>5. managing'[c].step \notin TransactionSteps
    BY <1>2 DEF NotManaging, TransactionSteps
<1>6. LocksExclude' /\ \A o \in Managers : ReleaseStands(o)'
    BY <1>2, <1>5, LocksAndReleasesStay
<1>7. QED
    BY <1>3, <1>4, <1>6 DEF MembersInv

-----------------------------------------------------------------------------
\* A transaction of update goes on to its next statement, and may hold more posts.
LEMMA UpdateGoesOnKeeps ==
    ASSUME MembersInv, NEW c \in Managers, NEW next \in TransactionSteps, NEW ks \in SUBSET Posts,
           managing[c].step \in UpdateSteps,
           managing' = [managing EXCEPT ![c].step = next, ![c].post = @ \union ks],
           UNCHANGED <<member, post, astray>>,
           \A o \in Managers : InTransaction(o) /\ managing[o].who = managing[c].who => o = c,
           \A k \in Posts :
               /\ Releases(c)
               /\ next = "commit" \/ (next = "releaseRequests" /\ k \in WorkPosts)
               /\ post[k].live /\ post[k].pic = managing[c].who /\ k \notin managing[c].post \union ks
               => k \in astray
    PROVE  MembersInv'
<1>1. managing \in [Managers -> Managing]
    BY DEF MembersInv, MembersTypeOK
<1>2. managing' = [managing EXCEPT ![c] = [managing[c] EXCEPT !.step = next, !.post = @ \union ks]]
    BY <1>1
<1>3. /\ managing'[c] = [managing[c] EXCEPT !.step = next, !.post = @ \union ks]
      /\ \A o \in Managers \ {c} : managing'[o] = managing[o]
    BY <1>1, <1>2
<1>4. next \in UpdateSteps
    BY DEF UpdateSteps
<1>5. [managing[c] EXCEPT !.step = next, !.post = @ \union ks] \in Managing
    BY <1>1, <1>4 DEF Managing
<1>6. managing' \in [Managers -> Managing]
    BY <1>1, <1>2, <1>5
<1>7. /\ managing'[c].step = next /\ managing'[c].who = managing[c].who
      /\ managing'[c].body = managing[c].body /\ managing'[c].seen = managing[c].seen
      /\ managing'[c].alone = managing[c].alone /\ managing'[c].post = managing[c].post \union ks
    BY <1>1, <1>3 DEF Managing
<1>8. MembersTypeOK' /\ PicsExist' /\ OnlyARaceKeepsAnInactivePic'
    BY <1>6 DEF MembersInv, MembersTypeOK, PicsExist, OnlyARaceKeepsAnInactivePic
<1>9. ASSUME NEW o \in Managers PROVE MemberCallStands(o)'
  <2>1. CASE o # c
      BY <1>3, <2>1, CallStays DEF SameCall
  <2>2. CASE o = c
    <3>1. /\ managing[c].who \in Profiles /\ member[managing[c].who].status # "none"
          /\ managing[c].alone /\ managing[c].body.status # "same"
                => NotTheLastOwner(managing[c].who, managing[c].body)
        BY NoProfileAssumption DEF MembersInv, MemberCallStands, UpdateSteps, TransactionSteps
    <3>2. next \notin {"assign", "move"}
        BY DEF TransactionSteps
    <3>3. NotTheLastOwner(managing[c].who, managing[c].body)
             => NotTheLastOwner(managing[c].who, managing[c].body)'
        BY <1>7 DEF NotTheLastOwner
    <3>4. QED
        BY <1>7, <2>2, <3>1, <3>2, <3>3 DEF MemberCallStands
  <2>3. QED
      BY <2>1, <2>2
<1>10. LocksExclude'
  <2>1. \A o \in Managers \ {c} : InTransaction(o)' => InTransaction(o)
      BY <1>3 DEF InTransaction
  <2>2. \A o, i \in Managers \ {c} :
           InTransaction(o)' /\ InTransaction(i)' /\ managing'[o].who = managing'[i].who => o = i
      BY <1>3, <2>1 DEF MembersInv, LocksExclude
  <2>3. \A o \in Managers \ {c} : InTransaction(o)' => managing'[o].who # managing'[c].who
      BY <1>3, <1>7, <2>1
  <2>4. QED
      BY <2>2, <2>3 DEF LocksExclude
<1>11. ASSUME NEW o \in Managers PROVE ReleaseStands(o)'
  <2>1. CASE o # c
    <3>1. managing'[o] = managing[o] /\ ReleaseStands(o)
        BY <1>3, <2>1 DEF MembersInv
    <3>2. QED
        BY <3>1 DEF ReleaseStands, Releases, Becomes, PastRelease, ManagingAt
  <2>2. CASE o = c
    <3>1. Releases(c)' => Releases(c)
        BY <1>7 DEF Releases, Becomes
    <3>2. \A k \in Posts : PastRelease(c, k)'
             => next = "commit" \/ (next = "releaseRequests" /\ k \in WorkPosts)
        BY <1>7 DEF PastRelease, ManagingAt
    <3>3. QED
        BY <1>7, <2>2, <3>1, <3>2 DEF ReleaseStands
  <2>3. QED
      BY <2>1, <2>2
<1>12. QED
    BY <1>8, <1>9, <1>10, <1>11 DEF MembersInv

\* The row of the member is written by nobody else, and nothing is released yet.
LEMMA WriteProfileKeeps ==
    ASSUME MembersInv, NEW c \in Managers, WriteProfile(c) PROVE MembersInv'
<1>1. CASE managing[c].fresh
  <2> DEFINE next == IF Releases(c) THEN "releaseItems" ELSE "commit"
  <2>1. /\ managing' = [managing EXCEPT ![c].step = next] /\ UNCHANGED <<member, post, astray>>
        /\ managing[c].step = "update" /\ ~ProfileLocked(managing[c].who)
      BY <1>1 DEF WriteProfile, ManagingAt
  <2>2. managing[c] \in Managing /\ managing \in [Managers -> Managing]
      BY DEF MembersInv, MembersTypeOK
  <2>3. managing' = [managing EXCEPT ![c].step = next, ![c].post = @ \union {}]
      BY <2>1, <2>2 DEF Managing
  <2>4. next \in TransactionSteps /\ managing[c].step \in UpdateSteps
      BY <2>1 DEF TransactionSteps, UpdateSteps
  <2>5. \A k \in Posts :
           /\ Releases(c)
           /\ next = "commit" \/ (next = "releaseRequests" /\ k \in WorkPosts)
           /\ post[k].live /\ post[k].pic = managing[c].who /\ k \notin managing[c].post \union {}
           => k \in astray
      OBVIOUS
  <2>6. \A o \in Managers : InTransaction(o) /\ managing[o].who = managing[c].who => o = c
      BY <2>1 DEF ProfileLocked
  <2> HIDE DEF next
  <2>7. {} \in SUBSET Posts
      OBVIOUS
  <2>8. QED
      BY <2>1, <2>3, <2>4, <2>5, <2>6, <2>7, UpdateGoesOnKeeps
<1>2. CASE ~managing[c].fresh
    BY <1>2, QuietEnd DEF WriteProfile
<1>3. QED
    BY <1>1, <1>2

\* What a table still has of the member's posts is released.
LEMMA ReleasesKeep ==
    ASSUME MembersInv, NEW c \in Managers, ReleaseWorkItems(c) \/ ReleaseRequests(c)
    PROVE  MembersInv'
<1> DEFINE rs == Released(managing[c].who)
<1>1. rs \in SUBSET Posts /\ rs \intersect WorkPosts \in SUBSET Posts /\ rs \ WorkPosts \in SUBSET Posts
    BY DEF Released
<1>2. /\ UNCHANGED <<member, post, astray>> /\ ReleaseStands(c)
      /\ \A k \in Posts : post[k].live /\ post[k].pic = managing[c].who => k \in rs
    BY DEF MembersInv, ReleaseWorkItems, ReleaseRequests, ReleaseWithin, Released
<1>3. managing[c].step \in UpdateSteps /\ managing[c].step \in TransactionSteps
    BY DEF ReleaseWorkItems, ReleaseRequests, ManagingAt, UpdateSteps, TransactionSteps
<1>4. \A o \in Managers : InTransaction(o) /\ managing[o].who = managing[c].who => o = c
    BY <1>3 DEF MembersInv, LocksExclude, InTransaction
<1>5. CASE ReleaseWorkItems(c)
  <2>1. managing' = [managing EXCEPT ![c].step = "releaseRequests",
                                     ![c].post = @ \union (rs \intersect WorkPosts)]
      BY <1>5 DEF ReleaseWorkItems, ReleaseWithin
  <2>2. "releaseRequests" \in TransactionSteps /\ "releaseRequests" # "commit"
      BY DEF TransactionSteps
  <2> HIDE DEF rs
  <2>3. QED
      BY <1>1, <1>2, <1>3, <1>4, <2>1, <2>2, UpdateGoesOnKeeps
<1>6. CASE ReleaseRequests(c)
  <2>1. managing' = [managing EXCEPT ![c].step = "commit", ![c].post = @ \union (rs \ WorkPosts)]
      BY <1>6 DEF ReleaseRequests, ReleaseWithin
  <2>2. "commit" \in TransactionSteps
      BY DEF TransactionSteps
  <2>3. \A k \in WorkPosts : PastRelease(c, k)
      BY <1>6 DEF ReleaseRequests, PastRelease
  <2> HIDE DEF rs
  <2>4. \A k \in Posts :
           /\ Releases(c)
           /\ post[k].live /\ post[k].pic = managing[c].who
           /\ k \notin managing[c].post \union (rs \ WorkPosts)
           => k \in astray
      BY <1>2, <2>3 DEF ReleaseStands
  <2>5. QED
      BY <1>1, <1>2, <1>3, <1>4, <2>1, <2>2, <2>4, UpdateGoesOnKeeps
<1>7. QED
    BY <1>5, <1>6

\* No live post of a member who has become inactive keeps the member as its PIC:
\* it is released, it went astray after the release, or the update had not seen
\* the login that came before it.
LEMMA CommitUpdateKeeps ==
    ASSUME MembersInv, NEW c \in Managers, CommitUpdate(c) PROVE MembersInv'
<1> DEFINE p == managing[c].who
           m == Becomes(c)
           ks == managing[c].post
<1>1. /\ member \in [Profiles -> Member] /\ post \in [Posts -> Post]
      /\ managing[c] \in Managing /\ astray \subseteq Posts
    BY DEF MembersInv, MembersTypeOK
<1>2. managing[c].step = "commit" /\ InTransaction(c)
    BY DEF CommitUpdate, ManagingAt, InTransaction, TransactionSteps
<1>3. p \in Profiles /\ member[p].status # "none"
    BY <1>2, NoProfileAssumption DEF MembersInv, MemberCallStands, UpdateSteps, TransactionSteps
<1>4. m \in Member /\ m.status # "none"
    BY <1>1, <1>3, AfterIsAMember DEF Managing, Becomes
<1>5. ks \in SUBSET Posts
    BY <1>1 DEF Managing
<1>6. /\ member' = [member EXCEPT ![p] = m]
      /\ post' = [k \in Posts |-> IF k \in ks THEN [post[k] EXCEPT !.pic = NoProfile] ELSE post[k]]
      /\ astray' = IF managing[c].seen = member[p] THEN astray \ ks
                   ELSE (astray \union Released(p)) \ ks
      /\ EndManaging(c, {p}, ks)
    BY DEF CommitUpdate
<1> HIDE DEF m
<1>7. \A k \in Posts : /\ post'[k] \in Post /\ post'[k].live = post[k].live
                       /\ post'[k].pic = IF k \in ks THEN NoProfile ELSE post[k].pic
    BY <1>1, <1>6 DEF Post
<1>8. post' \in [Posts -> Post] /\ member' \in [Profiles -> Member] /\ astray' \subseteq Posts
    BY <1>1, <1>4, <1>6, <1>7 DEF Released
<1>9. \A o \in Profiles : member[o].status # "none" => member'[o].status # "none"
    BY <1>1, <1>4, <1>6
<1>10. PicsExist'
    BY <1>1, <1>7, <1>9 DEF MembersInv, PicsExist, Post
<1>11. ASSUME NEW k \in Posts, post'[k].live, post'[k].pic # NoProfile,
              member'[post'[k].pic].status = "inactive"
       PROVE  k \in astray'
  <2>1. k \notin ks /\ post[k].live /\ post[k].pic = post'[k].pic /\ post[k].pic \in Profiles
      BY <1>1, <1>7, <1>11 DEF Post
  <2>2. CASE post[k].pic # p
    <3>1. member[post[k].pic].status = "inactive"
        BY <1>1, <1>6, <1>11, <2>1, <2>2
    <3>2. k \in astray
        BY <1>11, <2>1, <3>1 DEF MembersInv, OnlyARaceKeepsAnInactivePic
    <3>3. QED
        BY <1>6, <2>1, <3>2
  <2>3. CASE post[k].pic = p
    <3>1. m.status = "inactive" /\ k \in Released(p)
        BY <1>1, <1>3, <1>6, <1>11, <2>1, <2>3 DEF Released
    <3>2. CASE managing[c].seen = member[p]
      <4>1. CASE managing[c].seen.status = "inactive"
        <5>1. k \in astray
            BY <1>11, <2>1, <2>3, <3>2, <4>1 DEF MembersInv, OnlyARaceKeepsAnInactivePic
        <5>2. QED
            BY <1>6, <2>1, <3>2, <5>1
      <4>2. CASE managing[c].seen.status # "inactive"
        <5>1. Releases(c) /\ PastRelease(c, k)
            BY <1>2, <3>1, <4>2 DEF Releases, PastRelease, ManagingAt, m
        <5>2. k \in astray
            BY <2>1, <2>3, <5>1 DEF MembersInv, ReleaseStands
        <5>3. QED
            BY <1>6, <2>1, <3>2, <5>2
      <4>3. QED
          BY <4>1, <4>2
    <3>3. CASE managing[c].seen # member[p]
        BY <1>6, <2>1, <3>1, <3>3
    <3>4. QED
        BY <3>2, <3>3
  <2>4. QED
      BY <2>2, <2>3
<1>12. OnlyARaceKeepsAnInactivePic'
    BY <1>11 DEF OnlyARaceKeepsAnInactivePic
<1>13. /\ managing' \in [Managers -> Managing] /\ managing'[c] = NotManaging
       /\ \A o \in Managers \ {c} :
             /\ SameCall(o)
             /\ managing[o].step = "move" /\ managing'[o].fresh
                   => managing[o].post \intersect ks = {}
             /\ managing[o].step \in UpdateSteps => ~managing'[o].alone
  <2> HIDE DEF ks
  <2>1. PICK ps \in SUBSET Profiles : ps = {p} /\ ps # {}
      BY <1>3
  <2>2. EndManaging(c, ps, ks)
      BY <1>6, <2>1
  <2>3. \A o \in Managers \ {c} : managing[o].step \in UpdateSteps /\ managing'[o].alone => ps = {}
      BY <1>5, <2>2, EndOf
  <2>4. /\ managing' \in [Managers -> Managing] /\ managing'[c] = NotManaging
        /\ \A o \in Managers \ {c} :
              /\ SameCall(o)
              /\ managing[o].step = "move" /\ managing'[o].fresh
                    => managing[o].post \intersect ks = {}
      BY <1>5, <2>2, EndOf
  <2>5. QED
      BY <2>1, <2>3, <2>4
<1>14. ASSUME NEW o \in Managers PROVE MemberCallStands(o)'
  <2>1. CASE o = c
      BY <1>13, <2>1, IdleStands
  <2>2. CASE o # c
    <3>1. managing[o].step = "move" /\ managing'[o].fresh
            => \A k \in managing[o].post : post'[k] = post[k]
      <4>1. managing[o].post \subseteq Posts
          BY DEF MembersInv, MembersTypeOK, Managing
      <4>2. QED
          BY <1>6, <1>13, <2>2, <4>1
    <3>2. QED
        BY <1>9, <1>13, <2>2, <3>1, CallStays
  <2>3. QED
      BY <2>1, <2>2
<1>15. LocksExclude' /\ \A o \in Managers : ReleaseStands(o)'
  <2>1. managing'[c].step \notin TransactionSteps
      BY <1>13 DEF NotManaging, TransactionSteps
  <2>2. \A o \in Managers : managing'[o].step \in TransactionSteps
            => InTransaction(o) /\ managing[o].who \in Profiles /\ managing[o].who # p
      BY <1>2, <1>13, <2>1
         DEF MembersInv, MemberCallStands, LocksExclude, SameCall, InTransaction, UpdateSteps
  <2>3. \A o \in Managers : managing'[o].step \in TransactionSteps
            => member'[managing[o].who] = member[managing[o].who]
      BY <1>1, <1>6, <2>2
  <2>4. \A o \in Managers : \A k \in Posts :
            managing'[o].step \in TransactionSteps /\ post'[k].live /\ post'[k].pic = managing[o].who
               => /\ post[k].live /\ post[k].pic = managing[o].who
                  /\ k \in astray => k \in astray'
      BY <1>6, <1>7, <2>2, NoProfileAssumption
  <2>5. QED
      BY <1>13, <2>1, <2>3, <2>4, LocksAndReleasesStay
<1>16. QED
    BY <1>8, <1>10, <1>12, <1>13, <1>14, <1>15 DEF MembersInv, MembersTypeOK

\* A member who was invited is neither a PIC who has become inactive nor an
\* owner who is lost.
LEMMA FinishFirstLoginKeeps ==
    ASSUME MembersInv, NEW c \in Managers, FinishFirstLogin(c) PROVE MembersInv'
<1> DEFINE p == managing[c].who
<1>1. /\ member \in [Profiles -> Member] /\ post \in [Posts -> Post]
      /\ managing \in [Managers -> Managing] /\ astray \subseteq Posts
      /\ UNCHANGED <<post, astray>>
    BY DEF MembersInv, MembersTypeOK, FinishFirstLogin
<1>2. /\ p \in Profiles /\ ~ProfileLocked(p)
      /\ member' = [member EXCEPT ![p] = [member[p] EXCEPT !.status = "active"]]
    BY DEF FinishFirstLogin, ManagingAt, MembersInv, MemberCallStands
<1>3. member' \in [Profiles -> Member]
    BY <1>1, <1>2 DEF Member, ProfileStatuses
<1>4. \A o \in Profiles : member'[o].status # member[o].status => member'[o].status = "active"
    BY <1>1, <1>2 DEF Member
<1>5. PicsExist' /\ OnlyARaceKeepsAnInactivePic'
    BY <1>1, <1>4 DEF MembersInv, PicsExist, OnlyARaceKeepsAnInactivePic, Post
<1>6. /\ managing' \in [Managers -> Managing] /\ managing'[c] = NotManaging
      /\ \A o \in Managers \ {c} :
            /\ SameCall(o)
            /\ managing[o].step \in UpdateSteps => ~managing'[o].alone
  <2> DEFINE rest(o) == [managing[o] EXCEPT !.alone = StaysAlone(o, {p})]
  <2>1. managing' = [o \in Managers |-> IF o = c THEN NotManaging ELSE rest(o)]
      BY DEF FinishFirstLogin
  <2>2. \A o \in Managers : rest(o) \in Managing
      BY <1>1 DEF Managing, StaysAlone
  <2>3. managing' \in [Managers -> Managing] /\ managing'[c] = NotManaging
      BY <2>1, <2>2, NoCall
  <2>4. ASSUME NEW o \in Managers \ {c}
        PROVE  SameCall(o) /\ (managing[o].step \in UpdateSteps => ~managing'[o].alone)
    <3>1. managing'[o] = rest(o) /\ managing[o] \in Managing
        BY <1>1, <2>1
    <3>2. QED
        BY <3>1 DEF Managing, StaysAlone, SameCall
  <2>5. QED
      BY <2>3, <2>4
<1>7. ASSUME NEW o \in Managers PROVE MemberCallStands(o)'
  <2>1. CASE o = c
      BY <1>6, <2>1, IdleStands
  <2>2. CASE o # c
      BY <1>1, <1>4, <1>6, <2>2, CallStays
  <2>3. QED
      BY <2>1, <2>2
<1>8. LocksExclude' /\ \A o \in Managers : ReleaseStands(o)'
  <2>1. managing'[c].step \notin TransactionSteps
      BY <1>6 DEF NotManaging, TransactionSteps
  <2>2. \A o \in Managers : managing'[o].step \in TransactionSteps
            => managing[o].who \in Profiles /\ managing[o].who # p
      BY <1>2, <1>6, <2>1
         DEF MembersInv, MemberCallStands, ProfileLocked, SameCall, InTransaction, UpdateSteps
  <2>3. \A o \in Managers : managing'[o].step \in TransactionSteps
            => member'[managing[o].who] = member[managing[o].who]
      BY <1>1, <1>2, <2>2
  <2>4. QED
      BY <1>1, <1>6, <2>1, <2>3, LocksAndReleasesStay
<1>9. QED
    BY <1>1, <1>3, <1>5, <1>6, <1>7, <1>8 DEF MembersInv, MembersTypeOK

\* The PIC is written if the row still has the version that was read.
LEMMA FinishAssignKeeps ==
    ASSUME MembersInv, NEW c \in Managers, FinishAssign(c) PROVE MembersInv'
<1> DEFINE p == managing[c].who
<1>1. /\ member \in [Profiles -> Member] /\ post \in [Posts -> Post]
      /\ managing[c] \in Managing /\ astray \subseteq Posts /\ member' = member
    BY DEF MembersInv, MembersTypeOK, FinishAssign
<1>2. CASE managing[c].fresh
  <2>1. PICK k \in Posts : managing[c].post = {k}
      BY DEF FinishAssign, ManagingAt, MembersInv, MemberCallStands
  <2>2. (CHOOSE i \in managing[c].post : TRUE) = k
      BY <2>1
  <2>3. /\ post' = [post EXCEPT ![k].pic = p]
        /\ astray' = IF p = NoProfile \/ (IsActive(p) /\ ~MissedBy(p, k)) THEN astray \ {k}
                     ELSE astray \union {k}
        /\ EndManaging(c, {}, {k})
      BY <1>2, <2>2 DEF FinishAssign
  <2>4. /\ p \in Profiles \union {NoProfile}
        /\ p # NoProfile => member[p].status # "none"
      BY <1>1 DEF Managing, FinishAssign, ManagingAt, MembersInv, MemberCallStands
  <2>5. post' = [post EXCEPT ![k] = [post[k] EXCEPT !.pic = p]]
      BY <2>3
  <2>6. /\ post' \in [Posts -> Post] /\ post'[k].pic = p
        /\ \A i \in Posts \ {k} : post'[i] = post[i]
      BY <1>1, <2>4, <2>5 DEF Post
  <2>7. PicsExist'
      BY <1>1, <2>4, <2>6 DEF MembersInv, PicsExist
  <2>8. OnlyARaceKeepsAnInactivePic'
      BY <1>1, <2>3, <2>6 DEF MembersInv, OnlyARaceKeepsAnInactivePic, IsActive
  <2>9. /\ managing' \in [Managers -> Managing] /\ managing'[c] = NotManaging
        /\ \A o \in Managers \ {c} :
              /\ SameCall(o)
              /\ managing[o].step = "move" /\ managing'[o].fresh
                    => managing[o].post \intersect {k} = {}
    <3>1. {} \in SUBSET Profiles /\ {k} \in SUBSET Posts
        OBVIOUS
    <3>2. QED
        BY <2>3, <3>1, EndOf
  <2>10. ASSUME NEW o \in Managers PROVE MemberCallStands(o)'
    <3>1. CASE o = c
        BY <2>9, <3>1, IdleStands
    <3>2. CASE o # c
      <4>1. managing[o].step = "move" /\ managing'[o].fresh
              => \A i \in managing[o].post : post'[i] = post[i]
        <5>1. managing[o].post \subseteq Posts
            BY DEF MembersInv, MembersTypeOK, Managing
        <5>2. QED
            BY <2>6, <2>9, <3>2, <5>1
      <4>2. QED
          BY <1>1, <2>9, <3>2, <4>1, CallStays
    <3>3. QED
        BY <3>1, <3>2
  <2>11. astray' \subseteq Posts
      BY <1>1, <2>3
  <2>12. LocksExclude' /\ \A o \in Managers : ReleaseStands(o)'
    <3>1. managing'[c].step \notin TransactionSteps
        BY <2>9 DEF NotManaging, TransactionSteps
    <3>2. ASSUME NEW o \in Managers, NEW i \in Posts, managing'[o].step \in TransactionSteps,
                 Releases(o), PastRelease(o, i), post'[i].live, post'[i].pic = managing[o].who
          PROVE  \/ i \in astray'
                 \/ /\ post[i].live /\ post[i].pic = managing[o].who
                    /\ i \in astray => i \in astray'
      <4>1. CASE i # k
          BY <2>3, <2>6, <3>2, <4>1
      <4>2. CASE i = k
        <5>1. managing[o].who \in Profiles
            BY <2>9, <3>1, <3>2 DEF MembersInv, MemberCallStands, SameCall, UpdateSteps
        <5>2. p # NoProfile /\ MissedBy(p, k)
            BY <2>6, <3>2, <4>2, <5>1, NoProfileAssumption DEF MissedBy, Releases
        <5>3. QED
            BY <2>3, <4>2, <5>2
      <4>3. QED
          BY <4>1, <4>2
    <3>3. QED
        BY <1>1, <2>9, <3>1, <3>2, LocksAndReleasesStay
  <2>13. QED
      BY <1>1, <2>6, <2>7, <2>8, <2>9, <2>10, <2>11, <2>12 DEF MembersInv, MembersTypeOK
<1>3. CASE ~managing[c].fresh
    BY <1>3, QuietEnd DEF FinishAssign
<1>4. QED
    BY <1>2, <1>3

\* The status is written on the same condition; the PIC stays.
LEMMA FinishMoveKeeps ==
    ASSUME MembersInv, NEW c \in Managers, FinishMove(c) PROVE MembersInv'
<1>1. PICK ks \in SUBSET Posts : EndManaging(c, {}, ks) /\ UNCHANGED <<member, post, astray>>
  <2>1. managing[c].post \in SUBSET Posts
      BY DEF MembersInv, MembersTypeOK, Managing
  <2>2. (IF Lands(c) THEN managing[c].post ELSE {}) \in SUBSET Posts
      BY <2>1
  <2>3. QED
      BY <2>2 DEF FinishMove
<1>2. QED
    BY <1>1, QuietEnd

\* A call ends without a write.
LEMMA MemberStopKeeps ==
    ASSUME MembersInv, NEW c \in Managers, StopManaging(c) PROVE MembersInv'
BY QuietEnd DEF StopManaging

\* Calls that only lose the version they have read.
LEMMA TouchKeeps ==
    ASSUME MembersInv, NEW p \in Profiles, TouchProfile(p) PROVE MembersInv'
<1>1. /\ UNCHANGED <<member, post, astray>>
      /\ managing' = [c \in Managers |->
                        IF ManagingAt(c, "update") /\ managing[c].who = p
                        THEN [managing[c] EXCEPT !.fresh = FALSE] ELSE managing[c]]
    BY DEF TouchProfile
<1>2. \A c \in Managers : managing[c] \in Managing
    BY DEF MembersInv, MembersTypeOK
<1>3. managing' \in [Managers -> Managing]
    BY <1>1, <1>2 DEF Managing
<1>4. \A c \in Managers : SameCall(c)
    BY <1>1, <1>2 DEF Managing, SameCall
<1>5. \A c \in Managers : MemberCallStands(c)'
    BY <1>1, <1>4, CallStays
<1>6. MembersTypeOK' /\ PicsExist' /\ OnlyARaceKeepsAnInactivePic'
    BY <1>1, <1>3 DEF MembersInv, MembersTypeOK, PicsExist, OnlyARaceKeepsAnInactivePic
<1>7. LocksExclude' /\ \A c \in Managers : ReleaseStands(c)'
    BY <1>1, <1>4, LocksAndReleasesStay
<1>8. QED
    BY <1>5, <1>6, <1>7 DEF MembersInv

\* A post that is removed or comes back takes its version from the calls that
\* have read it; only what comes back may have a PIC who has gone.
LEMMA MemberBinKeeps ==
    ASSUME MembersInv, NEW k \in Posts, NEW live \in BOOLEAN, UNCHANGED member,
           post' = [post EXCEPT ![k].live = live],
           managing' = [c \in Managers |->
                          [managing[c] EXCEPT !.fresh = @ /\ k \notin managing[c].post]],
           astray' \subseteq Posts, astray \subseteq astray',
           live /\ ~post[k].live /\ post[k].pic # NoProfile => k \in astray'
    PROVE  MembersInv'
<1>1. /\ member \in [Profiles -> Member] /\ post \in [Posts -> Post]
      /\ \A c \in Managers : managing[c] \in Managing
    BY DEF MembersInv, MembersTypeOK
<1>2. post' = [post EXCEPT ![k] = [post[k] EXCEPT !.live = live]]
    OBVIOUS
<1>3. /\ post' \in [Posts -> Post] /\ post'[k].pic = post[k].pic /\ post'[k].live = live
      /\ \A i \in Posts \ {k} : post'[i] = post[i]
    BY <1>1, <1>2 DEF Post
<1>4. PicsExist'
    BY <1>3 DEF MembersInv, PicsExist
<1>5. OnlyARaceKeepsAnInactivePic'
    BY <1>1, <1>3 DEF MembersInv, OnlyARaceKeepsAnInactivePic, Post
<1>6. managing' \in [Managers -> Managing]
    BY <1>1 DEF Managing
<1>7. \A c \in Managers : /\ SameCall(c) /\ managing[c].post \subseteq Posts
                          /\ managing'[c].fresh => k \notin managing[c].post
    BY <1>1 DEF Managing, SameCall
<1>8. ASSUME NEW c \in Managers PROVE MemberCallStands(c)'
  <2>1. managing'[c].fresh => \A i \in managing[c].post : post'[i] = post[i]
      BY <1>3, <1>7
  <2>2. QED
      BY <1>7, <2>1, CallStays
<1>9. LocksExclude' /\ \A c \in Managers : ReleaseStands(c)'
  <2>1. \A i \in Posts : /\ post'[i].pic = post[i].pic
                         /\ post'[i].live /\ ~post[i].live /\ post[i].pic # NoProfile => i \in astray'
      BY <1>3
  <2>2. \A c \in Managers : managing'[c].step \in TransactionSteps => managing[c].who # NoProfile
      BY <1>7, NoProfileAssumption DEF MembersInv, MemberCallStands, SameCall, UpdateSteps
  <2>3. QED
      BY <1>7, <2>1, <2>2, LocksAndReleasesStay
<1>10. QED
    BY <1>3, <1>4, <1>5, <1>6, <1>8, <1>9 DEF MembersInv, MembersTypeOK

\* Every step keeps the invariant.
LEMMA NextKeeps == MembersInv /\ [MembersNext]_memberVars => MembersInv'
<1> SUFFICES ASSUME MembersInv, [MembersNext]_memberVars PROVE MembersInv'
    OBVIOUS
<1>1. ASSUME NEW p \in Profiles, NEW status \in ProfileStatuses, NEW owner \in BOOLEAN,
             CreateProfile(p, status, owner)
      PROVE  MembersInv'
    BY <1>1, MemberCreateKeeps
<1>2. ASSUME NEW p \in Profiles, UpdateSelf(p) \/ ResetPasswordOf(p) PROVE MembersInv'
    BY <1>2, TouchKeeps DEF UpdateSelf, ResetPasswordOf
<1>3. ASSUME NEW c \in Managers, NEW p \in Profiles, NEW body \in Sent, StartUpdate(c, p, body)
      PROVE  MembersInv'
    BY <1>3, StartUpdateKeeps
<1>4. ASSUME NEW c \in Managers, NEW p \in Profiles, StartFirstLogin(c, p) PROVE MembersInv'
    BY <1>4, StartFirstLoginKeeps
<1>5. ASSUME NEW c \in Managers, NEW k \in Posts, NEW p \in Profiles \union {NoProfile},
             StartAssign(c, k, p)
      PROVE  MembersInv'
    BY <1>5, StartAssignKeeps
<1>6. ASSUME NEW c \in Managers, NEW k \in Posts, StartMove(c, k) PROVE MembersInv'
    BY <1>6, StartMoveKeeps
<1>7. ASSUME NEW c \in Managers,
             \/ WriteProfile(c) \/ ReleaseWorkItems(c) \/ ReleaseRequests(c) \/ CommitUpdate(c)
             \/ FinishFirstLogin(c) \/ FinishAssign(c) \/ FinishMove(c) \/ StopManaging(c)
      PROVE  MembersInv'
    BY <1>7, WriteProfileKeeps, ReleasesKeep, CommitUpdateKeeps, FinishFirstLoginKeeps, FinishAssignKeeps, FinishMoveKeeps,
       MemberStopKeeps
<1>8. ASSUME NEW k \in Posts, RemovePost(k) PROVE MembersInv'
  <2>1. /\ UNCHANGED <<member, astray>> /\ post' = [post EXCEPT ![k].live = FALSE]
        /\ managing' = [c \in Managers |->
                          [managing[c] EXCEPT !.fresh = @ /\ k \notin managing[c].post]]
      BY <1>8 DEF RemovePost
  <2>2. astray' \subseteq Posts
      BY <2>1 DEF MembersInv, MembersTypeOK
  <2>3. QED
      BY <2>1, <2>2, MemberBinKeeps
<1>9. ASSUME NEW k \in Posts, RestorePost(k) PROVE MembersInv'
  <2>1. /\ UNCHANGED member /\ post' = [post EXCEPT ![k].live = TRUE]
        /\ managing' = [c \in Managers |->
                          [managing[c] EXCEPT !.fresh = @ /\ k \notin managing[c].post]]
        /\ astray' = IF post[k].live \/ post[k].pic = NoProfile THEN astray
                     ELSE astray \union {k}
      BY <1>9 DEF RestorePost
  <2>2. /\ astray' \subseteq Posts /\ astray \subseteq astray'
        /\ ~post[k].live /\ post[k].pic # NoProfile => k \in astray'
      BY <2>1 DEF MembersInv, MembersTypeOK
  <2>3. QED
      BY <2>1, <2>2, MemberBinKeeps
<1>10. CASE UNCHANGED memberVars
  <2>1. UNCHANGED <<member, post, managing, astray>>
      BY <1>10 DEF memberVars
  <2>2. \A c \in Managers : MemberCallStands(c)'
      BY <2>1, CallStays DEF SameCall
  <2>3. LocksExclude' /\ \A c \in Managers : ReleaseStands(c)'
      BY <2>1, LocksAndReleasesStay DEF SameCall
  <2>4. QED
      BY <2>1, <2>2, <2>3 DEF MembersInv, MembersTypeOK, PicsExist, OnlyARaceKeepsAnInactivePic
<1>11. QED
    BY <1>1, <1>2, <1>3, <1>4, <1>5, <1>6, <1>7, <1>8, <1>9, <1>10 DEF MembersNext

-----------------------------------------------------------------------------
\* The inductive invariant: types, that a PIC exists, what a running call still
\* knows of the rows it has read, that two transactions never hold one member's
\* row, that a deactivation has missed only posts that went astray, and
\* OnlyARaceKeepsAnInactivePic itself.
THEOREM MembersInvariant == MembersSpec => []MembersInv
BY MembersStart, NextKeeps, PTL DEF MembersSpec

\* ProfilesService.update with WorkReleaseService: the PIC of a post that is not
\* removed is no inactive member but by a race or from the bin, for any number of
\* members, posts and calls.
THEOREM NoInactivePic == MembersSpec => []OnlyARaceKeepsAnInactivePic
<1>1. MembersInv => OnlyARaceKeepsAnInactivePic
    BY DEF MembersInv
<1>2. QED
    BY <1>1, MembersInvariant, PTL

\* assertPicReady: what it has found of the PIC still holds when the row is
\* written, although only the version of the work item is compared.
THEOREM MoversHaveAPic == MembersSpec => []MovesHaveAPic
<1>1. MembersInv => MovesHaveAPic
  <2> SUFFICES ASSUME MembersInv, NEW c \in Managers, NEW k \in Posts,
                      ManagingAt(c, "move"), Lands(c), k \in managing[c].post
               PROVE  post[k].pic # NoProfile
                      /\ (member[post[k].pic].status = "inactive" => k \in astray)
      BY DEF MovesHaveAPic
  <2>1. post[k].live /\ post[k].pic # NoProfile
      BY DEF MembersInv, MemberCallStands, ManagingAt, Lands
  <2>2. QED
      BY <2>1 DEF MembersInv, OnlyARaceKeepsAnInactivePic
<1>2. QED
    BY <1>1, MembersInvariant, PTL

\* assertNotLastOwner: the last active owner is taken away only by an update that
\* brings no status, or after another call has written a member since the check.
THEOREM OwnersEndByRaces == MembersSpec => OnlyARaceEndsTheLastOwner
<1> DEFINE Ends == (\E p \in Profiles : ActiveOwner(member[p]))
                   /\ ~(\E p \in Profiles : ActiveOwner(member'[p]))
           Race == \E c \in Managers :
                      /\ CommitUpdate(c)
                      /\ managing[c].body.status = "same" \/ ~managing[c].alone
<1>1. ASSUME MembersInv, [MembersNext]_memberVars, Ends PROVE Race
  <2>1. PICK p \in Profiles : ActiveOwner(member[p]) /\ ~ActiveOwner(member'[p])
      BY <1>1
  <2>2. member \in [Profiles -> Member] /\ member' # member
      BY <1>1, <2>1 DEF MembersInv, MembersTypeOK
  <2>3. CASE \E i \in Profiles, status \in ProfileStatuses, owner \in BOOLEAN :
                CreateProfile(i, status, owner)
    <3>1. PICK i \in Profiles : \E status \in ProfileStatuses, owner \in BOOLEAN :
                CreateProfile(i, status, owner)
        BY <2>3
    <3>2. member[i].status = "none" /\ member'[p] = IF i = p THEN member'[p] ELSE member[p]
        BY <2>2, <3>1 DEF CreateProfile
    <3>3. QED
        BY <2>1, <3>2 DEF ActiveOwner
  <2>4. CASE \E c \in Managers : FinishFirstLogin(c)
    <3>1. PICK c \in Managers : FinishFirstLogin(c)
        BY <2>4
    <3>2. /\ managing[c].who \in Profiles
          /\ member' = [member EXCEPT ![managing[c].who] =
                           [member[managing[c].who] EXCEPT !.status = "active"]]
        BY <1>1, <3>1 DEF FinishFirstLogin, ManagingAt, MembersInv, MemberCallStands
    <3>3. member'[p].owner = member[p].owner
          /\ (member'[p].status = member[p].status \/ member'[p].status = "active")
        BY <2>2, <3>2 DEF Member
    <3>4. QED
        BY <2>1, <3>3 DEF ActiveOwner
  <2>5. CASE \E c \in Managers : CommitUpdate(c)
    <3>1. PICK c \in Managers : CommitUpdate(c)
        BY <2>5
    <3> DEFINE i == managing[c].who
               body == managing[c].body
    <3>2. /\ i \in Profiles /\ member' = [member EXCEPT ![i] = After(member[i], body)]
          /\ managing[c].step \in UpdateSteps
        BY <1>1, <2>2, <3>1 DEF CommitUpdate, Becomes, ManagingAt, MembersInv, MemberCallStands,
           UpdateSteps, TransactionSteps
    <3>3. p = i
        BY <2>1, <2>2, <3>2
    <3>4. ActiveOwner(member[i]) /\ ~ActiveOwner(After(member[i], body))
        BY <2>1, <2>2, <3>2, <3>3
    <3>5. ~NotTheLastOwner(i, body)
      <4>1. \A o \in Profiles \ {i} : member'[o] = member[o]
          BY <2>2, <3>2
      <4>2. QED
          BY <1>1, <3>4, <4>1 DEF NotTheLastOwner
    <3>6. QED
        BY <1>1, <3>1, <3>2, <3>5 DEF MembersInv, MemberCallStands
  <2>6. QED
      BY <1>1, <2>2, <2>3, <2>4, <2>5 DEF MembersNext, memberVars, UpdateSelf,
         ResetPasswordOf,
         TouchProfile, StartUpdate, WriteProfile, ReleaseWorkItems, ReleaseRequests,
         ReleaseWithin, StartFirstLogin, StartAssign, StartMove, FinishAssign,
         FinishMove, StopManaging, RemovePost, RestorePost
<1>2. MembersInv /\ [MembersNext]_memberVars => [Ends => Race]_memberVars
    BY <1>1
<1>3. QED
    BY <1>2, MembersInvariant, PTL DEF MembersSpec, OnlyARaceEndsTheLastOwner

-----------------------------------------------------------------------------
(* The head of a cluster.                                                  *)

\* A call that nobody has overtaken: the cluster it has found is the one the row will
\* be in, and every other member of it is lowered or about to be.
Prepared(job) ==
    /\ job.target = TargetCluster(resident[job.who], job.body)
    /\ (job.body.head = "yes" /\ job.target # NoCluster /\ job.step \in {"lower", "write"})
          => \A r \in Residents : resident[r].here /\ resident[r].cluster = job.target
                => r = job.who \/ r \in job.finds \union job.lowered
    /\ job.step = "write" => job.finds = {}

AloneIsPrepared ==
    \A s \in Stewards : steering[s] # NotSteering /\ steering[s].alone => Prepared(steering[s])

HeadsInv == HeadsTypeOK /\ AloneIsPrepared

-----------------------------------------------------------------------------
\* Between two calls there is a record, too, and no job looks like it.
LEMMA NotSteeringIsIdle ==
    NotSteering.step = "idle" /\ \A job \in Steering : job.step # "idle" /\ job # NotSteering
BY DEF NotSteering, Steering

\* What a body makes of a member is a member.
LEMMA HeadBodyTyped ==
    ASSUME NEW entry \in Resident, NEW body \in HeadBody
    PROVE  WithHeadBody(entry, body) \in Resident /\ TargetCluster(entry, body) \in Clusters \union {NoCluster}
<1>1. body.cluster # "same" => body.cluster \in Clusters \union {NoCluster}
  BY DEF HeadBody
<1>2. entry.cluster \in Clusters \union {NoCluster} /\ entry.head \in BOOLEAN
  BY DEF Resident
<1>3. WithHeadBody(entry, body) \in Resident
  BY <1>1, <1>2 DEF WithHeadBody, Resident
<1> QED BY <1>3 DEF TargetCluster, Resident

\* There is no member but those to come, and no call.
LEMMA HeadsStart == HeadsInit => HeadsInv
<1> SUFFICES ASSUME HeadsInit PROVE HeadsInv
    OBVIOUS
<1>1. NotHere \in Resident
  BY DEF NotHere, Resident
<1>2. HeadsTypeOK
  BY <1>1 DEF HeadsInit, HeadsTypeOK
<1> QED BY <1>2 DEF HeadsInit, HeadsInv, AloneIsPrepared

\* A step of one call that writes nothing.
LEMMA SteeringKeeps ==
    ASSUME HeadsInv, NEW s \in Stewards, NEW job \in Steering \union {NotSteering},
           steering' = [steering EXCEPT ![s] = job], resident' = resident,
           job # NotSteering /\ job.alone => Prepared(job)
    PROVE  HeadsInv'
<1>1. steering \in [Stewards -> Steering \union {NotSteering}]
  BY DEF HeadsInv, HeadsTypeOK
<1>2. HeadsTypeOK'
  BY <1>1 DEF HeadsInv, HeadsTypeOK
<1>3. AloneIsPrepared'
  BY <1>1 DEF HeadsInv, AloneIsPrepared, Prepared
<1> QED BY <1>2, <1>3 DEF HeadsInv

\* A call has read the member; nothing is written yet.
LEMMA StartsSteeringKeep ==
    ASSUME HeadsInv, NEW s \in Stewards, NEW r \in Residents, NEW body \in HeadBodies,
           StartSteering(s, r, body) \/ StartInvitation(s, r, body)
    PROVE  HeadsInv'
<1>1. PICK new \in BOOLEAN : Steer(s, r, body, new)
  BY DEF StartSteering, StartInvitation
<1> DEFINE target == TargetCluster(resident[r], body)
           job == [step |-> "begin", who |-> r, new |-> new, body |-> body,
                    target |-> target, finds |-> {}, lowered |-> {},
                    fresh |-> TRUE, alone |-> TRUE]
<1>2. target \in Clusters \union {NoCluster} /\ body \in HeadBody
  BY HeadBodyTyped, HeadBodiesAssumption DEF HeadsInv, HeadsTypeOK
<1>3. steering' = [steering EXCEPT ![s] = job] /\ resident' = resident
  BY <1>1 DEF Steer
<1> HIDE DEF target
<1>4. job \in Steering
  BY <1>2 DEF Steering
<1>5. Prepared(job)
  BY DEF Prepared, target
<1> HIDE DEF job
<1> QED BY <1>3, <1>4, <1>5, SteeringKeeps

\* The UPDATE of the other heads sees its rows and locks them, one after the other.
LEMMA LoweringKeeps ==
    ASSUME HeadsInv, NEW s \in Stewards,
           \/ BeginLowering(s) \/ EndLowering(s) \/ StopSteering(s)
           \/ \E r \in Residents : LowerHead(s, r)
    PROVE  HeadsInv'
<1>1. /\ steering \in [Stewards -> Steering \union {NotSteering}]
      /\ steering[s] \in Steering /\ steering[s] # NotSteering /\ resident' = resident
  BY NotSteeringIsIdle DEF BeginLowering, EndLowering, StopSteering, LowerHead, SteersAt,
     HeadsInv,
                           HeadsTypeOK
<1>2. steering[s].alone => Prepared(steering[s])
  BY <1>1 DEF HeadsInv, AloneIsPrepared
<1>3. ASSUME NEW step \in {"lower", "write"}, NEW finds \in SUBSET Residents,
             NEW lowered \in SUBSET Residents,
             steering' = [steering EXCEPT ![s] = [steering[s] EXCEPT
                             !.step = step, !.finds = finds, !.lowered = lowered]],
             steering[s].alone /\ Lowers(s) =>
                \A r \in Residents : resident[r].here /\ resident[r].cluster = steering[s].target
                   => r = steering[s].who \/ r \in finds \union lowered,
             step = "write" => finds = {}
      PROVE  HeadsInv'
  <2> DEFINE job == [steering[s] EXCEPT !.step = step, !.finds = finds, !.lowered = lowered]
  <2>1. job \in Steering
    BY <1>1 DEF Steering
  <2>2. /\ job.step = step /\ job.finds = finds /\ job.lowered = lowered
        /\ job.who = steering[s].who /\ job.target = steering[s].target
        /\ job.body = steering[s].body /\ job.alone = steering[s].alone
    BY <1>1 DEF Steering
  <2>3. steering' = [steering EXCEPT ![s] = job]
    BY <1>3
  <2> HIDE DEF job
  <2>4. job.alone => Prepared(job)
    BY <1>2, <1>3, <2>2 DEF Prepared, Lowers
  <2> QED BY <1>1, <1>2, <2>1, <2>2, <2>3, <2>4, SteeringKeeps
<1>4. /\ steering[s].finds \subseteq Residents /\ steering[s].lowered \subseteq Residents
      /\ Mates(s) \subseteq Residents
  BY <1>1 DEF Steering, Mates
<1>5. CASE BeginLowering(s)
  <2> DEFINE finds == IF Lowers(s) THEN Mates(s) ELSE {}
             step == IF Lowers(s) THEN "lower" ELSE "write"
  <2>1. steering' = [steering EXCEPT ![s] = [steering[s] EXCEPT
                             !.step = step, !.finds = finds, !.lowered = steering[s].lowered]]
    BY <1>1, <1>5 DEF BeginLowering, Steering
  <2>2. steering[s].alone /\ Lowers(s) =>
           \A r \in Residents : resident[r].here /\ resident[r].cluster = steering[s].target
              => r = steering[s].who \/ r \in finds \union steering[s].lowered
    BY DEF Mates
  <2>3. finds \subseteq Residents /\ step \in {"lower", "write"} /\ (step = "write" => finds = {})
    BY <1>4
  <2> HIDE DEF finds, step
  <2> QED BY <1>3, <1>4, <2>1, <2>2, <2>3
<1>6. CASE EndLowering(s)
  <2>1. steering[s].step = "lower" /\ steering[s].finds = {}
    BY <1>6 DEF EndLowering, SteersAt
  <2>2. steering' = [steering EXCEPT ![s] = [steering[s] EXCEPT
                        !.step = "write", !.finds = {}, !.lowered = steering[s].lowered]]
    BY <1>1, <1>6, <2>1 DEF EndLowering, Steering
  <2>3. steering[s].alone /\ Lowers(s) =>
           \A r \in Residents : resident[r].here /\ resident[r].cluster = steering[s].target
              => r = steering[s].who \/ r \in {} \union steering[s].lowered
    BY <1>2, <2>1 DEF Prepared, Lowers
  <2> QED BY <1>3, <1>4, <2>2, <2>3
<1>7. ASSUME NEW r \in Residents, LowerHead(s, r) PROVE HeadsInv'
  <2> DEFINE finds == steering[s].finds \ {r}
             lowered == IF resident[r].cluster = steering[s].target
                        THEN steering[s].lowered \union {r} ELSE steering[s].lowered
  <2>1. steering[s].step = "lower"
    BY <1>7 DEF LowerHead, SteersAt
  <2>2. steering' = [steering EXCEPT ![s] = [steering[s] EXCEPT
                        !.step = "lower", !.finds = finds, !.lowered = lowered]]
    <3>1. steering' = [steering EXCEPT ![s].finds = finds, ![s].lowered = lowered]
      BY <1>7 DEF LowerHead
    <3> HIDE DEF finds, lowered
    <3>2. [steering[s] EXCEPT !.step = "lower", !.finds = finds, !.lowered = lowered]
             = [steering[s] EXCEPT !.finds = finds, !.lowered = lowered]
      BY <1>1, <2>1 DEF Steering
    <3> QED BY <1>1, <3>1, <3>2
  <2>3. steering[s].alone /\ Lowers(s) =>
           \A q \in Residents : resident[q].here /\ resident[q].cluster = steering[s].target
              => q = steering[s].who \/ q \in finds \union lowered
    BY <1>2, <2>1 DEF Prepared, Lowers
  <2>4. finds \in SUBSET Residents /\ lowered \in SUBSET Residents
    BY <1>4
  <2> HIDE DEF finds, lowered
  <2> QED BY <1>3, <2>2, <2>3, <2>4
<1>8. CASE StopSteering(s)
  BY <1>1, <1>8, SteeringKeeps DEF StopSteering
<1> QED BY <1>5, <1>6, <1>7, <1>8

\* The member's own row is written, and with it what was lowered is committed.
LEMMA FinishSteeringKeeps ==
    ASSUME HeadsInv, NEW s \in Stewards, FinishSteering(s)
    PROVE  HeadsInv'
<1> DEFINE mover == steering[s].who
           wrote == IF steering[s].new THEN ~resident[mover].here ELSE steering[s].fresh
<1>1. /\ steering \in [Stewards -> Steering \union {NotSteering}]
      /\ resident \in [Residents -> Resident]
      /\ steering[s] \in Steering
  BY NotSteeringIsIdle DEF FinishSteering, SteersAt, HeadsInv, HeadsTypeOK
<1>2. mover \in Residents /\ steering[s].body \in HeadBody /\ wrote \in BOOLEAN
  BY <1>1 DEF Steering, Resident
<1>3. resident' \in [Residents -> Resident]
  <2>1. WithHeadBody(resident[mover], steering[s].body) \in Resident
    BY <1>1, <1>2, HeadBodyTyped
  <2>2. \A r \in Residents : [resident[r] EXCEPT !.head = FALSE] \in Resident
    BY <1>1 DEF Resident
  <2> DEFINE written == [r \in Residents |->
                              IF r = mover THEN WithHeadBody(resident[mover], steering[s].body)
                              ELSE IF r \in steering[s].lowered
                                   THEN [resident[r] EXCEPT !.head = FALSE]
                              ELSE resident[r]]
  <2>3. written \in [Residents -> Resident]
    BY <1>1, <2>1, <2>2
  <2>4. resident' = resident \/ resident' = written
    BY DEF FinishSteering
  <2> HIDE DEF written
  <2> QED BY <1>1, <2>3, <2>4
<1>4. ~wrote => resident' = resident
  BY DEF FinishSteering
<1>5. ASSUME NEW o \in Stewards, steering'[o] # NotSteering
      PROVE  /\ steering'[o] \in Steering
             /\ steering'[o].alone => steering'[o] = steering[o] /\ resident' = resident
  <2> DEFINE late == [steering[o] EXCEPT !.alone = FALSE,
                                         !.fresh = steering[o].fresh /\ steering[o].who # mover]
  <2>1. o # s
    BY <1>5 DEF FinishSteering
  <2>2. CASE SteersAt(o, "idle") \/ ~wrote
    <3>1. steering'[o] = steering[o]
      BY <2>1, <2>2 DEF FinishSteering
    <3>2. steering[o] \in Steering
      BY <1>1, <1>5, <3>1
    <3> QED BY <1>4, <2>2, <3>1, <3>2, NotSteeringIsIdle DEF SteersAt
  <2>3. CASE ~(SteersAt(o, "idle") \/ ~wrote)
    <3>1. steering'[o] = late
      BY <2>1, <2>3 DEF FinishSteering
    <3>2. steering[o] \in Steering
      BY <1>1, <2>3, NotSteeringIsIdle DEF SteersAt
    <3>3. late \in Steering /\ ~late.alone
      BY <3>2 DEF Steering
    <3> HIDE DEF late
    <3> QED BY <3>1, <3>3
  <2> QED BY <2>2, <2>3
<1>6. steering' \in [Stewards -> Steering \union {NotSteering}]
  <2>1. steering' = [o \in Stewards |-> steering'[o]]
    BY DEF FinishSteering
  <2> QED BY <1>5, <2>1
<1>7. AloneIsPrepared'
  BY <1>5 DEF HeadsInv, AloneIsPrepared, Prepared
<1> QED BY <1>3, <1>6, <1>7 DEF HeadsInv, HeadsTypeOK

\* ProfilesService.create and update: a call that no other has overtaken finds the
\* cluster as it is, and has lowered whoever is in it when it writes.
THEOREM HeadsInvariant == HeadsSpec => []HeadsInv
<1>1. HeadsInv /\ [HeadsNext]_headVars => HeadsInv'
  <2> SUFFICES ASSUME HeadsInv, [HeadsNext]_headVars PROVE HeadsInv'
      OBVIOUS
  <2>1. ASSUME NEW s \in Stewards, NEW r \in Residents, NEW body \in HeadBodies,
               StartSteering(s, r, body) \/ StartInvitation(s, r, body)
        PROVE  HeadsInv'
    BY <2>1, StartsSteeringKeep
  <2>2. ASSUME NEW s \in Stewards,
               \/ BeginLowering(s) \/ EndLowering(s) \/ StopSteering(s)
               \/ \E r \in Residents : LowerHead(s, r)
        PROVE  HeadsInv'
    BY <2>2, LoweringKeeps
  <2>3. ASSUME NEW s \in Stewards, FinishSteering(s) PROVE HeadsInv'
    BY <2>3, FinishSteeringKeeps
  <2>4. CASE UNCHANGED headVars
    BY <2>4 DEF headVars, HeadsInv, HeadsTypeOK, AloneIsPrepared, Prepared
  <2> QED BY <2>1, <2>2, <2>3, <2>4 DEF HeadsNext
<1> QED BY <1>1, HeadsStart, PTL DEF HeadsSpec

\* The heads a finished call leaves in a cluster are those there were, but for the
\* head it makes.
LEMMA FinishLeavesHeads ==
    ASSUME HeadsInv, NEW s \in Stewards, FinishSteering(s), resident' # resident,
           NEW k \in Clusters, NEW p \in Residents, p \in HeadsOf(k)'
    PROVE  /\ p # steering[s].who => p \in HeadsOf(k) /\ p \notin steering[s].lowered
           /\ p = steering[s].who =>
                 WithHeadBody(resident[p], steering[s].body).head
                 /\ TargetCluster(resident[p], steering[s].body) = k
<1>1. /\ resident[p] \in Resident /\ steering[s].who \in Residents
      /\ resident'[p].here /\ resident'[p].head /\ resident'[p].cluster = k
  BY NotSteeringIsIdle DEF FinishSteering, SteersAt, HeadsInv, HeadsTypeOK, HeadsOf, Steering
<1> DEFINE lowered == [resident[p] EXCEPT !.head = FALSE]
<1>2. ~lowered.head
  BY <1>1 DEF Resident
<1>3. resident'[p] = IF p = steering[s].who THEN WithHeadBody(resident[p], steering[s].body)
                     ELSE IF p \in steering[s].lowered THEN lowered ELSE resident[p]
  BY DEF FinishSteering
<1> HIDE DEF lowered
<1>4. p # steering[s].who => p \notin steering[s].lowered /\ resident'[p] = resident[p]
  BY <1>1, <1>2, <1>3
<1> QED BY <1>1, <1>3, <1>4 DEF HeadsOf, TargetCluster

\* "Pergantian ketua klaster jika isKormater true": a cluster gets a second head only
\* by a call that was overtaken, or that moves a head and leaves the flag out.
THEOREM OneHeadUnlessRaced == HeadsSpec => OnlyARaceOrAMoveMakesTwoHeads
<1> DEFINE A == \A k \in Clusters : ~HasTwoHeads(k) /\ HasTwoHeads(k)'
          => \E s \in Stewards : /\ FinishSteering(s)
                                 /\ ~steering[s].alone \/ steering[s].body.head = "same"
<1>1. ASSUME HeadsInv, HeadsNext PROVE A
  <2> SUFFICES ASSUME NEW k \in Clusters, ~HasTwoHeads(k), HasTwoHeads(k)'
               PROVE  \E s \in Stewards :
                         /\ FinishSteering(s)
                         /\ ~steering[s].alone \/ steering[s].body.head = "same"
      OBVIOUS
  <2>1. resident' # resident
    BY DEF HasTwoHeads, HeadsOf
  <2>2. PICK s \in Stewards : FinishSteering(s)
    BY <1>1, <2>1 DEF HeadsNext, StartSteering, StartInvitation, Steer, BeginLowering,
       LowerHead,
                      EndLowering, StopSteering
  <2> SUFFICES ASSUME steering[s].alone, steering[s].body.head # "same" PROVE FALSE
      BY <2>2
  <2> DEFINE job == steering[s]
  <2>3. /\ job \in Steering /\ job # NotSteering /\ job.step = "write"
        /\ job.body.head \in {"yes", "no"}
    BY <1>1, <2>2, NotSteeringIsIdle
       DEF FinishSteering, SteersAt, HeadsInv, HeadsTypeOK, Steering, HeadBody
  <2>4. Prepared(job)
    BY <1>1, <2>3 DEF HeadsInv, AloneIsPrepared
  <2>5. PICK p, q \in Residents : p \in HeadsOf(k)' /\ q \in HeadsOf(k)' /\ p # q
    BY DEF HasTwoHeads, HeadsOf
  <2>6. ASSUME NEW x \in Residents, NEW y \in Residents,
               x \in HeadsOf(k)', y \in HeadsOf(k)', x # y, x = job.who
        PROVE  FALSE
    <3>1. WithHeadBody(resident[x], job.body).head /\ TargetCluster(resident[x], job.body) = k
      BY <1>1, <2>1, <2>2, <2>6, FinishLeavesHeads
    <3>2. y \in HeadsOf(k) /\ y \notin job.lowered
      BY <1>1, <2>1, <2>2, <2>6, FinishLeavesHeads
    <3>3. job.body.head = "yes" /\ job.target = k /\ k # NoCluster
      BY <2>3, <2>4, <2>6, <3>1, NoClusterAssumption DEF WithHeadBody, Prepared
    <3>4. resident[y].here /\ resident[y].cluster = job.target
      BY <3>2, <3>3 DEF HeadsOf
    <3> QED BY <2>3, <2>4, <2>6, <3>2, <3>3, <3>4 DEF Prepared
  <2>7. p # job.who /\ q # job.who
    BY <2>5, <2>6
  <2>8. p \in HeadsOf(k) /\ q \in HeadsOf(k)
    BY <1>1, <2>1, <2>2, <2>5, <2>7, FinishLeavesHeads
  <2> QED BY <2>5, <2>8 DEF HasTwoHeads
<1>2. HeadsInv /\ [HeadsNext]_headVars => [A]_headVars
  BY <1>1
<1> HIDE DEF A
<1>3. HeadsSpec => [][A]_headVars
  BY <1>2, HeadsInvariant, PTL DEF HeadsSpec
<1> QED BY <1>3 DEF A, OnlyARaceOrAMoveMakesTwoHeads

-----------------------------------------------------------------------------
(* The active period, and what refers to a unit or a period.               *)

\* A call has an id; activatePeriod's is a period, which it does not lower itself.
CallsHaveIds == \A a \in Admins :
    /\ ~ArrangingAt(a, "idle") => arranging[a].id \in Entities
    /\ arranging[a].step \in {"lower", "wait", "raise"} => arranging[a].id \in Periods
    /\ arranging[a].id \notin arranging[a].lowered

\* What refers to an entity that a call removes, by a key it has counted, has come
\* since then.
CountedNone == \A a \in Admins :
    ArrangingAt(a, "remove") =>
        \A r \in ReferencesTo(arranging[a].id) :
            KeyOf[r] \in arranging[a].counted => r \in arranging[a].unseen

OrganizationInv == OrganizationTypeOK /\ CallsHaveIds /\ CountedNone

-----------------------------------------------------------------------------
\* Between two calls there is a record, too.
LEMMA NotArrangingTyped ==
    /\ NotArranging \in Arranging /\ NotArranging.step = "idle"
    /\ NotArranging.lowered = {} /\ NotArranging.id = NoEntity
BY DEF NotArranging, Arranging

\* Nothing is there, nothing refers to it, and no call runs.
LEMMA OrganizationStart == OrganizationInit => OrganizationInv
<1> SUFFICES ASSUME OrganizationInit PROVE OrganizationInv
    OBVIOUS
<1>1. OrganizationTypeOK
  BY NotArrangingTyped DEF OrganizationInit, OrganizationTypeOK
<1>2. CallsHaveIds /\ CountedNone
  BY NotArrangingTyped DEF OrganizationInit, CallsHaveIds, CountedNone, ArrangingAt
<1> QED BY <1>1, <1>2 DEF OrganizationInv

\* A step of one call that writes nothing.
LEMMA ArrangingKeeps ==
    ASSUME OrganizationInv, NEW a \in Admins, NEW job \in Arranging,
           arranging' = [arranging EXCEPT ![a] = job], UNCHANGED <<entity, refers>>,
           job.step # "idle" => job.id \in Entities,
           job.step \in {"lower", "wait", "raise"} => job.id \in Periods,
           job.id \notin job.lowered,
           job.step = "remove" =>
               \A r \in ReferencesTo(job.id) : KeyOf[r] \in job.counted => r \in job.unseen
    PROVE  OrganizationInv'
<1>1. arranging \in [Admins -> Arranging]
  BY DEF OrganizationInv, OrganizationTypeOK
<1>2. OrganizationTypeOK'
  BY <1>1 DEF OrganizationInv, OrganizationTypeOK
<1>3. CallsHaveIds'
  BY <1>1 DEF OrganizationInv, CallsHaveIds, ArrangingAt
<1>4. CountedNone'
  <2> SUFFICES ASSUME NEW o \in Admins, arranging'[o].step = "remove"
               PROVE  \A r \in ReferencesTo(arranging'[o].id) :
                          KeyOf[r] \in arranging'[o].counted => r \in arranging'[o].unseen
      BY DEF CountedNone, ArrangingAt, ReferencesTo
  <2>1. CASE o = a
    BY <1>1, <2>1
  <2>2. CASE o # a
    BY <1>1, <2>2 DEF OrganizationInv, CountedNone, ArrangingAt
  <2> QED BY <2>1, <2>2
<1> QED BY <1>2, <1>3, <1>4 DEF OrganizationInv

\* A call has read the period or the unit it is about.
LEMMA BeginArrangingKeeps ==
    ASSUME OrganizationInv, NEW a \in Admins, NEW e \in Entities,
           StartActivate(a, e) \/ StartRemove(a, e)
    PROVE  OrganizationInv'
<1>1. ASSUME NEW step \in {"lower", "remove"}, BeginArranging(a, step, e),
             step = "lower" => e \in Periods, UNCHANGED <<entity, refers>>
      PROVE  OrganizationInv'
  <2> DEFINE job == [NotArranging EXCEPT !.step = step, !.id = e]
  <2>1. job \in Arranging /\ job.step = step /\ job.id = e /\ job.lowered = {} /\ job.counted = {}
    BY DEF NotArranging, Arranging
  <2>2. arranging' = [arranging EXCEPT ![a] = job]
    BY <1>1 DEF BeginArranging
  <2> HIDE DEF job
  <2> QED BY <1>1, <2>1, <2>2, ArrangingKeeps
<1> QED BY <1>1 DEF StartActivate, StartRemove

\* A call lowers the active periods it sees, counts the references, or stops.
LEMMA GoOnArrangingKeeps ==
    ASSUME OrganizationInv, NEW a \in Admins,
           SeeActive(a) \/ LowerActive(a) \/ CountReferences(a) \/ StopArranging(a)
    PROVE  OrganizationInv'
<1>1. /\ arranging \in [Admins -> Arranging] /\ arranging[a] \in Arranging
      /\ arranging[a].step # "idle" => arranging[a].id \in Entities
      /\ arranging[a].step \in {"lower", "wait", "raise"} => arranging[a].id \in Periods
      /\ arranging[a].id \notin arranging[a].lowered
  BY DEF OrganizationInv, OrganizationTypeOK, CallsHaveIds, ArrangingAt
<1>2. ASSUME EndArranging(a), UNCHANGED <<entity, refers>> PROVE OrganizationInv'
  BY <1>2, NotArrangingTyped, ArrangingKeeps DEF EndArranging
<1>3. CASE SeeActive(a)
  <2> DEFINE job == [arranging[a] EXCEPT !.step = "wait",
                                          !.lowered = ActivePeriods \ {arranging[a].id}]
  <2>1. /\ job \in Arranging /\ job.step = "wait" /\ job.id = arranging[a].id
        /\ job.id \notin job.lowered
    BY <1>1 DEF Arranging, ActivePeriods
  <2>2. arranging' = [arranging EXCEPT ![a] = job]
    BY <1>1, <1>3 DEF SeeActive
  <2>3. arranging[a].step = "lower" /\ UNCHANGED <<entity, refers>>
    BY <1>3 DEF SeeActive, ArrangingAt
  <2> HIDE DEF job
  <2> QED BY <1>1, <2>1, <2>2, <2>3, ArrangingKeeps
<1>4. CASE LowerActive(a)
  <2> DEFINE job == [arranging[a] EXCEPT !.step = "raise",
                                          !.lowered = arranging[a].lowered \intersect ActivePeriods]
  <2>1. /\ job \in Arranging /\ job.step = "raise" /\ job.id = arranging[a].id
        /\ job.id \notin job.lowered
    BY <1>1 DEF Arranging, ActivePeriods
  <2>2. arranging' = [arranging EXCEPT ![a] = job]
    BY <1>1, <1>4 DEF LowerActive
  <2>3. arranging[a].step = "wait" /\ UNCHANGED <<entity, refers>>
    BY <1>4 DEF LowerActive, ArrangingAt
  <2> HIDE DEF job
  <2> QED BY <1>1, <2>1, <2>2, <2>3, ArrangingKeeps
<1>5. ASSUME NEW k \in Keys, arranging[a].step = "remove", UNCHANGED <<entity, refers>>,
             FindReferences(arranging[a].id, k) = {},
             arranging' = [arranging EXCEPT ![a].counted = @ \union {k}]
      PROVE  OrganizationInv'
  <2> DEFINE job == [arranging[a] EXCEPT !.counted = arranging[a].counted \union {k}]
  <2>1. /\ job \in Arranging /\ job.step = "remove" /\ job.id = arranging[a].id
        /\ job.lowered = arranging[a].lowered /\ job.unseen = arranging[a].unseen
        /\ job.counted = arranging[a].counted \union {k}
    BY <1>1, <1>5 DEF Arranging
  <2>2. arranging' = [arranging EXCEPT ![a] = job]
    BY <1>1, <1>5
  <2>3. \A r \in ReferencesTo(job.id) : KeyOf[r] \in job.counted => r \in job.unseen
    <3>1. \A r \in ReferencesTo(arranging[a].id) : KeyOf[r] # k
      BY <1>5 DEF FindReferences
    <3> QED BY <1>5, <2>1, <3>1 DEF OrganizationInv, CountedNone, ArrangingAt
  <2> HIDE DEF job
  <2> QED BY <1>1, <1>5, <2>1, <2>2, <2>3, ArrangingKeeps
<1>6. CASE CountReferences(a)
  BY <1>2, <1>5, <1>6 DEF CountReferences, ArrangingAt
<1>7. CASE StopArranging(a)
  BY <1>2, <1>7 DEF StopArranging
<1> QED BY <1>3, <1>4, <1>6, <1>7

\* The rows and what refers to them, while nobody's call moves.
LEMMA OtherRowsKeep ==
    ASSUME OrganizationInv,
           \/ \E e \in Entities : CreatePeriod(e) \/ CreateUnit(e)
           \/ \E r \in Referrers : ReferToNone(r)
    PROVE  OrganizationInv'
<1>1. CASE \E e \in Entities : CreatePeriod(e) \/ CreateUnit(e)
  <2> PICK e \in Entities : CreateEntity(e)
    BY <1>1 DEF CreatePeriod, CreateUnit
  <2>1. OrganizationTypeOK'
    BY DEF CreateEntity, OrganizationInv, OrganizationTypeOK
  <2>2. CallsHaveIds' /\ CountedNone'
    BY DEF CreateEntity, OrganizationInv, CallsHaveIds, CountedNone, ArrangingAt, ReferencesTo
  <2> QED BY <2>1, <2>2 DEF OrganizationInv
<1>2. ASSUME NEW r \in Referrers, ReferToNone(r) PROVE OrganizationInv'
  <2>1. OrganizationTypeOK'
    BY <1>2 DEF ReferToNone, OrganizationInv, OrganizationTypeOK
  <2>2. CallsHaveIds'
    BY <1>2 DEF ReferToNone, OrganizationInv, CallsHaveIds, ArrangingAt
  <2>3. CountedNone'
    <3> SUFFICES ASSUME NEW o \in Admins, arranging[o].step = "remove", NEW q \in Referrers,
                        refers'[q] = arranging[o].id, KeyOf[q] \in arranging[o].counted
                 PROVE  q \in arranging[o].unseen
        BY <1>2 DEF ReferToNone, CountedNone, ArrangingAt, ReferencesTo
    <3>1. arranging[o].id \in Entities
      BY DEF OrganizationInv, CallsHaveIds, ArrangingAt
    <3>2. refers[q] = arranging[o].id
      BY <1>2, <3>1, NoEntityAssumption DEF ReferToNone, OrganizationInv, OrganizationTypeOK
    <3> QED BY <3>2 DEF OrganizationInv, CountedNone, ArrangingAt, ReferencesTo
  <2> QED BY <2>1, <2>2, <2>3 DEF OrganizationInv
<1> QED BY <1>1, <1>2

\* A row that comes to refer to an entity is noted by the calls that are to delete it.
LEMMA ReferKeeps ==
    ASSUME OrganizationInv, NEW r \in Referrers, NEW e \in Entities, Refer(r, e)
    PROVE  OrganizationInv'
<1>1. arranging \in [Admins -> Arranging]
  BY DEF OrganizationInv, OrganizationTypeOK
<1>2. ASSUME NEW a \in Admins
      PROVE  /\ arranging'[a] \in Arranging
             /\ arranging'[a].step = arranging[a].step /\ arranging'[a].id = arranging[a].id
             /\ arranging'[a].lowered = arranging[a].lowered
             /\ arranging'[a].counted = arranging[a].counted
             /\ arranging'[a].unseen = IF /\ arranging[a].step = "remove" /\ arranging[a].id = e
                                          /\ KeyOf[r] \in arranging[a].counted
                                       THEN arranging[a].unseen \union {r}
                                       ELSE arranging[a].unseen
  <2> DEFINE noted == [arranging[a] EXCEPT !.unseen = arranging[a].unseen \union {r}]
  <2>1. arranging[a] \in Arranging
    BY <1>1
  <2>2. /\ noted \in Arranging
        /\ noted.step = arranging[a].step /\ noted.id = arranging[a].id
        /\ noted.lowered = arranging[a].lowered /\ noted.counted = arranging[a].counted
        /\ noted.unseen = arranging[a].unseen \union {r}
    BY <2>1 DEF Arranging
  <2>3. arranging'[a] = IF /\ arranging[a].step = "remove" /\ arranging[a].id = e
                           /\ KeyOf[r] \in arranging[a].counted
                        THEN noted ELSE arranging[a]
    BY DEF Refer, ArrangingAt
  <2> HIDE DEF noted
  <2> QED BY <2>1, <2>2, <2>3
<1>3. OrganizationTypeOK'
  <2>1. arranging' \in [Admins -> Arranging]
    <3>1. arranging' = [a \in Admins |-> arranging'[a]]
      BY DEF Refer
    <3> QED BY <1>2, <3>1
  <2> QED BY <2>1 DEF Refer, OrganizationInv, OrganizationTypeOK
<1>4. CallsHaveIds'
  BY <1>2 DEF OrganizationInv, CallsHaveIds, ArrangingAt
<1>5. CountedNone'
  <2> SUFFICES ASSUME NEW o \in Admins, arranging'[o].step = "remove", NEW q \in Referrers,
                      refers'[q] = arranging'[o].id, KeyOf[q] \in arranging'[o].counted
               PROVE  q \in arranging'[o].unseen
      BY DEF CountedNone, ArrangingAt, ReferencesTo
  <2>1. CASE q = r
    <3>1. arranging[o].id = e
      BY <1>2, <2>1 DEF Refer, OrganizationInv, OrganizationTypeOK
    <3> QED BY <1>2, <2>1, <3>1
  <2>2. CASE q # r
    <3>1. /\ refers[q] = arranging[o].id /\ arranging[o].step = "remove"
          /\ KeyOf[q] \in arranging[o].counted
      BY <1>2, <2>2 DEF Refer
    <3>2. q \in arranging[o].unseen
      BY <3>1 DEF OrganizationInv, CountedNone, ArrangingAt, ReferencesTo
    <3> QED BY <1>2, <3>2
  <2> QED BY <2>1, <2>2
<1> QED BY <1>3, <1>4, <1>5 DEF OrganizationInv

\* The end of a call that has written: what is referred to has become no more.
LEMMA WriteEndsKeep ==
    ASSUME OrganizationInv, NEW a \in Admins, EndArranging(a),
           entity' \in [Entities -> {"none", "there", "active"}],
           refers' \in [Referrers -> Entities \union {NoEntity, "unborn", "gone"}],
           \A r \in Referrers : refers'[r] = refers[r] \/ refers'[r] \in {NoEntity, "gone"}
    PROVE  OrganizationInv'
<1>1. arranging \in [Admins -> Arranging]
  BY DEF OrganizationInv, OrganizationTypeOK
<1>2. /\ \A o \in Admins \ {a} : arranging'[o] = arranging[o]
      /\ arranging'[a] = NotArranging
  BY <1>1 DEF EndArranging
<1>3. OrganizationTypeOK'
  BY <1>1, NotArrangingTyped DEF EndArranging, OrganizationTypeOK
<1>4. CallsHaveIds'
  <2> SUFFICES ASSUME NEW o \in Admins
               PROVE  /\ arranging'[o].step # "idle" => arranging'[o].id \in Entities
                      /\ arranging'[o].step \in {"lower", "wait", "raise"}
                            => arranging'[o].id \in Periods
                      /\ arranging'[o].id \notin arranging'[o].lowered
      BY DEF CallsHaveIds, ArrangingAt
  <2>1. CASE o = a
    BY <1>2, <2>1, NotArrangingTyped
  <2>2. CASE o # a
    BY <1>2, <2>2 DEF OrganizationInv, CallsHaveIds, ArrangingAt
  <2> QED BY <2>1, <2>2
<1>5. CountedNone'
  <2> SUFFICES ASSUME NEW o \in Admins, arranging'[o].step = "remove", NEW q \in Referrers,
                      refers'[q] = arranging'[o].id, KeyOf[q] \in arranging'[o].counted
               PROVE  q \in arranging'[o].unseen
      BY DEF CountedNone, ArrangingAt, ReferencesTo
  <2>1. o # a
    BY <1>2, NotArrangingTyped
  <2>2. arranging[o].id \in Entities /\ arranging[o].step = "remove"
    BY <1>2, <2>1 DEF OrganizationInv, CallsHaveIds, ArrangingAt
  <2>3. refers[q] = arranging[o].id
    BY <1>2, <2>1, <2>2, NoEntityAssumption
  <2> QED BY <1>2, <2>1, <2>2, <2>3 DEF OrganizationInv, CountedNone, ArrangingAt,
             ReferencesTo
<1> QED BY <1>3, <1>4, <1>5 DEF OrganizationInv

\* The last statement: the period is made active, or the row is deleted.
LEMMA RaiseAndDeleteKeep ==
    ASSUME OrganizationInv, NEW a \in Admins, RaisePeriod(a) \/ DeleteEntity(a)
    PROVE  OrganizationInv'
<1>1. /\ entity \in [Entities -> {"none", "there", "active"}]
      /\ refers \in [Referrers -> Entities \union {NoEntity, "unborn", "gone"}]
  BY DEF OrganizationInv, OrganizationTypeOK
<1>2. CASE RaisePeriod(a)
  <2>1. entity' \in [Entities -> {"none", "there", "active"}]
    <3> DEFINE p == arranging[a].id
               raised == [e \in Entities |-> CASE e = p -> "active"
                                               [] e \in arranging[a].lowered -> "there"
                                               [] OTHER -> entity[e]]
    <3>1. raised \in [Entities -> {"none", "there", "active"}]
      BY <1>1
    <3>2. entity' = raised \/ entity' = entity
      BY <1>2 DEF RaisePeriod
    <3> HIDE DEF raised
    <3> QED BY <1>1, <3>1, <3>2
  <2>2. refers' = refers /\ EndArranging(a)
    BY <1>2 DEF RaisePeriod
  <2> QED BY <1>1, <2>1, <2>2, WriteEndsKeep
<1>3. CASE DeleteEntity(a)
  <2>1. /\ entity' \in [Entities -> {"none", "there", "active"}]
        /\ refers' \in [Referrers -> Entities \union {NoEntity, "unborn", "gone"}]
        /\ \A r \in Referrers : refers'[r] = refers[r] \/ refers'[r] \in {NoEntity, "gone"}
    BY <1>1, <1>3 DEF DeleteEntity
  <2> QED BY <1>3, <2>1, WriteEndsKeep DEF DeleteEntity
<1> QED BY <1>2, <1>3

\* OrganizationService: the rows, the references and the calls are as
\* OrganizationTypeOK says, and what refers to an entity that a removal is about to
\* delete has come to refer to it since the removal counted its key.
THEOREM OrganizationInvariant == OrganizationSpec => []OrganizationInv
<1>1. OrganizationInv /\ [OrganizationNext]_organizationVars => OrganizationInv'
  <2> SUFFICES ASSUME OrganizationInv, [OrganizationNext]_organizationVars
               PROVE  OrganizationInv'
      OBVIOUS
  <2>1. CASE \/ \E e \in Entities : CreatePeriod(e) \/ CreateUnit(e)
             \/ \E r \in Referrers : ReferToNone(r)
    BY <2>1, OtherRowsKeep
  <2>2. ASSUME NEW r \in Referrers, NEW e \in Entities, Refer(r, e) PROVE OrganizationInv'
    BY <2>2, ReferKeeps
  <2>3. ASSUME NEW a \in Admins, NEW e \in Entities, StartActivate(a, e) \/ StartRemove(a, e)
        PROVE  OrganizationInv'
    BY <2>3, BeginArrangingKeeps
  <2>4. ASSUME NEW a \in Admins,
               SeeActive(a) \/ LowerActive(a) \/ CountReferences(a) \/ StopArranging(a)
        PROVE  OrganizationInv'
    BY <2>4, GoOnArrangingKeeps
  <2>5. ASSUME NEW a \in Admins, RaisePeriod(a) \/ DeleteEntity(a) PROVE OrganizationInv'
    BY <2>5, RaiseAndDeleteKeep
  <2>6. CASE UNCHANGED organizationVars
    BY <2>6 DEF organizationVars, OrganizationInv, OrganizationTypeOK, CallsHaveIds,
       CountedNone,
                ArrangingAt, ReferencesTo
  <2> QED BY <2>1, <2>2, <2>3, <2>4, <2>5, <2>6 DEF OrganizationNext
<1> QED BY <1>1, OrganizationStart, PTL DEF OrganizationSpec

\* activatePeriod and removePeriod: once a period is active, one is, unless a
\* removal deletes it that had found it idle.
THEOREM APeriodStaysActive == OrganizationSpec => OnlyARaceEndsTheActivePeriod
<1> DEFINE A == ActivePeriods # {} /\ ActivePeriods' = {}
          => \E a \in Admins : DeleteEntity(a) /\ entity[arranging[a].id] = "active"
<1>1. ASSUME OrganizationInv, OrganizationNext, ActivePeriods # {}, ActivePeriods' = {}
      PROVE  \E a \in Admins : DeleteEntity(a) /\ entity[arranging[a].id] = "active"
  <2>1. PICK p \in Periods : entity[p] = "active" /\ entity'[p] # "active"
    BY <1>1 DEF ActivePeriods
  <2>2. entity \in [Entities -> {"none", "there", "active"}] /\ p \in Entities
    BY <1>1 DEF OrganizationInv, OrganizationTypeOK, Entities
  <2>3. PICK a \in Admins : RaisePeriod(a) \/ DeleteEntity(a)
    <3>1. ASSUME NEW e \in Entities, CreateEntity(e) PROVE FALSE
      BY <2>1, <2>2, <3>1 DEF CreateEntity
    <3> QED BY <1>1, <2>1, <3>1
            DEF OrganizationNext, CreatePeriod, CreateUnit, ReferToNone, Refer, StartActivate,
                StartRemove, SeeActive, LowerActive, CountReferences, StopArranging
  <2>4. ~RaisePeriod(a)
    <3> SUFFICES ASSUME RaisePeriod(a) PROVE FALSE
        OBVIOUS
    <3> DEFINE id == arranging[a].id
    <3>1. id \in Periods /\ id \in Entities
      BY <1>1 DEF RaisePeriod, ArrangingAt, OrganizationInv, CallsHaveIds, Entities
    <3>2. id \notin arranging[a].lowered
      BY <1>1 DEF OrganizationInv, CallsHaveIds
    <3>3. entity' = entity \/ entity'[id] = "active"
      BY <3>1, <3>2 DEF RaisePeriod
    <3> QED BY <1>1, <2>1, <3>1, <3>3 DEF ActivePeriods
  <2>5. DeleteEntity(a)
    BY <2>3, <2>4
  <2>6. p = arranging[a].id
    BY <2>1, <2>2, <2>5 DEF DeleteEntity
  <2> QED BY <2>1, <2>5, <2>6
<1>2. OrganizationInv /\ [OrganizationNext]_organizationVars => [A]_organizationVars
  BY <1>1
<1> HIDE DEF A
<1>3. OrganizationSpec => [][A]_organizationVars
  BY <1>2, OrganizationInvariant, PTL DEF OrganizationSpec
<1> QED BY <1>3 DEF A, OnlyARaceEndsTheActivePeriod

\* assertNotReferenced: a removal takes a reference, or a row, only of those that
\* came to refer to the entity after it had counted those of their own foreign key.
THEOREM ReferencesAreCounted == OrganizationSpec => OnlyARaceEmptiesReferences
<1> DEFINE A == \A a \in Admins : DeleteEntity(a)
          => \A r \in Referrers : refers'[r] = refers[r] \/ r \in arranging[a].unseen
<1>1. ASSUME OrganizationInv PROVE A
  <2> SUFFICES ASSUME NEW a \in Admins, DeleteEntity(a), NEW r \in Referrers, refers'[r] # refers[r]
               PROVE  r \in arranging[a].unseen
      OBVIOUS
  <2>1. refers[r] = arranging[a].id
    BY DEF DeleteEntity
  <2> QED BY <1>1, <2>1, KeyOfAssumption
          DEF DeleteEntity, OrganizationInv, CountedNone, ReferencesTo
<1>2. OrganizationInv => [A]_organizationVars
  BY <1>1
<1> HIDE DEF A
<1>3. OrganizationSpec => [][A]_organizationVars
  BY <1>2, OrganizationInvariant, PTL DEF OrganizationSpec
<1> QED BY <1>3 DEF A, OnlyARaceEmptiesReferences

-----------------------------------------------------------------------------
(* The columns of a period and of a unit.                                  *)

\* What a call has checked: a create's body is in order; an update's is in order with
\* the row it has read, which is the row unless a write overtook the call.
InOrder(job) ==
    /\ job.handler.table = table.name
    /\ job.handler.does = "create" =>
          /\ IsBody(job.body, table.columns)
          /\ Asked(job.handler, job.body)
    /\ job.handler.does = "update" =>
          /\ IsBody(job.body, DOMAIN job.body)
          /\ job.overtaken \/ (unit[job.id] # NoColumns
                                  /\ Asked(job.handler, WithBody(job.body, unit[job.id])))
CallsAreInOrder == \A c \in Keepers : keeping[c] # NotKeeping => InOrder(keeping[c])

RowsInv == RowsTypeOK /\ unit = [i \in Rows |-> unit[i]] /\ CallsAreInOrder

-----------------------------------------------------------------------------
\* What a handler does, and that only those of periods compare two columns.
LEMMA HandlersFacts ==
    ASSUME NEW h \in UnitHandlers
    PROVE  /\ h.does \in {"create", "update", "remove"}
           /\ h.table = "periods" /\ h.does # "remove" => "order" \in h.asks
BY DEF UnitHandlers, UnitHandler, CreatePeriodRow, UpdatePeriodRow, RemovePeriodRow,
       CreateDivisionRow, UpdateDivisionRow, RemoveDivisionRow,
       CreateClusterRow, UpdateClusterRow, RemoveClusterRow,
       CreateSubunitRow, UpdateSubunitRow, RemoveSubunitRow

\* Every table has columns, and the periods' is known by its name.
LEMMA TablesHaveColumns ==
    ASSUME RowsInv
    PROVE  /\ table.columns # {}
           /\ table = PeriodsRows => table.name = "periods"
BY DEF RowsInv, RowsTypeOK, UnitTables, UnitTable, PeriodsRows, DivisionsRows, ClustersRows,
       SubunitsRows

\* A call that runs has a handler, a row and a body.
LEMMA KeepingHasFields ==
    ASSUME NEW job \in Keeping
    PROVE  /\ job.handler \in UnitHandlers /\ job.id \in Rows /\ job # NotKeeping
           /\ job.body \in Created \union Sets \union {NoColumns}
BY DEF Keeping, NotKeeping

\* A row with a body's columns in place of its own is a row of the table.
LEMMA MergedIsARow ==
    ASSUME NEW body, NEW old, NEW columns, IsBody(body, DOMAIN body), IsBody(old, columns)
    PROVE  IsBody(WithBody(body, old), columns)
BY DEF IsBody, WithBody

\* The table is empty.
LEMMA RowsStart == RowsInit => RowsInv
BY DEF RowsInit, RowsInv, RowsTypeOK, CallsAreInOrder

\* A call has been let through by the checks of its handler.
LEMMA BeginKeepingKeeps ==
    ASSUME RowsInv, NEW c \in Keepers, NEW step \in {"code", "write"}, NEW h \in UnitHandlers,
           NEW i \in Rows, NEW body \in Created \union Sets \union {NoColumns},
           BeginKeeping(c, step, h, i, body),
           h.table = table.name,
           h.does = "create" => IsBody(body, table.columns) /\ Asked(h, body),
           h.does = "update" => /\ IsBody(body, DOMAIN body) /\ unit[i] # NoColumns
                                /\ Asked(h, WithBody(body, unit[i]))
    PROVE  RowsInv'
<1> DEFINE job == [step |-> step, handler |-> h, id |-> i, body |-> body, overtaken |-> FALSE]
<1>1. job \in Keeping
  BY DEF Keeping
<1>2. InOrder(job)
  BY DEF InOrder
<1>3. keeping' = [keeping EXCEPT ![c] = job] /\ UNCHANGED <<table, unit>>
  BY DEF BeginKeeping
<1> HIDE DEF job
<1>4. RowsTypeOK'
  BY <1>1, <1>3 DEF RowsInv, RowsTypeOK
<1>5. CallsAreInOrder'
  BY <1>2, <1>3 DEF RowsInv, RowsTypeOK, CallsAreInOrder, InOrder
<1> QED BY <1>3, <1>4, <1>5 DEF RowsInv

\* Each handler's checks, on the row as it is read.
LEMMA StartsKeepRows ==
    ASSUME RowsInv, NEW c \in Keepers, NEW h \in HandlersHere, NEW i \in Rows,
           \/ \E body \in Created : StartCreateRow(c, h, i, body)
           \/ \E body \in Sets : StartUpdateRow(c, h, i, body)
           \/ StartRemoveRow(c, h, i)
    PROVE  RowsInv'
<1>1. h \in UnitHandlers /\ h.table = table.name
  BY DEF HandlersHere
<1>2. ASSUME NEW body \in Created, StartCreateRow(c, h, i, body) PROVE RowsInv'
  <2>1. IsBody(body, table.columns)
    BY <1>2, BodiesAssumption DEF StartCreateRow, IsBody
  <2>2. h.does = "create" /\ Asked(h, body) /\ BeginKeeping(c, "code", h, i, body)
    BY <1>2 DEF StartCreateRow
  <2> QED BY <1>1, <2>1, <2>2, BeginKeepingKeeps
<1>3. ASSUME NEW body \in Sets, StartUpdateRow(c, h, i, body) PROVE RowsInv'
  <2>1. IsBody(body, DOMAIN body)
    BY BodiesAssumption
  <2>2. /\ h.does = "update" /\ unit[i] # NoColumns /\ Asked(h, WithBody(body, unit[i]))
        /\ \E step \in {"code", "write"} : BeginKeeping(c, step, h, i, body)
    BY <1>3 DEF StartUpdateRow
  <2> QED BY <1>1, <2>1, <2>2, BeginKeepingKeeps
<1>4. CASE StartRemoveRow(c, h, i)
  BY <1>1, <1>4, BeginKeepingKeeps DEF StartRemoveRow
<1> QED BY <1>2, <1>3, <1>4

\* assertCodeFree has found the code free, or the call ends.
LEMMA AssertCodeFreeKeeps ==
    ASSUME RowsInv, NEW c \in Keepers, AssertCodeFree(c) \/ StopKeeping(c)
    PROVE  RowsInv'
<1> DEFINE job == [keeping[c] EXCEPT !.step = "write"]
<1>1. keeping[c] \in Keeping /\ InOrder(keeping[c]) /\ UNCHANGED <<table, unit>>
  BY DEF AssertCodeFree, StopKeeping, RowsInv, RowsTypeOK, CallsAreInOrder
<1>2. job \in Keeping /\ InOrder(job)
  <2>1. job \in Keeping
    BY <1>1 DEF Keeping
  <2>2. /\ job.handler = keeping[c].handler /\ job.id = keeping[c].id
        /\ job.body = keeping[c].body /\ job.overtaken = keeping[c].overtaken
    BY <1>1 DEF Keeping
  <2> HIDE DEF job
  <2> QED BY <1>1, <2>1, <2>2 DEF InOrder
<1>3. PICK new \in {job, NotKeeping} : keeping' = [keeping EXCEPT ![c] = new]
  BY DEF AssertCodeFree, StopKeeping
<1> HIDE DEF job
<1>4. RowsTypeOK'
  BY <1>1, <1>2, <1>3 DEF RowsInv, RowsTypeOK
<1>5. CallsAreInOrder'
  BY <1>1, <1>2, <1>3 DEF RowsInv, RowsTypeOK, CallsAreInOrder, InOrder
<1> QED BY <1>1, <1>4, <1>5 DEF RowsInv

\* What the statement makes of a row is a row, or none.
LEMMA RowAfterTyped ==
    ASSUME RowsInv, NEW job \in Keeping, InOrder(job)
    PROVE  /\ RowAfter(job) = NoColumns \/ IsBody(RowAfter(job), table.columns)
           /\ RowAfter(job) # NoColumns => job.handler.does \in {"create", "update"}
<1>1. job.handler.does \in {"create", "update", "remove"} /\ job.id \in Rows
  BY HandlersFacts, KeepingHasFields
<1>2. unit[job.id] = NoColumns \/ IsBody(unit[job.id], table.columns)
  BY <1>1 DEF RowsInv, RowsTypeOK
<1>3. CASE job.handler.does = "create"
  BY <1>3 DEF RowAfter, InOrder
<1>4. CASE job.handler.does = "update" /\ unit[job.id] # NoColumns
  <2>1. RowAfter(job) = WithBody(job.body, unit[job.id])
    BY <1>4 DEF RowAfter
  <2>2. IsBody(WithBody(job.body, unit[job.id]), table.columns)
    BY <1>2, <1>4, MergedIsARow DEF InOrder
  <2> QED BY <1>4, <2>1, <2>2
<1>5. CASE ~(job.handler.does = "create")
           /\ ~(job.handler.does = "update" /\ unit[job.id] # NoColumns)
  BY <1>5 DEF RowAfter
<1> QED BY <1>3, <1>4, <1>5

\* The row is written by its id, whatever it has become.
LEMMA WriteRowKeeps ==
    ASSUME RowsInv, NEW c \in Keepers, WriteRow(c)
    PROVE  RowsInv'
<1>1. /\ keeping[c] \in Keeping /\ InOrder(keeping[c]) /\ keeping[c].id \in Rows
      /\ keeping \in [Keepers -> Keeping \union {NotKeeping}]
  BY KeepingHasFields DEF WriteRow, RowsInv, RowsTypeOK, CallsAreInOrder
<1> DEFINE i == keeping[c].id
           new == RowAfter(keeping[c])
<1>2. /\ table' = table
      /\ unit' = unit \/ unit' = [unit EXCEPT ![i] = new]
  BY DEF WriteRow
<1>3. new = NoColumns \/ IsBody(new, table.columns)
  BY <1>1, RowAfterTyped
<1> HIDE DEF new
<1>4. /\ unit' = [j \in Rows |-> unit'[j]]
      /\ \A j \in Rows : unit'[j] = NoColumns \/ IsBody(unit'[j], table'.columns)
      /\ \A j \in Rows : j # i => unit'[j] = unit[j]
  BY <1>1, <1>2, <1>3 DEF RowsInv, RowsTypeOK
<1>5. ASSUME NEW o \in Keepers, keeping'[o] # NotKeeping
      PROVE  keeping'[o] \in Keeping /\ InOrder(keeping[o])'
  <2> DEFINE late == [keeping[o] EXCEPT !.overtaken = TRUE]
  <2>1. o # c /\ keeping[o] # NotKeeping
    BY <1>5 DEF WriteRow
  <2>2. keeping[o] \in Keeping /\ InOrder(keeping[o])
    BY <2>1 DEF RowsInv, RowsTypeOK, CallsAreInOrder
  <2>3. CASE keeping[o].id = i
    <3>1. keeping'[o] = late
      BY <2>1, <2>3 DEF WriteRow
    <3>2. /\ late \in Keeping /\ late.handler = keeping[o].handler
          /\ late.body = keeping[o].body /\ late.overtaken
      BY <2>2 DEF Keeping
    <3> HIDE DEF late
    <3> QED BY <1>2, <2>2, <3>1, <3>2 DEF InOrder
  <2>4. CASE keeping[o].id # i
    <3>1. keeping'[o] = keeping[o]
      BY <2>1, <2>4 DEF WriteRow
    <3>2. unit'[keeping[o].id] = unit[keeping[o].id]
      BY <1>4, <2>2, <2>4, KeepingHasFields
    <3> QED BY <1>2, <2>2, <3>1, <3>2 DEF InOrder
  <2> QED BY <2>3, <2>4
<1>6. keeping' \in [Keepers -> Keeping \union {NotKeeping}]
  <2>1. keeping' = [o \in Keepers |-> keeping'[o]]
    BY DEF WriteRow
  <2> QED BY <1>5, <2>1
<1>7. CallsAreInOrder'
  BY <1>5 DEF CallsAreInOrder
<1>8. RowsTypeOK'
  BY <1>2, <1>4, <1>6 DEF RowsInv, RowsTypeOK
<1> QED BY <1>4, <1>7, <1>8 DEF RowsInv

\* OrganizationService's rows: each has its table's columns, and what a call has
\* checked of one holds until a write overtakes it.
THEOREM RowsInvariant == RowsSpec => []RowsInv
<1>1. RowsInv /\ [RowsNext]_rowVars => RowsInv'
  <2> SUFFICES ASSUME RowsInv, [RowsNext]_rowVars PROVE RowsInv'
      OBVIOUS
  <2>1. ASSUME NEW c \in Keepers, NEW h \in HandlersHere, NEW i \in Rows,
               \/ \E body \in Created : StartCreateRow(c, h, i, body)
               \/ \E body \in Sets : StartUpdateRow(c, h, i, body)
               \/ StartRemoveRow(c, h, i)
        PROVE  RowsInv'
    BY <2>1, StartsKeepRows
  <2>2. ASSUME NEW c \in Keepers, AssertCodeFree(c) \/ StopKeeping(c) PROVE RowsInv'
    BY <2>2, AssertCodeFreeKeeps
  <2>3. ASSUME NEW c \in Keepers, WriteRow(c) PROVE RowsInv'
    BY <2>3, WriteRowKeeps
  <2>4. CASE UNCHANGED rowVars
    BY <2>4 DEF rowVars, RowsInv, RowsTypeOK, CallsAreInOrder, InOrder
  <2> QED BY <2>1, <2>2, <2>3, <2>4 DEF RowsNext
<1> QED BY <1>1, RowsStart, PTL DEF RowsSpec

\* assertPeriodOrder: a period comes to end before it starts only by an update whose
\* row was written under way.
THEOREM OnlyRacesInvert == RowsSpec => OnlyARaceInvertsAPeriod
<1> DEFINE A == \A i \in Rows : Inverted(unit'[i]) =>
          \/ Inverted(unit[i])
          \/ \E c \in Keepers : WriteRow(c) /\ keeping[c].id = i /\ keeping[c].overtaken
<1>1. ASSUME RowsInv, RowsNext PROVE A
  <2> SUFFICES ASSUME NEW i \in Rows, Inverted(unit'[i]), ~Inverted(unit[i])
               PROVE  \E c \in Keepers : WriteRow(c) /\ keeping[c].id = i /\ keeping[c].overtaken
      OBVIOUS
  <2>1. PICK c \in Keepers : WriteRow(c)
    <3>1. unit' # unit
      OBVIOUS
    <3> QED BY <1>1, <3>1 DEF RowsNext, StartCreateRow, StartUpdateRow, StartRemoveRow,
                              BeginKeeping, AssertCodeFree, StopKeeping
  <2>2. keeping[c] \in Keeping /\ InOrder(keeping[c]) /\ keeping[c].handler \in UnitHandlers
    BY <1>1, <2>1, KeepingHasFields DEF WriteRow, RowsInv, RowsTypeOK, CallsAreInOrder
  <2>3. keeping[c].id = i /\ unit'[i] = RowAfter(keeping[c])
    <3>1. unit = [j \in Rows |-> unit[j]] /\ unit'[i] # unit[i]
      BY <1>1 DEF RowsInv
    <3> QED BY <2>1, <3>1 DEF WriteRow
  <2> DEFINE new == RowAfter(keeping[c])
  <2>4. /\ new # NoColumns /\ table = PeriodsRows /\ IsBody(new, table.columns)
        /\ keeping[c].handler.does \in {"create", "update"}
    BY <1>1, <2>2, <2>3, RowAfterTyped DEF Inverted
  <2>5. ~PeriodOrder(new)
    <3>1. new.startsOn \in Days /\ new.endsOn \in Days
      BY <2>4 DEF IsBody, ValuesOf, PeriodsRows, UnitTable
    <3>2. new.startsOn \in Nat /\ new.endsOn \in Nat
      BY <3>1, DaysAssumption
    <3>3. new.startsOn >= new.endsOn
      BY <2>3 DEF Inverted
    <3> HIDE DEF new
    <3> QED BY <3>2, <3>3 DEF PeriodOrder
  <2>6. "order" \in keeping[c].handler.asks
    BY <1>1, <2>2, <2>4, HandlersFacts, TablesHaveColumns DEF InOrder
  <2>7. keeping[c].handler.does # "create"
    <3> SUFFICES ASSUME keeping[c].handler.does = "create" PROVE FALSE
        OBVIOUS
    <3>1. new = keeping[c].body
      BY DEF RowAfter
    <3> QED BY <2>2, <2>5, <2>6, <3>1 DEF InOrder, Asked
  <2>8. new = WithBody(keeping[c].body, unit[keeping[c].id])
    BY <2>4, <2>7 DEF RowAfter
  <2>9. keeping[c].overtaken
    BY <2>2, <2>4, <2>5, <2>6, <2>7, <2>8 DEF InOrder, Asked
  <2> QED BY <2>1, <2>3, <2>9
<1>2. RowsInv /\ [RowsNext]_rowVars => [A]_rowVars
  BY <1>1
<1> HIDE DEF A
<1>3. RowsSpec => [][A]_rowVars
  BY <1>2, RowsInvariant, PTL DEF RowsSpec
<1> QED BY <1>3 DEF A, OnlyARaceInvertsAPeriod
=============================================================================
