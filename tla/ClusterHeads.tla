----------------------------- MODULE ClusterHeads -----------------------------
(***************************************************************************)
(* The head of a cluster: ProfilesService.create and update, which lower   *)
(* the head there was (isKormater) in the transaction that writes the new  *)
(* one.  The head of a subunit (isKormasit) is kept by the same statements.*)
(*                                                                         *)
(* The statement that lowers finds its rows as they are committed when it  *)
(* begins, and takes them one by one: it waits for a row that another      *)
(* transaction has locked, and leaves it if it is in the cluster no more.  *)
(* It raises no version.  Of the version of the row that is updated only   *)
(* this matters, whether it is still the one that was read (fresh).        *)
(***************************************************************************)
CONSTANTS Residents, \* profiles that may be created
          Clusters,
          NoCluster, \* no cluster
          Stewards,  \* calls that may run at the same time
          HeadBodies \* the bodies that clients send

ASSUME NoClusterAssumption == NoCluster \notin Clusters

VARIABLES
    resident, \* the rows of profiles: whether there is one, its cluster, isKormater
    steering  \* what each call is doing

headVars == <<resident, steering>>

Resident == [here: BOOLEAN, cluster: Clusters \union {NoCluster}, head: BOOLEAN]
NotHere  == [here |-> FALSE, cluster |-> NoCluster, head |-> FALSE]

\* What a body leaves out stays "same".
HeadBody == [cluster: Clusters \union {NoCluster, "same"}, head: {"yes", "no", "same"}]
ASSUME HeadBodiesAssumption == HeadBodies \subseteq HeadBody

\* finds: the rows still to be lowered; lowered: those that are, locked until the
\* transaction ends.  alone: no other call has written since this one began (history).
Steering == [step: {"begin", "lower", "write"}, who: Residents, new: BOOLEAN, body: HeadBody,
             target: Clusters \union {NoCluster}, finds: SUBSET Residents,
             lowered: SUBSET Residents, fresh: BOOLEAN, alone: BOOLEAN]
NotSteering == [step |-> "idle"]

HeadsTypeOK ==
    /\ resident \in [Residents -> Resident]
    /\ steering \in [Stewards -> Steering \union {NotSteering}]

HeadsInit ==
    /\ resident = [r \in Residents |-> NotHere]
    /\ steering = [s \in Stewards |-> NotSteering]

-----------------------------------------------------------------------------
SteersAt(s, step) == steering[s].step = step
Locks(s, r) == ~SteersAt(s, "idle") /\ r \in steering[s].lowered
IsUnlocked(s, r) == \A o \in Stewards \ {s} : ~Locks(o, r)

WithHeadBody(row, body) ==
    [here    |-> TRUE,
     cluster |-> IF body.cluster = "same" THEN row.cluster ELSE body.cluster,
     head    |-> IF body.head = "same" THEN row.head ELSE body.head = "yes"]

\* targetClusterId: the body's cluster, or else that of the row as it was read.
ClusterAsRead(row, body) == row.cluster
TargetCluster(row, body) == WithHeadBody(row, body).cluster

Steer(s, r, body, new) ==
    /\ SteersAt(s, "idle")
    /\ steering' = [steering EXCEPT ![s] =
          [step |-> "begin", who |-> r, new |-> new, body |-> body,
           target |-> TargetCluster(resident[r], body), finds |-> {}, lowered |-> {},
           fresh |-> TRUE, alone |-> TRUE]]
    /\ UNCHANGED resident

\* update has read the row, and compared its version.
StartSteering(s, r, body) == resident[r].here /\ Steer(s, r, body, FALSE)

\* create: a body that leaves the flag out, or the cluster, sets false, or null.
StartInvitation(s, r, body) == ~resident[r].here /\ Steer(s, r, body, TRUE)

\* The lowering UPDATE begins, unless no cluster gets a new head.
Lowers(s) == steering[s].body.head = "yes" /\ steering[s].target # NoCluster
Mates(s) == {r \in Residents : /\ resident[r].here
                               /\ resident[r].cluster = steering[s].target
                               /\ steering[s].new \/ r # steering[s].who}
BeginLowering(s) ==
    /\ SteersAt(s, "begin")
    /\ steering' = [steering EXCEPT ![s].step = IF Lowers(s) THEN "lower" ELSE "write",
                                    ![s].finds = IF Lowers(s) THEN Mates(s) ELSE {}]
    /\ UNCHANGED resident

LowerHead(s, r) ==
    /\ SteersAt(s, "lower")
    /\ r \in steering[s].finds
    /\ IsUnlocked(s, r)
    /\ steering' = [steering EXCEPT
          ![s].finds = @ \ {r},
          ![s].lowered = IF resident[r].cluster = steering[s].target THEN @ \union {r} ELSE @]
    /\ UNCHANGED resident

EndLowering(s) ==
    /\ SteersAt(s, "lower")
    /\ steering[s].finds = {}
    /\ steering' = [steering EXCEPT ![s].step = "write"]
    /\ UNCHANGED resident

\* The INSERT, or the UPDATE ... WHERE version, and the commit.  Without a row the
\* transaction is rolled back, and nobody is lowered.
FinishSteering(s) ==
    LET mover == steering[s].who
        wrote == IF steering[s].new THEN ~resident[mover].here ELSE steering[s].fresh
    IN /\ SteersAt(s, "write")
       /\ IsUnlocked(s, mover)
       /\ resident' = IF ~wrote THEN resident
                      ELSE [r \in Residents |->
                              IF r = mover THEN WithHeadBody(resident[mover], steering[s].body)
                              ELSE IF r \in steering[s].lowered
                                   THEN [resident[r] EXCEPT !.head = FALSE]
                              ELSE resident[r]]
       /\ steering' = [o \in Stewards |->
                         IF o = s THEN NotSteering
                         ELSE IF SteersAt(o, "idle") \/ ~wrote THEN steering[o]
                         ELSE [steering[o] EXCEPT !.alone = FALSE,
                                                  !.fresh = @ /\ steering[o].who # mover]]

\* A statement fails, the instance stops, or Postgres ends one of two transactions
\* that wait for each other: a rollback.
StopSteering(s) ==
    /\ ~SteersAt(s, "idle")
    /\ steering' = [steering EXCEPT ![s] = NotSteering]
    /\ UNCHANGED resident

HeadsNext == \E s \in Stewards :
    \/ \E r \in Residents, body \in HeadBodies :
          StartSteering(s, r, body) \/ StartInvitation(s, r, body)
    \/ BeginLowering(s)
    \/ \E r \in Residents : LowerHead(s, r)
    \/ EndLowering(s)
    \/ FinishSteering(s)
    \/ StopSteering(s)

HeadsSpec == HeadsInit /\ [][HeadsNext]_headVars

-----------------------------------------------------------------------------
HeadsOf(k) == {r \in Residents : resident[r].here /\ resident[r].head /\ resident[r].cluster = k}
HasTwoHeads(k) == \E p, q \in HeadsOf(k) : p # q

\* "Pergantian ketua klaster jika isKormater true" (profiles.service.ts): a cluster
\* gets a second head only by a call that another one overtook, or by one whose body
\* moves a head and leaves the flag out, so that nobody is lowered.
OnlyARaceOrAMoveMakesTwoHeads ==
    [][\A k \in Clusters : ~HasTwoHeads(k) /\ HasTwoHeads(k)'
          => \E s \in Stewards : /\ FinishSteering(s)
                                 /\ ~steering[s].alone \/ steering[s].body.head = "same"
      ]_headVars
=============================================================================
