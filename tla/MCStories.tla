------------------------------ MODULE MCStories ------------------------------
(***************************************************************************)
(* A short path through the statuses, with the step back from done that a  *)
(* row of status_transitions may add, and the view of RequestSync's runs:  *)
(* whether a call's If-Match still holds, but not the version numbers.     *)
(***************************************************************************)
EXTENDS Stories, TLC

SomeStatuses == {"backlog", "in_progress", "done"}
SomeEdges == {<<"backlog", "in_progress">>, <<"in_progress", "done">>,
              <<"done", "in_progress">>}

CONSTANTS s1, t1, t2
OneStory == {<<t1, s1>>, <<t2, s1>>}

\* The story may become a task of its own task, which the API does not refuse:
\* the smallest case in which two transactions ask for each other's row.
AroundInACircle == OneStory \union {<<s1, t1>>}

Unversioned(row) == [row EXCEPT !.version = IF @ = 0 THEN 0 ELSE 1]

Stale(c) == c.step \in {"move", "patch", "remove"} /\ ~IfMatch(table[c.i], c.seen)

SeenCall(c) == IF Stale(c) THEN <<c.step, c.i>>
               ELSE <<[c EXCEPT !.seen = NoItem], c.seen.status, c.seen.parent>>

View == <<[r \in Rows |-> <<Unversioned(table[r]), Unversioned(dirty[r])>>],
          lock, [h \in Handlers |-> SeenCall(call[h])]>>

Symmetry == Permutations(Handlers)

\* For the run about the roll-up alone: no task is moved, removed or deleted for good.
OnlyTransitions == /\ \A h \in Handlers : call[h].step \notin {"patch", "remove"}
                   /\ \A r \in Rows : table[r] # GoneItem
=============================================================================
