----------------------------- MODULE RateLimits ------------------------------
(***************************************************************************)
(* RateLimitService as the password login uses it: the tries are counted   *)
(* for the account and for the address, and forgotten when one succeeds.   *)
(*                                                                         *)
(* A counter is a row per bucket and start of a window, of a quarter of an *)
(* hour here, and each statement of the service is atomic.                 *)
(***************************************************************************)
EXTENDS Integers, FiniteSets

CONSTANTS Visitors,   \* calls that may run at the same time
          LoginLimit, \* LOGIN_LIMIT_PER_ACCOUNT and LOGIN_LIMIT_PER_IP
          MaxCount    \* bound on the counters

ASSUME LimitAssumption == LoginLimit \in Nat /\ MaxCount \in Nat

Buckets == {"account", "ip"}

VARIABLES
    counter,   \* the row of each bucket for the window that is running; 0 if there is none
    visiting,  \* what each call is doing
    unforgiven \* the tries counted in a bucket, since it was last emptied, that
               \* failed, were refused, stopped or could not be forgotten (history)

rateVars == <<counter, visiting, unforgiven>>

-----------------------------------------------------------------------------
\* counted: the buckets that hold the try; refused: one of them was full.
Visiting == [step: {"idle", "count", "verify", "forget"},
             counted: SUBSET Buckets, refused: BOOLEAN, left: SUBSET Buckets]
NotVisiting == [step |-> "idle", counted |-> {}, refused |-> FALSE, left |-> {}]

RateLimitsTypeOK ==
    /\ counter \in [Buckets -> Nat]
    /\ visiting \in [Visitors -> Visiting]
    /\ unforgiven \in [Buckets -> Nat]

RateLimitsInit ==
    /\ counter = [b \in Buckets |-> 0]
    /\ visiting = [v \in Visitors |-> NotVisiting]
    /\ unforgiven = [b \in Buckets |-> 0]

-----------------------------------------------------------------------------
\* consume: counts first, decides then.
Full(b) == counter[b] + 1 > LoginLimit
Consume(b) ==
    /\ counter[b] < MaxCount
    /\ counter' = [counter EXCEPT ![b] = @ + 1]

-----------------------------------------------------------------------------
(* loginWithPassword: assertLoginAllowed counts in both buckets, in either *)
(* order, and only then looks at the two answers.                          *)

Underway(b) == {v \in Visitors : b \in visiting[v].counted}

\* A call may come without an address.
StartPasswordLogin(v, bs) ==
    /\ "account" \in bs
    /\ visiting[v] = NotVisiting
    /\ visiting' = [visiting EXCEPT ![v] = [NotVisiting EXCEPT !.step = "count", !.left = bs]]
    /\ UNCHANGED <<counter, unforgiven>>

CountTry(v, b) ==
    /\ visiting[v].step = "count"
    /\ b \in visiting[v].left
    /\ Consume(b)
    /\ visiting' = [visiting EXCEPT ![v].left = @ \ {b}, ![v].counted = @ \union {b},
                                    ![v].refused = @ \/ Full(b)]
    /\ UNCHANGED unforgiven

\* The call ends, and leaves the try in the buckets that hold it.
EndTry(v) ==
    /\ visiting' = [visiting EXCEPT ![v] = NotVisiting]
    /\ unforgiven' = [b \in Buckets |-> IF b \in visiting[v].counted
                                        THEN unforgiven[b] + 1 ELSE unforgiven[b]]
    /\ UNCHANGED counter

AssertLoginAllowed(v) ==
    /\ visiting[v].step = "count" /\ visiting[v].left = {}
    /\ IF visiting[v].refused
       THEN EndTry(v)
       ELSE /\ visiting' = [visiting EXCEPT ![v].step = "verify"]
            /\ UNCHANGED <<counter, unforgiven>>

\* No such account, an inactive one, or another password.
FailLogin(v) == visiting[v].step = "verify" /\ EndTry(v)

\* clearLoginCounters, ...
ForgetsOnlyTheAccount(v) == {"account"}
Forgets(v) == visiting[v].counted

PasswordMatches(v) ==
    /\ visiting[v].step = "verify"
    /\ visiting' = [visiting EXCEPT ![v].step = "forget", ![v].left = Forgets(v)]
    /\ UNCHANGED <<counter, unforgiven>>

\* ... the account first; a reset is one UPDATE ...
ResetBucket(v, b) ==
    /\ visiting[v].step = "forget" /\ b \in visiting[v].left
    /\ b = "ip" => "account" \notin visiting[v].left
    /\ counter' = [counter EXCEPT ![b] = 0]
    /\ unforgiven' = [unforgiven EXCEPT ![b] = 0]
    /\ visiting' = [visiting EXCEPT ![v].left = @ \ {b}, ![v].counted = @ \ {b}]

\* ... and its failure is logged and forgotten.
ResetFails(v, b) ==
    /\ visiting[v].step = "forget" /\ b \in visiting[v].left
    /\ b = "ip" => "account" \notin visiting[v].left
    /\ unforgiven' = [unforgiven EXCEPT ![b] = @ + 1]
    /\ visiting' = [visiting EXCEPT ![v].left = @ \ {b}, ![v].counted = @ \ {b}]
    /\ UNCHANGED counter

\* issueSession.
LoginSucceeds(v) ==
    /\ visiting[v].step = "forget" /\ visiting[v].left = {}
    /\ visiting' = [visiting EXCEPT ![v] = NotVisiting]
    /\ UNCHANGED <<counter, unforgiven>>

\* The instance stops, or a statement of the login fails.
StopVisiting(v) == visiting[v] # NotVisiting /\ EndTry(v)

\* A quarter of an hour is over.
NextQuarter ==
    /\ counter' = [b \in Buckets |-> 0]
    /\ unforgiven' = [b \in Buckets |-> 0]
    /\ UNCHANGED visiting

RateLimitsNext ==
    \/ NextQuarter
    \/ \E v \in Visitors :
          \/ \E bs \in SUBSET Buckets : StartPasswordLogin(v, bs)
          \/ \E b \in Buckets : CountTry(v, b) \/ ResetBucket(v, b) \/ ResetFails(v, b)
          \/ AssertLoginAllowed(v) \/ FailLogin(v) \/ PasswordMatches(v) \/ LoginSucceeds(v)
          \/ StopVisiting(v)

RateLimitsSpec == RateLimitsInit /\ [][RateLimitsNext]_rateVars

-----------------------------------------------------------------------------
\* auth.constants ("Yang dihitung hanya percobaan yang gagal"): what a bucket of
\* the login counts beyond the tries that failed is no more than the tries that
\* are still under way, whichever tries overlap and whichever resets fail.
OnlyFailuresStayCounted ==
    \A b \in Buckets : counter[b] <= unforgiven[b] + Cardinality(Underway(b))
=============================================================================
