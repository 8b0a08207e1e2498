----------------------------- MODULE LoginLimiter -----------------------------
(***************************************************************************)
(* The limit on failed password logins: AuthRateLimiter                    *)
(* (src/src/modules/auth/auth-rate-limit.middleware.ts), for the attempts  *)
(* of one client with one user name.  A request is counted when its        *)
(* response is finished, so others may pass the check before that.  The    *)
(* sweep of expired records cannot be told from their expiry and is left   *)
(* out.                                                                    *)
(***************************************************************************)
EXTENDS Integers, FiniteSets

CONSTANTS
    MaxAttempts,    \* AUTH_RATE_LIMIT_MAX_ATTEMPTS
    Window,         \* AUTH_RATE_LIMIT_WINDOW_SECONDS
    LoginRequests,  \* bound: requests
    MaxTime         \* bound: seconds that pass

ASSUME LimiterAssumption ==
    /\ MaxAttempts \in Nat \ {0}
    /\ Window \in Nat \ {0}
    /\ LoginRequests \in Nat /\ MaxTime \in Nat

VARIABLES
    seconds,    \* Date.now() in seconds
    record,     \* the record of the attempts, as a set of at most one
    requested,  \* requests so far
    tried,      \* requests that were let through and are not answered yet
    refused,    \* requests that were refused, their responses not finished yet
    failures,   \* history: wrong passwords that were let through since the last right one
    told,       \* history: the seconds a refused client was told to wait for
    inParallel  \* history: two requests were under way at once

limiterVars == <<seconds, record, requested, tried, refused, failures, told, inParallel>>

Seconds == 0 .. MaxTime
AttemptRecord == [count : 1 .. LoginRequests, start : Seconds]
\* The number of the latest request when the response was finished tells apart
\* failures of requests that come one after the other.
Failure == [nr : 1 .. LoginRequests, at : Seconds]

LimiterTypeOK ==
    /\ seconds \in Seconds
    /\ record = {} \/ \E r \in AttemptRecord : record = {r}
    /\ {requested, tried, refused} \subseteq 0 .. LoginRequests
    /\ failures \subseteq Failure
    /\ told \subseteq 0 .. MaxTime + Window
    /\ inParallel \in BOOLEAN

LimiterInit ==
    /\ seconds = 0
    /\ record = {}
    /\ requested = 0 /\ tried = 0 /\ refused = 0
    /\ failures = {}
    /\ told = {}
    /\ inParallel = FALSE

LimiterTick ==
    /\ seconds < MaxTime
    /\ seconds' = seconds + 1
    /\ UNCHANGED <<record, requested, tried, refused, failures, told, inParallel>>

\* The record as long as its window lasts.
Running == {r \in record : seconds - r.start < Window}

\* Mutant: one attempt too many.
ReachedLate == \E r \in Running : r.count > MaxAttempts

Reached == \E r \in Running : r.count >= MaxAttempts

\* use: an expired record goes, and a client at the limit is refused.
Attempt ==
    /\ requested < LoginRequests
    /\ requested' = requested + 1
    /\ record' = Running
    /\ IF Reached
       THEN /\ refused' = refused + 1
            /\ told' = {r.start + Window : r \in Running}
            /\ UNCHANGED tried
       ELSE /\ tried' = tried + 1
            /\ UNCHANGED <<refused, told>>
    /\ inParallel' = (inParallel \/ tried + refused > 0)
    /\ UNCHANGED <<seconds, failures>>

\* Mutant: every failure starts the window again.
CountedFromNow ==
    IF Running = {} THEN {[count |-> 1, start |-> seconds]}
    ELSE {[count |-> r.count + 1, start |-> seconds] : r \in Running}

\* recordFailure
Counted ==
    IF Running = {} THEN {[count |-> 1, start |-> seconds]}
    ELSE {[r EXCEPT !.count = @ + 1] : r \in Running}

\* The responses: 401, 403 and 406 count, 2xx clears the record, and others
\* leave it alone.
WrongPassword ==
    /\ tried > 0
    /\ tried' = tried - 1
    /\ record' = Counted
    /\ failures' = failures \cup {[nr |-> requested, at |-> seconds]}
    /\ UNCHANGED <<seconds, requested, refused, told, inParallel>>

RightPassword ==
    /\ tried > 0
    /\ tried' = tried - 1
    /\ record' = {}
    /\ failures' = {}
    /\ UNCHANGED <<seconds, requested, refused, told, inParallel>>

OtherAnswer ==
    /\ tried > 0
    /\ tried' = tried - 1
    /\ UNCHANGED <<seconds, record, requested, refused, failures, told, inParallel>>

\* A request that was refused counts again.
FinishRefusal ==
    /\ refused > 0
    /\ refused' = refused - 1
    /\ record' = Counted
    /\ UNCHANGED <<seconds, requested, tried, failures, told, inParallel>>

LimiterNext ==
    \/ LimiterTick \/ Attempt \/ WrongPassword \/ RightPassword \/ OtherAnswer \/ FinishRefusal

LimiterSpec == LimiterInit /\ [][LimiterNext]_limiterVars

(***************************************************************************)
(* Properties.                                                             *)
(***************************************************************************)

FailuresWithin(t) == {f \in failures : t <= f.at /\ f.at < t + Window}

\* Of requests that come one after the other, fewer than twice the maximum fail
\* within any stretch as long as a window, also where two windows meet.
FailuresAreLimited ==
    inParallel \/ \A t \in Seconds : Cardinality(FailuresWithin(t)) < 2 * MaxAttempts

\* A client that is told to "Try again in N seconds" (auth-rate-limit.middleware.ts:57)
\* and waits, without requests that fail or cross, gets to try again then.  Not so with a
\* maximum of one: a refusal that is finished after the window starts a window that
\* is full at once.
TriesAgainAsTold ==
    \A t \in told :
        LET waited == seconds >= t /\ \A f \in failures : f.at < t
        IN  waited => inParallel \/ ~Reached

\* With any other maximum the promise is kept.
RetryAfterIsKept == MaxAttempts > 1 => TriesAgainAsTold
=============================================================================
