--------------------------- MODULE CircuitBreaker ---------------------------
(***************************************************************************)
(* The degradation policy of a remote transport (registerFailure and       *)
(* registerSubscriptionFailure in src/mcp_server/src/transport/remote.ts): *)
(* the switch `enabled` goes off for good on a function the deployment     *)
(* does not have, on an authentication error of a call, or on the          *)
(* DEGRADATION_THRESHOLD-th failure within DEGRADATION_WINDOW.             *)
(*                                                                         *)
(* An error is one of three: "notFound" (isFunctionNotFoundError), "auth"  *)
(* (isAuthError) and "transient", anything else.                           *)
(*                                                                         *)
(* This module says what an error does to the switch; which call reports   *)
(* which error is for the module that extends it.                          *)
(***************************************************************************)
EXTENDS Naturals, Sequences

CONSTANTS
    DEGRADATION_WINDOW,     \* 60 s in the code
    DEGRADATION_THRESHOLD,  \* 3 in the code
    MaxTime,                \* bound: the clock
    MaxFailures             \* bound: failures that count

ASSUME BreakerAssumption ==
    /\ DEGRADATION_WINDOW \in Nat /\ DEGRADATION_THRESHOLD \in Nat \ {0}
    /\ MaxTime \in Nat /\ MaxFailures \in Nat

VARIABLES
    enabled,
    recentFailures,     \* the times of failures within the window
    now,                \* Date.now()
    failures,           \* history: the times of all failures that counted
    fatal               \* history: an error came that trips at once

breakerVars == <<enabled, recentFailures, now, failures, fatal>>

Errors == {"transient", "auth", "notFound"}

BreakerTypeOK ==
    /\ enabled \in BOOLEAN /\ fatal \in BOOLEAN
    /\ now \in 0 .. MaxTime
    /\ recentFailures \in Seq(0 .. MaxTime) /\ failures \in Seq(0 .. MaxTime)
    /\ Len(recentFailures) <= Len(failures) /\ Len(failures) <= MaxFailures

BreakerInit ==
    /\ enabled = TRUE
    /\ recentFailures = <<>>
    /\ now = 0
    /\ failures = <<>> /\ fatal = FALSE

-----------------------------------------------------------------------------
(* Failures *)

\* Faulty InWindow: no failure ever leaves the window.
InWindowNever(times) == times

\* How many of the oldest times are more than the window away.
Expired(times) ==
    CHOOSE n \in 0 .. Len(times) :
        /\ \A i \in 1 .. n : now - times[i] > DEGRADATION_WINDOW
        /\ n < Len(times) => now - times[n + 1] <= DEGRADATION_WINDOW

\* The failure times that are still in the window: the loop shifts the oldest
\* while it is more than the window away.
InWindow(times) == SubSeq(times, Expired(times) + 1, Len(times))

\* Faulty CountFailure: one failure too many is allowed.
CountFailureLate ==
    LET recent == InWindow(Append(recentFailures, now)) IN
    /\ Len(failures) < MaxFailures
    /\ recentFailures' = recent
    /\ enabled' = (enabled /\ Len(recent) <= DEGRADATION_THRESHOLD)
    /\ failures' = Append(failures, now)
    /\ UNCHANGED <<now, fatal>>

CountFailure ==
    LET recent == InWindow(Append(recentFailures, now)) IN
    /\ Len(failures) < MaxFailures
    /\ recentFailures' = recent
    /\ enabled' = (enabled /\ Len(recent) < DEGRADATION_THRESHOLD)
    /\ failures' = Append(failures, now)
    /\ UNCHANGED <<now, fatal>>

Trip ==
    /\ enabled' = FALSE
    /\ fatal' = TRUE
    /\ UNCHANGED <<recentFailures, now, failures>>

registerFailure(err) == IF err = "transient" THEN CountFailure ELSE Trip

\* The error callback of a feed: an authentication error only counts, since
\* the client retries with a refreshed token.
registerSubscriptionFailure(err) == IF err = "notFound" THEN Trip ELSE CountFailure

Tick ==
    /\ now < MaxTime
    /\ now' = now + 1
    /\ UNCHANGED <<enabled, recentFailures, failures, fatal>>

-----------------------------------------------------------------------------
(* When the switch ought to be off *)

\* Of all failures that ever counted, some DEGRADATION_THRESHOLD in a row are
\* within one window.
TooManyFailures ==
    \E i \in DOMAIN failures :
        LET j == i + DEGRADATION_THRESHOLD - 1 IN
        j \in DOMAIN failures /\ failures[j] - failures[i] <= DEGRADATION_WINDOW

Cause == fatal \/ TooManyFailures
=============================================================================
