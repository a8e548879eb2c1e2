------------------------------- MODULE Backoff -------------------------------
(***************************************************************************)
(* When a job of the queue runs again (internal/queue/backoff.go, execute  *)
(* in queue.go, RescheduleJob and RetryJob in store/jobs.go).  JobQueue    *)
(* has everything else about a job, and says of the delay only "later".    *)
(* Times are in milliseconds.                                              *)
(***************************************************************************)
EXTENDS Integers

CONSTANTS
  BaseDelay, MaxDelay,  \* 2 seconds, 5 minutes
  Jitter,               \* what the random spread may be, in percent of the delay
  UnhealthyRetry,       \* the wait while the storage is down
  MaxAttempts           \* bound: counted failures

ASSUME BackoffAssumption ==
  /\ BaseDelay \in Nat \ {0} /\ MaxDelay \in Nat /\ BaseDelay <= MaxDelay
  /\ Jitter \subseteq -20..20 /\ UnhealthyRetry \in Nat /\ MaxAttempts \in Nat

VARIABLES
  attempts,  \* jobs.attempts: failures that were counted
  wait,      \* run_after less the time of the last outcome
  job        \* "pending" or "failed"
backoffVars == <<attempts, wait, job>>

BackoffInit == attempts = 0 /\ wait = 0 /\ job = "pending"

Least(a, b) == IF a < b THEN a ELSE b
Capped(d) == Least(d, MaxDelay)

\* Mutant: the cap comes first, and the doubling after it.
GrowthUncapped(n) == Capped(BaseDelay) * 2^Least(n - 1, 20)

Growth(n) == Capped(BaseDelay * 2^Least(n - 1, 20))

\* Backoff: the spread is added to the capped delay, so that a retry may be a
\* fifth later than MaxDelay, but never sooner than BaseDelay.
Delay(n, j) ==
  LET d == Growth(n) + (j * Growth(n)) \div 100
  IN IF d < BaseDelay THEN BaseDelay ELSE d

\* A transient error is counted ...
Reschedule ==
  /\ job = "pending" /\ attempts < MaxAttempts
  /\ \E j \in Jitter : wait' = Delay(attempts + 1, j)
  /\ attempts' = attempts + 1 /\ UNCHANGED job

\* ... a storage that is down, or a shutdown, is not.
Defer ==
  /\ job = "pending"
  /\ wait' \in {UnhealthyRetry, 0} /\ UNCHANGED <<attempts, job>>

FailJob == job = "pending" /\ job' = "failed" /\ UNCHANGED <<attempts, wait>>

\* The user tries a failed job again.
RetryJob == job = "failed" /\ job' = "pending" /\ attempts' = 0 /\ wait' = 0

BackoffNext == Reschedule \/ Defer \/ FailJob \/ RetryJob

BackoffSpec == BackoffInit /\ [][BackoffNext]_backoffVars

----------------------------------------------------------------------------
\* "Growing exponentially up to maxDelay with a small random spread"
\* (backoff.go): the wait after a counted failure neither overflows nor leaves
\* its bounds, however often a job has failed, and the first one is the shortest.
DelayBounded == [][attempts' = attempts + 1 =>
  /\ wait' \in BaseDelay..(MaxDelay + MaxDelay \div 5)
  /\ attempts = 0 => wait' <= BaseDelay + BaseDelay \div 5]_backoffVars
=============================================================================
