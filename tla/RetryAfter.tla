----------------------------- MODULE RetryAfter -----------------------------
(***************************************************************************)
(* Waiting as long as an upstream asks: the request loop of                *)
(* ResilientHttpClient (apps/api/app/sources/http.py) below the failure    *)
(* row of poll_source (workers/jobs.py).  A short Retry-After is slept in  *)
(* the client, under one deadline for all attempts of a request; a longer  *)
(* one travels in the exception to the failure row, which keeps further    *)
(* polls away; one beyond a day is left to an operator.                    *)
(***************************************************************************)
EXTENDS Integers, FiniteSetsExt

CONSTANTS
  Pauses,        \* what a Retry-After can ask for, in seconds
  Jitters,       \* what the jitter adds to a backoff
  TooLong,       \* MAX_AUTOMATIC_RETRY_AFTER_SECONDS
  TotalTimeout,  \* total_timeout_seconds, for all attempts of a request
  RequestTries,  \* max_attempts of the client
  JobTries,      \* MAX_ATTEMPTS of the job
  LastSecond     \* bound on the clock

ASSUME RetryAssumption ==
  /\ Pauses \subseteq Nat /\ Jitters \subseteq Nat
  /\ {TooLong, TotalTimeout, RequestTries, JobTries} \subseteq Nat \ {0}
  /\ LastSecond \in Nat

VARIABLES
  second,    \* the clock
  request,   \* the poll's request
  failing,   \* history of the failure on its way to the row: none, or its policy
  failure,   \* the failure row of poll_source
  demand     \* the upstream asked for no request before this second

retryVars == <<second, request, failing, failure, demand>>

(* RetryAfterPolicy: none, a time, or a review.                            *)
NoPolicy == [kind |-> "none", at |-> 0]
Review   == [kind |-> "review", at |-> 0]
Time(t)  == [kind |-> "time", at |-> t]

NoRequest == [at |-> "idle", attempt |-> 0, deadline |-> 0, wake |-> 0, policy |-> NoPolicy]
NoFailure == [at |-> "no", transient |-> TRUE, policy |-> NoPolicy]

RetryInit ==
  /\ second  = 0
  /\ request = NoRequest
  /\ failing = NoFailure
  /\ failure = [attempts |-> 0, dead |-> FALSE, next |-> 0]
  /\ demand  = 0

(* _retry_after_policy: an unreadable header counts as none.               *)
Policy(asked) == IF asked > TooLong THEN Review ELSE Time(second + asked)

(* What the upstream asks for holds from its answer on; beyond the limit   *)
(* no time is soon enough.                                                 *)
Demanded(asked) == IF asked > TooLong THEN LastSecond + 1 ELSE second + asked

Raise(transient, policy) ==
  /\ failing' = [at |-> "raised", transient |-> transient /\ policy.kind # "review", policy |-> policy]
  /\ request' = NoRequest

-----------------------------------------------------------------------------
(* poll_source and the first attempt of its request                        *)

Send ==
  /\ request = NoRequest /\ failing = NoFailure
  /\ ~ failure.dead /\ failure.attempts < JobTries /\ failure.next <= second
  /\ request' = [NoRequest EXCEPT !.at = "sent", !.attempt = 1, !.deadline = second + TotalTimeout]
  /\ UNCHANGED <<second, failing, failure, demand>>

(* _sleep_before_retry of a request whose answer set the given policy: a   *)
(* wait that does not fit the deadline is raised instead.  What the        *)
(* request remembers of earlier answers is raised when this one said none. *)
BackoffOnly(jitter, policy) == 2^(request.attempt - 1) + jitter

Delay(jitter, policy) ==
  LET backoff == 2^(request.attempt - 1) + jitter
  IN  IF policy.kind = "time" THEN Max({backoff, policy.at - second}) ELSE backoff

SleepBeforeRetry(policy, remembered) ==
  \E jitter \in Jitters :
    IF policy = Review \/ Delay(jitter, policy) >= request.deadline - second
      THEN Raise(TRUE, IF policy = NoPolicy THEN remembered ELSE policy)
      ELSE /\ request' = [request EXCEPT !.at = "asleep", !.wake = second + Delay(jitter, policy),
                                         !.policy = remembered]
           /\ UNCHANGED failing

(* 429 and 5xx, with a Retry-After or without one.                         *)
Refuse(policy) ==
  IF request.attempt = RequestTries THEN Raise(TRUE, policy) ELSE SleepBeforeRetry(policy, policy)

Refused ==
  /\ request.at = "sent"
  /\ \/ Refuse(NoPolicy) /\ UNCHANGED demand
     \/ \E asked \in Pauses : Refuse(Policy(asked)) /\ demand' = Demanded(asked)
  /\ UNCHANGED <<second, failure>>

(* A transport error says nothing of its own.                              *)
Unreachable ==
  /\ request.at = "sent"
  /\ IF request.attempt = RequestTries
       THEN Raise(TRUE, NoPolicy)
       ELSE SleepBeforeRetry(NoPolicy, request.policy)
  /\ UNCHANGED <<second, failure, demand>>

Wake ==
  /\ request.at = "asleep" /\ request.wake <= second
  /\ request' = [request EXCEPT !.at = "sent", !.attempt = @ + 1]
  /\ UNCHANGED <<second, failing, failure, demand>>

(* The overall deadline fires, in a sleep or in an attempt: it passes the  *)
(* remembered policy on.                                                   *)
DeadlineFires ==
  /\ request.at \in {"sent", "asleep"} /\ request.deadline <= second
  /\ Raise(TRUE, request.policy)
  /\ UNCHANGED <<second, failure, demand>>

(* Any other error answer, or a page that the adapter does not accept.     *)
Rejected ==
  /\ request.at = "sent"
  /\ Raise(FALSE, NoPolicy)
  /\ UNCHANGED <<second, failure, demand>>

Answered ==
  /\ request.at = "sent"
  /\ request' = NoRequest
  /\ failure' = [attempts |-> 0, dead |-> FALSE, next |-> 0]
  /\ UNCHANGED <<second, failing, demand>>

-----------------------------------------------------------------------------
(* The failure row                                                         *)

RetryAtBackoffOnly(attempts, policy) == second + 2^attempts

(* _poll_retry_not_before                                                  *)
RetryAt(attempts, policy) == Max({second + 2^attempts, policy.at})

RecordFailure ==
  LET attempts == failure.attempts + 1
      dead     == ~ failing.transient \/ attempts >= JobTries
  IN  /\ failing.at = "raised"
      /\ failure' = [attempts |-> attempts, dead |-> dead,
                     next |-> IF dead THEN 0 ELSE RetryAt(attempts, failing.policy)]
      /\ failing' = NoFailure
      /\ UNCHANGED <<second, request, demand>>

(* The operator's retry of a dead letter is a decision of its own: what    *)
(* the upstream had asked for does not hold it back.                       *)
OperatorRetries ==
  /\ failure.dead
  /\ failure' = [attempts |-> 0, dead |-> FALSE, next |-> second]
  /\ demand'  = 0
  /\ UNCHANGED <<second, request, failing>>

(* Until the row is committed the request of the upstream lives in the     *)
(* process alone, and dies with it.                                        *)
ProcessDies ==
  /\ request # NoRequest \/ failing # NoFailure
  /\ request' = NoRequest /\ failing' = NoFailure
  /\ demand'  = 0
  /\ UNCHANGED <<second, failure>>

SecondPasses ==
  /\ second < LastSecond
  /\ second' = second + 1
  /\ UNCHANGED <<request, failing, failure, demand>>

RetryNext ==
  \/ Send \/ Refused \/ Unreachable \/ Wake \/ DeadlineFires \/ Rejected \/ Answered
  \/ RecordFailure \/ OperatorRetries \/ ProcessDies \/ SecondPasses

RetrySpec == RetryInit /\ [][RetryNext]_retryVars

-----------------------------------------------------------------------------

(* An upstream that asked for a pause gets it: no attempt starts before    *)
(* the second its last answer named, whether the client sleeps, the        *)
(* deadline fires, or the poll is run again by arq or by the cron job.     *)
(* Only an operator, and a process that dies with what it was told, send   *)
(* earlier.                                                                *)
CooldownIsKept ==
  [][request'.at = "sent" /\ request.at # "sent" => second >= demand]_retryVars

=============================================================================
