--------------------------- MODULE ExtractionFence ---------------------------
(***************************************************************************)
(* Hosted extraction of one opportunity version under the credit fence:    *)
(* workers/extraction.py (extract_version, reconcile_pending_extractions), *)
(* extraction/service.py (persist_extraction), credits/extraction.py and   *)
(* the operator's commands of ops/extraction_credits.py and api/admin.py.  *)
(*                                                                         *)
(* A worker locks the version, reserves units and commits, which releases  *)
(* the lock; it locks the version again, rechecks everything and calls the *)
(* provider with the lock held; result and debit are one commit.  A worker *)
(* may crash or be cancelled anywhere.  The version's documents may change *)
(* at any time: OCR results are stored without the version lock.           *)
(*                                                                         *)
(* The ledger is here as its callers see it (CreditBudget): an available   *)
(* balance per account and one hold per account and extraction identity,   *)
(* for the fixed number of units of the policy, counted as 1.              *)
(***************************************************************************)
EXTENDS Integers, FiniteSets

CONSTANTS
  Workers,      \* arq worker slots that may run extract_version
  Keys,         \* extraction identities the version's documents can have
  Accounts,     \* pipeline budget accounts a deployment may configure
  Funding,      \* units granted to each account
  MaxAttempts,  \* MAX_ATTEMPTS of workers/jobs.py
  MaxCrashes,   \* bound on crashes and cancellations
  None          \* no key, no account, no lock holder

ASSUME FenceAssumption ==
  /\ Funding \in [Accounts -> Nat]
  /\ MaxAttempts \in Nat \ {0}
  /\ MaxCrashes \in Nat
  /\ None \notin Workers \cup Keys \cup Accounts

VARIABLES
  input,      \* identity of the version's current documents; None without suitable pages
  results,    \* identities with a structured_extractions row
  available,  \* available units per account
  holds,      \* the reservation of each account for each identity
  failure,    \* job_failures row of extract_version per identity
  job,        \* per worker: where it is, its key, the credit policy it read
  lock,       \* holder of the version's row lock
  calls,      \* history: provider calls per identity since its first hold
  crashes     \* number of crashes so far

vars == <<input, results, available, holds, failure, job, lock, calls, crashes>>

Stages == {"idle", "queued", "reserved", "calling", "closing", "review", "retryable"}

Idle      == [at |-> "idle", key |-> None, policy |-> None]
NoHold    == [status |-> "absent", recent |-> FALSE, by |-> None]
NoFailure == [attempts |-> 0, dead |-> FALSE, due |-> TRUE]

Init ==
  /\ input \in Keys \cup {None}
  /\ results   = {}
  /\ available = Funding
  /\ holds     = [a \in Accounts |-> [k \in Keys |-> NoHold]]
  /\ failure   = [k \in Keys |-> NoFailure]
  /\ job       = [w \in Workers |-> Idle]
  /\ lock      = None
  /\ calls     = [k \in Keys |-> 0]
  /\ crashes   = 0

-----------------------------------------------------------------------------
(***************************************************************************)
(* Helpers.                                                                *)
(***************************************************************************)

(* The accounts that hold or held a reservation for this identity.         *)
Holders(k) == {a \in Accounts : holds[a][k].status # "absent"}

(* The rows assert_no_prior_attempt sees: every account's.                 *)
PriorAttemptsOfOwnAccount(k, policy) == Holders(k) \cap {policy}
PriorAttemptsStillOpen(k, policy)    == {a \in Holders(k) : holds[a][k].status = "reserved"}
PriorAttempts(k, policy) == Holders(k)

(* A reservation that is still open and younger than                       *)
(* RESERVATION_START_GRACE.                                                *)
HeldWhateverAge(hold) == hold.status # "absent"
OpenForCall(hold) == hold.status = "reserved" /\ hold.recent

(* extract_version's look at the failure row before it does any work.      *)
GateOpen(k) ==
  failure[k].attempts > 0 =>
    ~ failure[k].dead /\ failure[k].attempts < MaxAttempts /\ failure[k].due

(* _record_failure and the terminal check after it.  The row's attempts go *)
(* on counting past MAX_ATTEMPTS; here they stop there.                    *)
RecordFailure(k, dead) ==
  LET n == IF failure[k].attempts < MaxAttempts THEN failure[k].attempts + 1 ELSE MaxAttempts
  IN  failure' = [failure EXCEPT ![k] =
                    [attempts |-> n, dead |-> dead \/ n >= MaxAttempts, due |-> FALSE]]

ResetFailure(k) == failure' = [failure EXCEPT ![k] = NoFailure]

Goto(w, stage) == job' = [job EXCEPT ![w].at = stage]
Finish(w)      == job' = [job EXCEPT ![w] = Idle]

CountCall(k) ==
  calls' = [calls EXCEPT ![k] = IF Holders(k) = {} THEN 0 ELSE @ + 1]

(* The ledger settles open reservations only, each once.                   *)
Settleable(a, k) == holds[a][k].status = "reserved"

SettleWithoutReturn(a, k, status, by) ==
  /\ Settleable(a, k)
  /\ holds' = [holds EXCEPT ![a][k].status = status, ![a][k].by = by]
  /\ UNCHANGED available

Settle(a, k, status, by) ==
  /\ Settleable(a, k)
  /\ holds' = [holds EXCEPT ![a][k].status = status, ![a][k].by = by]
  /\ available' = IF status = "refunded" THEN [available EXCEPT ![a] = @ + 1] ELSE available

-----------------------------------------------------------------------------
(***************************************************************************)
(* The worker.                                                             *)
(***************************************************************************)

(* extract_version starts: it reads the documents without a lock, passes   *)
(* the gate and knows its credit policy (None: credits disabled).          *)
StartJob(w, policy) ==
  /\ job[w] = Idle
  /\ input # None
  /\ GateOpen(input)
  /\ job' = [job EXCEPT ![w] = [at |-> "queued", key |-> input, policy |-> policy]]
  /\ UNCHANGED <<input, results, available, holds, failure, lock, calls, crashes>>

(* persist_extraction has locked the version for the first time.           *)
AtFirstLock(w) == job[w].at = "queued" /\ lock = None

NothingToDo(k) == input # k \/ k \in results

(* Stale or finished work: nothing is called, the failure row is cleared.  *)
SkipWork(w) ==
  /\ AtFirstLock(w)
  /\ NothingToDo(job[w].key)
  /\ ResetFailure(job[w].key)
  /\ Finish(w)
  /\ UNCHANGED <<input, results, available, holds, lock, calls, crashes>>

(* assert_no_prior_attempt raises: a recent open hold defers the job, any  *)
(* other hold requires review.                                             *)
MeetPriorAttempt(w) ==
  /\ AtFirstLock(w)
  /\ ~ NothingToDo(job[w].key)
  /\ \E a \in PriorAttempts(job[w].key, job[w].policy) :
       IF OpenForCall(holds[a][job[w].key]) THEN Finish(w) ELSE Goto(w, "review")
  /\ UNCHANGED <<input, results, available, holds, failure, lock, calls, crashes>>

Clear(w) ==
  /\ AtFirstLock(w)
  /\ ~ NothingToDo(job[w].key)
  /\ PriorAttempts(job[w].key, job[w].policy) = {}

(* Without a credit policy the provider is called under this first lock.   *)
CallUnbilled(w) ==
  /\ Clear(w)
  /\ job[w].policy = None
  /\ lock' = w
  /\ Goto(w, "calling")
  /\ CountCall(job[w].key)
  /\ UNCHANGED <<input, results, available, holds, failure, crashes>>

(* The balance check of reserve_credits.                                   *)
SufficientOrEmpty(a) == available[a] >= 0
Sufficient(a) == available[a] >= 1

(* reserve_extraction: the hold is committed and the lock released.        *)
ReserveUnits(w) ==
  LET a == job[w].policy
  IN  /\ Clear(w)
      /\ a # None
      /\ holds[a][job[w].key].status = "absent"
      /\ Sufficient(a)
      /\ available' = [available EXCEPT ![a] = @ - 1]
      /\ holds' = [holds EXCEPT ![a][job[w].key] =
                     [status |-> "reserved", recent |-> TRUE, by |-> None]]
      /\ Goto(w, "reserved")
      /\ UNCHANGED <<input, results, failure, lock, calls, crashes>>

(* InsufficientCredits is not a transient error.                           *)
RefuseForBalance(w) ==
  /\ Clear(w)
  /\ job[w].policy # None
  /\ ~ Sufficient(job[w].policy)
  /\ Goto(w, "review")
  /\ UNCHANGED <<input, results, available, holds, failure, lock, calls, crashes>>

(* persist_extraction has locked the version again.                        *)
AtSecondLock(w) == job[w].at = "reserved" /\ lock = None
OwnHold(w) == holds[job[w].policy][job[w].key]

(* assert_open_reservation fails: settled by an operator, or too old.      *)
LoseReservation(w) ==
  /\ AtSecondLock(w)
  /\ ~ OpenForCall(OwnHold(w))
  /\ Goto(w, "review")
  /\ UNCHANGED <<input, results, available, holds, failure, lock, calls, crashes>>

(* The documents changed meanwhile, or a result exists: refund, no call.   *)
RefundUnused(w) ==
  /\ AtSecondLock(w)
  /\ OpenForCall(OwnHold(w))
  /\ NothingToDo(job[w].key)
  /\ Settle(job[w].policy, job[w].key, "refunded", "worker")
  /\ Goto(w, "closing")
  /\ UNCHANGED <<input, results, failure, lock, calls, crashes>>

CallProvider(w) ==
  /\ AtSecondLock(w)
  /\ OpenForCall(OwnHold(w))
  /\ ~ NothingToDo(job[w].key)
  /\ lock' = w
  /\ Goto(w, "calling")
  /\ CountCall(job[w].key)
  /\ UNCHANGED <<input, results, available, holds, failure, crashes>>

(* The answer is stored.  With a policy, row and debit are one commit and  *)
(* the failure row is cleared afterwards; without one, extract_version's   *)
(* commit stores the row and clears the failure together.                  *)
StoreResult(w) ==
  /\ job[w].at = "calling"
  /\ results' = results \cup {job[w].key}
  /\ lock' = None
  /\ IF job[w].policy = None
     THEN /\ ResetFailure(job[w].key)
          /\ Finish(w)
          /\ UNCHANGED <<available, holds>>
     ELSE /\ Settle(job[w].policy, job[w].key, "committed", "worker")
          /\ Goto(w, "closing")
          /\ UNCHANGED failure
  /\ UNCHANGED <<input, calls, crashes>>

CallFailsWithRefund(w) ==
  /\ job[w].at = "calling"
  /\ lock' = None
  /\ Goto(w, "review")
  /\ IF job[w].policy = None THEN UNCHANGED <<available, holds>>
     ELSE Settle(job[w].policy, job[w].key, "refunded", "worker")
  /\ UNCHANGED <<input, results, failure, calls, crashes>>

(* The call, or storing or debiting its result, raises: everything since   *)
(* the lock rolls back and the hold stays.  Under a policy the error       *)
(* always becomes ReviewRequired.                                          *)
CallFails(w) ==
  /\ job[w].at = "calling"
  /\ lock' = None
  /\ \/ Goto(w, "review")
     \/ job[w].policy = None /\ Goto(w, "retryable")
  /\ UNCHANGED <<input, results, available, holds, failure, calls, crashes>>

(* The database raises elsewhere: a transient error is retryable unless it *)
(* comes between the reservation and the result.                           *)
DatabaseFails(w) ==
  /\ job[w].at \in {"queued", "reserved", "closing"}
  /\ \/ Goto(w, "review")
     \/ job[w].at # "reserved" /\ Goto(w, "retryable")
  /\ UNCHANGED <<input, results, available, holds, failure, lock, calls, crashes>>

(* The failure row is cleared in the commit after persist_extraction.      *)
CloseJob(w) ==
  /\ job[w].at = "closing"
  /\ ResetFailure(job[w].key)
  /\ Finish(w)
  /\ UNCHANGED <<input, results, available, holds, lock, calls, crashes>>

(* The except branch of extract_version, in a transaction of its own.      *)
FailJob(w) ==
  /\ job[w].at \in {"review", "retryable"}
  /\ RecordFailure(job[w].key, job[w].at = "review")
  /\ Finish(w)
  /\ UNCHANGED <<input, results, available, holds, lock, calls, crashes>>

(* The process dies or the job is cancelled: its transaction rolls back.   *)
Crash(w) ==
  /\ job[w] # Idle
  /\ crashes < MaxCrashes
  /\ crashes' = crashes + 1
  /\ lock' = IF lock = w THEN None ELSE lock
  /\ Finish(w)
  /\ UNCHANGED <<input, results, available, holds, failure, calls>>

-----------------------------------------------------------------------------
(***************************************************************************)
(* Operators, time and the documents.                                      *)
(***************************************************************************)

(* resolve_extraction_reservation, which waits for the version's lock.     *)
VersionFreeIgnored == TRUE
VersionFree == lock = None

Resolve(a, k, status) ==
  /\ VersionFree
  /\ ~ holds[a][k].recent
  /\ Settle(a, k, status, "operator")
  /\ UNCHANGED <<input, results, failure, job, lock, calls, crashes>>

(* The operator's retry of a dead letter (api/admin.py).                   *)
RetryDeadLetter(k) ==
  /\ failure[k].dead
  /\ ResetFailure(k)
  /\ UNCHANGED <<input, results, available, holds, job, lock, calls, crashes>>

(* A hold passes the 120 seconds of RESERVATION_START_GRACE.               *)
GraceEnds(a, k) ==
  /\ holds[a][k].recent
  /\ holds' = [holds EXCEPT ![a][k].recent = FALSE]
  /\ UNCHANGED <<input, results, available, failure, job, lock, calls, crashes>>

(* next_retry_at passes.                                                   *)
RetryFallsDue(k) ==
  /\ failure[k].attempts > 0 /\ ~ failure[k].dead /\ ~ failure[k].due
  /\ failure' = [failure EXCEPT ![k].due = TRUE]
  /\ UNCHANGED <<input, results, available, holds, job, lock, calls, crashes>>

ChangeDocuments(k) ==
  /\ input' = k
  /\ UNCHANGED <<results, available, holds, failure, job, lock, calls, crashes>>

Step(w) ==
  \/ SkipWork(w) \/ MeetPriorAttempt(w) \/ CallUnbilled(w) \/ ReserveUnits(w)
  \/ RefuseForBalance(w) \/ LoseReservation(w) \/ RefundUnused(w) \/ CallProvider(w)
  \/ StoreResult(w) \/ CallFails(w) \/ DatabaseFails(w) \/ CloseJob(w) \/ FailJob(w)

Next ==
  \/ \E w \in Workers :
       \/ \E policy \in Accounts \cup {None} : StartJob(w, policy)
       \/ Step(w)
       \/ Crash(w)
  \/ \E a \in Accounts, k \in Keys :
       \/ \E status \in {"committed", "refunded"} : Resolve(a, k, status)
       \/ GraceEnds(a, k)
  \/ \E k \in Keys : RetryDeadLetter(k) \/ RetryFallsDue(k)
  \/ \E k \in Keys \cup {None} : ChangeDocuments(k)

Spec == Init /\ [][Next]_vars

(***************************************************************************)
(* The cron reconciliation keeps starting jobs for the current documents,  *)
(* a started job runs to its end unless it crashes (PostgreSQL grants row  *)
(* locks in the order of the requests, hence strong fairness), and time    *)
(* passes.  Operators, crashes and documents are not fair.                 *)
(***************************************************************************)
Fairness ==
  /\ \A w \in Workers :
       /\ WF_vars(\E policy \in Accounts \cup {None} : StartJob(w, policy))
       /\ SF_vars(Step(w))
  /\ \A a \in Accounts, k \in Keys : WF_vars(GraceEnds(a, k))
  /\ \A k \in Keys : WF_vars(RetryFallsDue(k))

FairSpec == Spec /\ Fairness

-----------------------------------------------------------------------------
(***************************************************************************)
(* Properties.                                                             *)
(***************************************************************************)

(* Type correctness. *)
TypeOK ==
  /\ input \in Keys \cup {None}
  /\ results \subseteq Keys
  /\ \A a \in Accounts : available[a] \in 0..Funding[a]
  /\ holds \in [Accounts -> [Keys -> [status: {"absent", "reserved", "committed", "refunded"},
                                      recent: BOOLEAN, by: {None, "worker", "operator"}]]]
  /\ failure \in [Keys -> [attempts: 0..MaxAttempts, dead: BOOLEAN, due: BOOLEAN]]
  /\ job \in [Workers -> [at: Stages, key: Keys \cup {None}, policy: Accounts \cup {None}]]
  /\ lock \in Workers \cup {None}
  /\ calls \in [Keys -> Nat]
  /\ crashes \in 0..MaxCrashes

(* The fence is global: whatever account the workers are configured with,  *)
(* an identity is reserved for at most once, on one account, and once it   *)
(* has a hold the provider is called for it at most once, ever: not by a   *)
(* duplicate job, not after a crash, a failure, a settlement or a change   *)
(* of policy.                                                              *)
AtMostOneFencedCall ==
  \A k \in Keys : Cardinality(Holders(k)) <= 1 /\ calls[k] <= 1

(* A billed call runs under the version lock on an open hold: nobody       *)
(* settles the hold while the call is active.                              *)
ActiveCallIsCovered ==
  \A w \in Workers :
    job[w].at = "calling" /\ job[w].policy # None =>
      lock = w /\ OwnHold(w).status = "reserved"

(* Result and debit are atomic: a result of a fenced identity is paid for  *)
(* by the worker that stored it, a debit by a worker has its result, and a *)
(* refund by a worker means that the provider was never called.            *)
ResultIffDebited ==
  \A a \in Accounts, k \in Keys :
    LET hold == holds[a][k]
    IN  /\ k \in results /\ a \in Holders(k) =>
             hold.status = "committed" /\ hold.by = "worker"
        /\ hold.status = "committed" /\ hold.by = "worker" => k \in results
        /\ hold.status = "refunded" /\ hold.by = "worker" => calls[k] = 0

(* Every row is well formed, and units are neither lost nor made: an       *)
(* account misses exactly the units of its open and committed holds.       *)
UnitsAreConserved ==
  /\ TypeOK
  /\ \A a \in Accounts :
       available[a] = Funding[a] - Cardinality({k \in Keys : holds[a][k].status \in {"reserved", "committed"}})

(***************************************************************************)
(* What the fence promises (FencedCall): the identity's one paid call, read *)
(* off its hold, the calls made for it and the worker on the line.         *)
(***************************************************************************)
OnTheLine(k) == \E w \in Workers : job[w].at = "calling" /\ job[w].key = k

(* How far the paid call of a held identity is.                            *)
Progress(a, k) ==
  LET hold == holds[a][k]
  IN  CASE hold.status = "reserved" ->
             IF OnTheLine(k) THEN "asking" ELSE IF calls[k] = 0 THEN "held" ELSE "uncertain"
        [] hold.status = "committed" -> IF hold.by = "worker" THEN "answered" ELSE "charged"
        [] hold.status = "refunded"  -> IF hold.by = "worker" THEN "returned" ELSE "repaid"

CallOf(k) ==
  IF Holders(k) = {}
  THEN [state |-> IF k \in results THEN "unbilled" ELSE "free", payer |-> None]
  ELSE LET a == CHOOSE a \in Holders(k) : TRUE
       IN  [state |-> Progress(a, k), payer |-> a]

Fence == INSTANCE FencedCall WITH purse <- available, call <- [k \in Keys |-> CallOf(k)]

(* Workers, locks, crashes, retries, operators and changing documents      *)
(* together do nothing to an identity that the fence does not promise: it  *)
(* is paid for by one account and asked of the provider once, it is        *)
(* answered and paid for in one step, units return only when the provider  *)
(* was not asked or an operator says so, and no operator settles a call    *)
(* that is being made.                                                     *)
ImplementsFencedCall == Fence!Spec

Unsettled(k) == \E a \in Accounts : holds[a][k].status = "reserved"

(* A hold left behind by a crashed worker is brought to an operator's      *)
(* attention as a dead letter, unless it is settled or the documents       *)
(* change.                                                                 *)
HoldIsSettledOrExposed ==
  \A k \in Keys : Unsettled(k) ~> (~ Unsettled(k) \/ failure[k].dead \/ input # k)

(* docs/extraction-credits.md: after a crash, reconciliation exposes a     *)
(* terminal review failure.                                                *)
CrashedHoldIsExposed ==
  \A k \in Keys : Unsettled(k) ~> (~ Unsettled(k) \/ failure[k].dead)

=============================================================================
