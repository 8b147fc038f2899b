------------------------- MODULE DocumentGeneration -------------------------
(***************************************************************************)
(* Document processing of one opportunity version: workers/jobs.py         *)
(* (reconcile_pending_documents), documents/service.py and the operator's  *)
(* repair of api/admin.py.                                                 *)
(*                                                                         *)
(* Each run owns a generation token.  It stages the version under a new    *)
(* token, which closes the readiness gate, and works through the           *)
(* attachments.  The version lock it takes is released by the commit that  *)
(* keeps the native parse safe before OCR, so a run may be overtaken by a  *)
(* newer one; from then on it may not finish the gate nor touch the retry  *)
(* budget.  The scheduler runs the job again and again, a worker runs it   *)
(* when an operator asks for a repair.                                     *)
(***************************************************************************)
EXTENDS Integers, FiniteSets

CONSTANTS
  Scheduler,    \* the scheduler process: at most one run of the cron job at a time
  Workers,      \* worker slots that may run the job for an operator
  Attachments,  \* the attachments of the version
  Scanned,      \* those whose native parse needs OCR
  Generations,  \* a pool for uuid4: more tokens than can be in use at once
  MaxAttempts,  \* MAX_ATTEMPTS of workers/jobs.py
  MaxCrashes,   \* bound on crashes and timeouts of runs
  None          \* no token, attachment or lock holder

Runners == Workers \cup {Scheduler}

ASSUME DocumentAssumption ==
  /\ Scanned \subseteq Attachments
  /\ IsFiniteSet(Workers) /\ IsFiniteSet(Generations)
  /\ Cardinality(Generations) > Cardinality(Runners) + 2
  /\ MaxAttempts \in Nat \ {0}
  /\ MaxCrashes \in Nat
  /\ None \notin Runners \cup Attachments \cup Generations

VARIABLES
  version,    \* documents_generation, documents_completed_at and document_gaps_json
  failure,    \* job_failures row of parse_documents, with the token in its payload
  parsed,     \* attachments with a native parse
  recognized, \* attachments with an OCR result
  runs,       \* per runner: where it is, its token and its uncommitted rows
  lock,       \* holder of the version's row lock
  requested,  \* a repair job is in the queue
  crashes     \* crashes so far

vars == <<version, failure, parsed, recognized, runs, lock, requested, crashes>>

Idle      == [at |-> "idle", generation |-> None, retrying |-> FALSE, left |-> {},
              current |-> None, newParses |-> {}, newOcr |-> {}]
NoFailure == [attempts |-> 0, dead |-> FALSE, due |-> TRUE, generation |-> None]

Init ==
  /\ version    = [generation |-> None, completed |-> FALSE, gap |-> FALSE]
  /\ failure    = NoFailure
  /\ parsed     = {}
  /\ recognized = {}
  /\ runs       = [r \in Runners |-> Idle]
  /\ lock       = None
  /\ requested  = FALSE
  /\ crashes    = 0

-----------------------------------------------------------------------------
(***************************************************************************)
(* Tokens, the gate and the budget.                                        *)
(***************************************************************************)

InUse == {version.generation, failure.generation} \cup {runs[r].generation : r \in Runners}

FreshGeneration == CHOOSE g \in Generations : g \notin InUse

(* Is this run still the owner of the version's documents?                 *)
OwnerWhateverToken(r) == runs[r].generation = runs[r].generation
Owner(r) == version.generation = runs[r].generation

(* complete_document_generation, by the owner.                             *)
Complete(gap) == version' = [version EXCEPT !.completed = TRUE, !.gap = gap]

(* The failure row as the gate sees it: a row of another generation has    *)
(* lost its attempts.                                                      *)
GatedFailure == IF failure.generation = version.generation THEN failure ELSE NoFailure

(* A terminal failure keeps the gate open with a gap.                      *)
LeaveGateToFailure == UNCHANGED version
ConfirmGap == Complete(TRUE)

TerminalFailure(f) == f.dead \/ f.attempts >= MaxAttempts

(* _record_failure and the terminal check after it.  Attempts stop         *)
(* counting at MAX_ATTEMPTS here.                                          *)
Failed(g, transient) ==
  LET n == IF failure.attempts < MaxAttempts THEN failure.attempts + 1 ELSE MaxAttempts
  IN  [attempts |-> n, dead |-> ~ transient \/ n >= MaxAttempts, due |-> FALSE, generation |-> g]

(* Failed attempts move along to a newly staged generation.                *)
LeftBehind(g) == failure
Carried(g) == IF failure.attempts > 0 THEN [failure EXCEPT !.generation = g] ELSE failure

(* should_use_ocr, and what a run need not do again.                       *)
NeedsOcr(a) == a \in Scanned

FinishedOnceParsed(a) == a \in parsed
Finished(a) == a \in parsed /\ (NeedsOcr(a) => a \in recognized)

(* A transaction ends: the lock is released, if the runner holds it.       *)
ReleaseLock(r) == lock' = IF lock = r THEN None ELSE lock

-----------------------------------------------------------------------------
(***************************************************************************)
(* reconcile_pending_documents, for this version.                          *)
(***************************************************************************)

(* The first transaction: snapshot the token, reset a foreign budget, and  *)
(* stop at a terminal failure or before the next retry is due.             *)
Gate(r) ==
  /\ runs[r] = Idle
  /\ r # Scheduler => requested
  /\ requested' = IF r = Scheduler THEN requested ELSE FALSE
  /\ lock = None
  /\ failure' = GatedFailure
  /\ LET f == GatedFailure
     IN  \/ /\ f.attempts > 0 /\ TerminalFailure(f)
            /\ ConfirmGap
            /\ UNCHANGED runs
         \/ /\ f.attempts > 0 /\ ~ TerminalFailure(f) /\ ~ f.due
            /\ UNCHANGED <<version, runs>>
         \/ /\ f.attempts = 0 \/ (~ TerminalFailure(f) /\ f.due)
            /\ runs' = [runs EXCEPT ![r] = [Idle EXCEPT !.at = "fetching", !.retrying = f.attempts > 0,
                                                        !.generation = version.generation]]
            /\ UNCHANGED version
  /\ UNCHANGED <<parsed, recognized, lock, crashes>>

(* A run that has been overtaken gives up.                                 *)
Abandon(r) ==
  /\ runs[r].at \in {"fetching", "staged"}
  /\ lock = None
  /\ ~ Owner(r)
  /\ runs' = [runs EXCEPT ![r] = Idle]
  /\ UNCHANGED <<version, failure, parsed, recognized, lock, requested, crashes>>

(* materialize_attachment_refs: a retry keeps its token, any other run     *)
(* takes a new one; the gate closes and the attempts move along.           *)
StagedGeneration(r) ==
  IF runs[r].retrying /\ runs[r].generation # None THEN runs[r].generation ELSE FreshGeneration

Stage(r) ==
  LET g == StagedGeneration(r)
  IN  /\ runs[r].at = "fetching"
      /\ lock = None
      /\ Owner(r)
      /\ version' = [version EXCEPT !.generation = g, !.completed = FALSE]
      /\ failure' = Carried(g)
      /\ runs' = [runs EXCEPT ![r].at = "staged", ![r].generation = g]
      /\ UNCHANGED <<parsed, recognized, lock, requested, crashes>>

(* persist_and_parse_attachments locks the version as its owner.           *)
Begin(r) ==
  /\ runs[r].at = "staged"
  /\ lock = None
  /\ Owner(r)
  /\ lock' = r
  /\ runs' = [runs EXCEPT ![r].at = "parsing", ![r].left = Attachments]
  /\ UNCHANGED <<version, failure, parsed, recognized, requested, crashes>>

(* The next attachment: finished, waiting for OCR, or to be downloaded.    *)
Pick(r, a) ==
  /\ runs[r].at = "parsing"
  /\ a \in runs[r].left
  /\ \/ /\ Finished(a)
        /\ runs' = [runs EXCEPT ![r].left = @ \ {a}]
     \/ /\ a \in parsed /\ ~ Finished(a)
        /\ runs' = [runs EXCEPT ![r].at = "recognizing", ![r].current = a]
     \/ /\ a \notin parsed
        /\ runs' = [runs EXCEPT ![r].at = "downloading", ![r].current = a]
  /\ UNCHANGED <<version, failure, parsed, recognized, lock, requested, crashes>>

(* A row inserted by an open transaction makes the next insertion wait.    *)
ParseBlocked(r) == \E q \in Runners \ {r} : runs[r].current \in runs[q].newParses
OcrBlocked(r)   == \E q \in Runners \ {r} : runs[r].current \in runs[q].newOcr

(* The native parse of a text is kept for the next commit.                 *)
ParseText(r) ==
  /\ runs[r].at = "downloading"
  /\ ~ NeedsOcr(runs[r].current)
  /\ ~ ParseBlocked(r)
  /\ runs' = [runs EXCEPT ![r].at = "parsing", ![r].current = None,
                          ![r].left = @ \ {runs[r].current},
                          ![r].newParses = @ \cup {runs[r].current}]
  /\ UNCHANGED <<version, failure, parsed, recognized, lock, requested, crashes>>

(* That of a scan is committed before OCR, which gives up the lock.        *)
ParseScan(r) ==
  /\ runs[r].at = "downloading"
  /\ NeedsOcr(runs[r].current)
  /\ ~ ParseBlocked(r)
  /\ parsed' = parsed \cup runs[r].newParses \cup {runs[r].current}
  /\ recognized' = recognized \cup runs[r].newOcr
  /\ ReleaseLock(r)
  /\ runs' = [runs EXCEPT ![r].at = "recognizing", ![r].newParses = {}, ![r].newOcr = {}]
  /\ UNCHANGED <<version, failure, requested, crashes>>

(* _persist_ocr. *)
Recognize(r) ==
  /\ runs[r].at = "recognizing"
  /\ ~ OcrBlocked(r)
  /\ runs' = [runs EXCEPT ![r].at = "parsing", ![r].current = None,
                          ![r].left = @ \ {runs[r].current},
                          ![r].newOcr = @ \cup {runs[r].current}]
  /\ UNCHANGED <<version, failure, parsed, recognized, lock, requested, crashes>>

(* All attachments are done: the owner opens the gate and clears the       *)
(* budget; any other run only commits its rows.                            *)
Conclude(r) ==
  /\ runs[r].at = "parsing"
  /\ runs[r].left = {}
  /\ lock \in {None, r}
  /\ IF Owner(r) THEN Complete(FALSE) /\ failure' = NoFailure
     ELSE UNCHANGED <<version, failure>>
  /\ parsed' = parsed \cup runs[r].newParses
  /\ recognized' = recognized \cup runs[r].newOcr
  /\ ReleaseLock(r)
  /\ runs' = [runs EXCEPT ![r] = Idle]
  /\ UNCHANGED <<requested, crashes>>

(* Discovery, download, storage, OCR or the database raises: the           *)
(* transaction rolls back.                                                 *)
RolledBack(r, at) ==
  /\ runs' = [runs EXCEPT ![r] = [Idle EXCEPT !.at = at, !.generation = runs[r].generation]]
  /\ ReleaseLock(r)
  /\ UNCHANGED <<version, failure, parsed, recognized, requested>>

Raise(r) ==
  /\ runs[r].at \in {"fetching", "staged", "parsing", "downloading", "recognizing"}
  /\ \E at \in {"transient", "permanent"} : RolledBack(r, at)
  /\ UNCHANGED crashes

(* Two runs wait for each other: one holds the version lock and waits for  *)
(* a row of the other, which waits for the lock.  PostgreSQL aborts one,   *)
(* which is a transient error.                                             *)
DeadlockDetected(r) ==
  /\ lock # None
  /\ \/ /\ lock = r
        /\ \/ runs[r].at = "downloading" /\ ParseBlocked(r)
           \/ runs[r].at = "recognizing" /\ OcrBlocked(r)
     \/ lock # r /\ runs[r].at = "parsing" /\ runs[r].left = {}
  /\ RolledBack(r, "transient")
  /\ UNCHANGED crashes

(* The except branch: only the owner spends the budget, and its last       *)
(* failure opens the gate with a gap.                                      *)
RecordFailure(r) ==
  LET f == Failed(runs[r].generation, runs[r].at = "transient")
  IN  /\ runs[r].at \in {"transient", "permanent"}
      /\ lock = None
      /\ IF Owner(r)
         THEN /\ failure' = f
              /\ IF f.dead THEN Complete(TRUE) ELSE UNCHANGED version
         ELSE UNCHANGED <<version, failure>>
      /\ runs' = [runs EXCEPT ![r] = Idle]
      /\ UNCHANGED <<parsed, recognized, lock, requested, crashes>>

(* The process dies, or the job is cancelled at its timeout.               *)
Crash(r) ==
  /\ runs[r] # Idle
  /\ crashes < MaxCrashes
  /\ crashes' = crashes + 1
  /\ runs' = [runs EXCEPT ![r] = Idle]
  /\ ReleaseLock(r)
  /\ UNCHANGED <<version, failure, parsed, recognized, requested>>

(* An operator repairs a dead letter: a new token, a closed gate, a new    *)
(* budget, and a job in the queue unless Redis loses it.                   *)
Repair ==
  /\ failure.dead
  /\ lock = None
  /\ version' = [generation |-> FreshGeneration, completed |-> FALSE, gap |-> FALSE]
  /\ failure' = NoFailure
  /\ requested' \in {requested, TRUE}
  /\ UNCHANGED <<parsed, recognized, runs, lock, crashes>>

(* next_retry_at passes.                                                   *)
RetryFallsDue ==
  /\ failure.attempts > 0 /\ ~ failure.due
  /\ failure' = [failure EXCEPT !.due = TRUE]
  /\ UNCHANGED <<version, parsed, recognized, runs, lock, requested, crashes>>

Step(r) ==
  \/ Abandon(r) \/ Stage(r) \/ Begin(r) \/ \E a \in Attachments : Pick(r, a)
  \/ ParseText(r) \/ ParseScan(r) \/ Recognize(r) \/ Conclude(r) \/ DeadlockDetected(r)
  \/ RecordFailure(r)

Next ==
  \/ \E r \in Runners : Gate(r) \/ Step(r) \/ Raise(r) \/ Crash(r)
  \/ Repair
  \/ RetryFallsDue

Spec == Init /\ [][Next]_vars

(***************************************************************************)
(* The cron job is started again and again, a run that is not stopped goes *)
(* on to its end, PostgreSQL grants row locks in turn and resolves         *)
(* deadlocks, and time passes.  Nothing else is fair.                      *)
(***************************************************************************)
FairSpec ==
  /\ Spec
  /\ SF_vars(Gate(Scheduler))
  /\ \A r \in Runners : SF_vars(Step(r))
  /\ WF_vars(RetryFallsDue)

-----------------------------------------------------------------------------
(***************************************************************************)
(* Properties.                                                             *)
(***************************************************************************)

Working == {"fetching", "staged", "parsing", "downloading", "recognizing", "transient", "permanent"}

(* Type correctness. *)
TypeOK ==
  /\ version \in [generation: Generations \cup {None}, completed: BOOLEAN, gap: BOOLEAN]
  /\ failure \in [attempts: 0..MaxAttempts, dead: BOOLEAN, due: BOOLEAN,
                  generation: Generations \cup {None}]
  /\ parsed \subseteq Attachments
  /\ recognized \subseteq Scanned
  /\ runs \in [Runners -> [at: Working \cup {"idle"}, generation: Generations \cup {None},
                           retrying: BOOLEAN, left: SUBSET Attachments,
                           current: Attachments \cup {None},
                           newParses: SUBSET (Attachments \ Scanned), newOcr: SUBSET Scanned]]
  /\ lock \in Runners \cup {None}
  /\ requested \in BOOLEAN
  /\ crashes \in 0..MaxCrashes

(* The gate is honest: when it is open without a gap, every attachment has *)
(* its native parse and every scan its OCR result, committed.              *)
OpenGateMeansProcessed ==
  version.completed /\ ~ version.gap => parsed = Attachments /\ recognized = Scanned

(* docs/DELTA_ENGINE.md: only the owning generation may complete           *)
(* processing or record a terminal gap, and a stale worker cannot          *)
(* overwrite a newer budget.  A run that has been overtaken changes        *)
(* neither the version nor the failure row, whatever it still does.        *)
StaleRunsTouchNothing ==
  [][\A r \in Runners :
       /\ runs[r] # Idle
       /\ version.generation # runs[r].generation
       /\ runs'[r] # runs[r]
       => version' = version /\ failure' = failure]_vars

(* Every row is well formed; the version lock serialises the owners:       *)
(* whoever holds it works for the current generation; and, as              *)
(* docs/DELTA_ENGINE.md says, retry and dead-letter gates apply only to    *)
(* the current generation: attempts that count were spent by the current   *)
(* one, or carried along when it was staged.                               *)
GenerationOwnsVersion ==
  /\ TypeOK
  /\ lock # None => version.generation = runs[lock].generation
  /\ failure.attempts > 0 => failure.generation = version.generation

(* Whatever runs overtake, fail, deadlock or crash: a closed gate is       *)
(* opened again, with all documents or with a gap.                         *)
GateOpens == ~ version.completed ~> version.completed

=============================================================================
