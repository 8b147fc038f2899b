--------------------------- MODULE IngestPipeline ---------------------------
(***************************************************************************)
(* Raw-first ingestion: poll_source, ingest_record and the recovery job    *)
(* reconcile_pending_normalizations of apps/api/app/workers/jobs.py, with  *)
(* the failure rows they keep and the operator's retry of api/admin.py.    *)
(*                                                                         *)
(* A poll stores a page of raw records together with the cursor behind the *)
(* page; only then are they normalised, one commit per record, oldest      *)
(* first and a batch at a time.  Records are also offered one by one to    *)
(* ingest_record.  The jobs share the status of a raw record and look at   *)
(* each other's failure rows, but each runs in transactions of its own.    *)
(* OpportunityGraph models what a normalisation stores.                    *)
(***************************************************************************)
EXTENDS Integers, Sequences, FiniteSetsExt

CONSTANTS
  Pages,        \* what the source has to list, a sequence of sets of records
  Malformed,    \* records that normalize_raw_record refuses (ValueError)
  Offered,      \* records that are also handed to ingest_record
  Pollers,      \* processes that run poll_source
  Recoverer,    \* the process that runs reconcile_pending_normalizations
  Ingester,     \* the process that runs ingest_record
  BatchSize,    \* normalization_batch_size
  MaxAttempts,  \* MAX_ATTEMPTS
  MaxTroubles,  \* bound on what comes from outside: crashes, offers to and transient
                \* errors of ingest_record, and the operator's retries of records
  None

Records == UNION {Pages[n] : n \in DOMAIN Pages}
Jobs    == Pollers \cup {Recoverer, Ingester}

ASSUME PipelineAssumption ==
  /\ Pages \in Seq(SUBSET Nat)  \* records are numbered in the order of fetched_at and id
  /\ Malformed \subseteq Records /\ Offered \subseteq Records
  /\ BatchSize \in Nat \ {0} /\ MaxAttempts \in Nat \ {0} /\ MaxTroubles \in Nat
  /\ Recoverer # Ingester /\ {Recoverer, Ingester} \cap Pollers = {}
  /\ None \notin Jobs \cup Records

VARIABLES
  raws,       \* raw_records: normalization_status
  cursor,     \* cursor_after of the latest successful run, as a number of pages
  polling,    \* holder of the advisory lock of the source
  polls,      \* the failure row of the poll
  normals,    \* failure rows normalize_record, by record
  ingests,    \* failure rows ingest_record, by record
  job,        \* what each process is doing
  troubles    \* troubles so far

rows == <<polls, normals, ingests>>
vars == <<raws, cursor, polling, rows, job, troubles>>

(* A failure row: attempts count up to MAX_ATTEMPTS, where every use of    *)
(* them looks the same; retry is next_retry_at: not set, in the future or  *)
(* due.  An ingest row names its record once the raw row was stored.       *)
Clear == [attempts |-> 0, dead |-> FALSE, retry |-> "none", named |-> FALSE]
Rows  == [attempts: 0..MaxAttempts, dead: BOOLEAN, retry: {"none", "later", "now"}, named: BOOLEAN]

(* What a process is doing: the record it stores or has failed with, the   *)
(* records left of a batch, how the attempt failed, whether the raw row    *)
(* is committed, and the cursor a poll started from.                       *)
Stages == {"idle", "discover", "normalize", "store", "attempt", "done", "failing"}
Work   == [at: Stages, record: Records \cup {None}, left: SUBSET Records,
           transient: BOOLEAN, stored: BOOLEAN, before: 0..Len(Pages)]

Idle == [at |-> "idle", record |-> None, left |-> {}, transient |-> FALSE, stored |-> FALSE, before |-> 0]

Init ==
  /\ raws      = [r \in Records |-> "absent"]
  /\ cursor    = 0
  /\ polling   = None
  /\ polls     = Clear
  /\ normals   = [r \in Records |-> Clear]
  /\ ingests   = [r \in Records |-> Clear]
  /\ job       = [j \in Jobs |-> Idle]
  /\ troubles  = 0

(* _record_failure with the callers' treatment of a terminal failure: a    *)
(* transient error is retried later until MAX_ATTEMPTS.  It forgets what   *)
(* the row said before, a dead letter too.                                 *)
Failed(row, transient, named) ==
  LET attempts == IF row.attempts < MaxAttempts THEN row.attempts + 1 ELSE MaxAttempts
      dead     == ~ transient \/ attempts >= MaxAttempts
  IN  [attempts |-> attempts, dead |-> dead, retry |-> IF dead THEN "none" ELSE "later",
       named |-> named]

Trouble == troubles < MaxTroubles /\ troubles' = troubles + 1

(* What a success leaves of a row: payload_json stays.                     *)
Reset(row) == [Clear EXCEPT !.named = row.named]

Store(records) == [r \in Records |-> IF r \in records /\ raws[r] = "absent" THEN "pending" ELSE raws[r]]

-----------------------------------------------------------------------------
(* poll_source                                                             *)

LockIgnored == TRUE

(* pg_try_advisory_lock: a poll that finds the source locked does nothing. *)
LockFree == polling = None

MayPoll == ~ polls.dead /\ polls.attempts < MaxAttempts /\ polls.retry # "later"

(* The run is committed as "running"; a crash leaves it so, and it counts  *)
(* for nothing.                                                            *)
StartPoll(p) ==
  /\ job[p] = Idle
  /\ LockFree
  /\ MayPoll
  /\ polling' = p
  /\ job' = [job EXCEPT ![p] = [Idle EXCEPT !.at = "discover", !.before = cursor]]
  /\ UNCHANGED <<raws, cursor, rows, troubles>>

(* The handler of every other outcome of a poll: the run is marked as      *)
(* failed, even when its page is already committed and the error came      *)
(* afterwards; the cursor is then again that of the run before.            *)
PollFails(p) ==
  /\ job[p].at \in {"discover", "normalize", "failing"}
  /\ \E transient \in BOOLEAN : polls' = Failed(polls, transient, FALSE)
  /\ cursor'  = IF job[p].at = "discover" THEN cursor ELSE job[p].before
  /\ polling' = IF polling = p THEN None ELSE polling
  /\ job' = [job EXCEPT ![p] = Idle]
  /\ UNCHANGED <<raws, normals, ingests, troubles>>

-----------------------------------------------------------------------------
(* Normalisation, by a poll after its page and by the recovery job         *)

(* Failures of the normalisation itself hold a record back, failures of    *)
(* ingest_record do not.                                                   *)
Blocked(r) ==
  LET row == normals[r]
  IN  row.attempts > 0 /\ (row.dead \/ row.attempts >= MaxAttempts \/ row.retry # "now")

(* _pending_normalization_ids                                              *)
Oldest(records) == {r \in records : Cardinality({q \in records : q < r}) < BatchSize}

BatchThenUnblocked(table) == {r \in Oldest({q \in Records : table[q] = "pending"}) : ~ Blocked(r)}

PendingBatch(table) == Oldest({r \in Records : table[r] = "pending" /\ ~ Blocked(r)})

(* A job goes on with the records it has left; with none left it ends, and *)
(* a poll gives its lock back.                                             *)
Continue(j, left) ==
  /\ job' = [job EXCEPT ![j] =
       IF left = {} THEN Idle ELSE [Idle EXCEPT !.at = "normalize", !.left = left, !.before = job[j].before]]
  /\ polling' = IF left = {} /\ polling = j THEN None ELSE polling

(* One page, one commit: its records, the cursor behind it and the end of  *)
(* the failure.  Past the last page the source lists nothing more.  Then   *)
(* the poll goes on to normalise what it finds pending.                    *)
StorePageCursorFirst(p) ==
  raws' = raws /\ cursor' = Min({job[p].before + 1, Len(Pages)})

StorePage(p) ==
  LET n == job[p].before + 1
  IN  IF n \in DOMAIN Pages THEN raws' = Store(Pages[n]) /\ cursor' = n
                            ELSE raws' = raws /\ cursor' = job[p].before

Discover(p) ==
  /\ job[p].at = "discover"
  /\ StorePage(p)
  /\ polls' = Reset(polls)
  /\ Continue(p, PendingBatch(raws'))
  /\ UNCHANGED <<normals, ingests, troubles>>

StartRecovery ==
  /\ job[Recoverer] = Idle
  /\ PendingBatch(raws) # {}
  /\ Continue(Recoverer, PendingBatch(raws))
  /\ UNCHANGED <<raws, cursor, rows, troubles>>

(* _normalize_persisted_raw and its commit: a record that has been         *)
(* normalised meanwhile is left alone; otherwise its version is stored and *)
(* its failures are over.                                                  *)
Normalized(r) ==
  IF raws[r] = "normalized"
    THEN UNCHANGED <<raws, normals, ingests>>
    ELSE /\ raws'      = [raws EXCEPT ![r] = "normalized"]
         /\ normals'   = [normals EXCEPT ![r] = Reset(normals[r])]
         /\ ingests'   = IF ingests[r].named THEN [ingests EXCEPT ![r] = Reset(ingests[r])] ELSE ingests

CanNormalize(r) == raws[r] = "normalized" \/ r \notin Malformed

Next1(j) == Min(job[j].left)

NormalizeNext(j) ==
  /\ job[j].at = "normalize" /\ job[j].left # {}
  /\ CanNormalize(Next1(j))
  /\ Normalized(Next1(j))
  /\ Continue(j, job[j].left \ {Next1(j)})
  /\ UNCHANGED <<cursor, polls, troubles>>

(* The attempt is rolled back.  A malformed record fails for good, any     *)
(* other one by a transient error of its environment.                      *)
NormalizeFails(j) ==
  /\ job[j].at = "normalize" /\ job[j].left # {}
  /\ raws[Next1(j)] # "normalized"
  /\ job' = [job EXCEPT ![j].at = "failing", ![j].record = Next1(j),
                        ![j].transient = Next1(j) \notin Malformed]
  /\ UNCHANGED <<raws, cursor, polling, rows, troubles>>

(* The failure is recorded in a transaction of its own: whatever others    *)
(* made of the record meanwhile, a terminal failure overwrites its status. *)
RecordNormalizeFailure(j) ==
  LET r == job[j].record
  IN  /\ job[j].at = "failing" /\ j # Ingester
      /\ normals' = [normals EXCEPT ![r] = Failed(normals[r], job[j].transient, TRUE)]
      /\ raws' = IF normals'[r].dead THEN [raws EXCEPT ![r] = "failed"] ELSE raws
      /\ Continue(j, job[j].left \ {r})
      /\ UNCHANGED <<cursor, polls, ingests, troubles>>

-----------------------------------------------------------------------------
(* ingest_record                                                           *)

Ingest(r) == [Idle EXCEPT !.at = "store", !.record = r]

(* The job is started for a new payload, by a repetition of its caller, or *)
(* by arq, which runs a job again that raised Retry ...                    *)
Offer(r) ==
  /\ job[Ingester] = Idle
  /\ r \in Offered
  /\ Trouble
  /\ job' = [job EXCEPT ![Ingester] = Ingest(r)]
  /\ UNCHANGED <<raws, cursor, polling, rows>>

(* ... or by reconcile_failed_jobs, which does not gate on anything but    *)
(* the due time of the row.                                                *)
Requeue(r) ==
  /\ job[Ingester] = Idle
  /\ ingests[r].retry = "now" /\ ~ ingests[r].dead
  /\ ingests' = [ingests EXCEPT ![r].retry = "later"]
  /\ job' = [job EXCEPT ![Ingester] = Ingest(r)]
  /\ UNCHANGED <<raws, cursor, polling, polls, normals, troubles>>

StoreRaw ==
  /\ job[Ingester].at = "store"
  /\ raws' = Store({job[Ingester].record})
  /\ job' = [job EXCEPT ![Ingester].at = "attempt", ![Ingester].stored = TRUE]
  /\ UNCHANGED <<cursor, polling, rows, troubles>>

NormalizeStored ==
  LET r == job[Ingester].record
  IN  /\ job[Ingester].at = "attempt"
      /\ CanNormalize(r)
      /\ Normalized(r)
      /\ job' = [job EXCEPT ![Ingester].at = "done"]
      /\ UNCHANGED <<cursor, polling, polls, troubles>>

IngestDone ==
  LET r == job[Ingester].record
  IN  /\ job[Ingester].at = "done"
      /\ ingests' = [ingests EXCEPT ![r] = Reset(ingests[r])]
      /\ job' = [job EXCEPT ![Ingester] = Idle]
      /\ UNCHANGED <<raws, cursor, polling, polls, normals, troubles>>

IngestFails ==
  LET r     == job[Ingester].record
      tries == job[Ingester].at = "attempt"
  IN  /\ job[Ingester].at \in {"store", "attempt", "done"}
      /\ tries => raws[r] # "normalized"
      /\ IF tries /\ r \in Malformed THEN troubles' = troubles ELSE Trouble
      /\ job' = [job EXCEPT ![Ingester].at = "failing",
                            ![Ingester].transient = ~ tries \/ r \notin Malformed]
      /\ UNCHANGED <<raws, cursor, polling, rows>>

(* The handler runs in a new session: once the raw row is stored it        *)
(* writes the status without looking at what it has become meanwhile.      *)
RecordIngestFailure ==
  LET r == job[Ingester].record
      j == job[Ingester]
  IN  /\ j.at = "failing"
      /\ ingests' = [ingests EXCEPT ![r] = Failed(ingests[r], j.transient, j.stored)]
      /\ raws' = IF j.stored
                   THEN [raws EXCEPT ![r] = IF j.transient THEN "pending" ELSE "failed"]
                   ELSE raws
      /\ job' = [job EXCEPT ![Ingester] = Idle]
      /\ UNCHANGED <<cursor, polling, polls, normals, troubles>>

-----------------------------------------------------------------------------
(* The environment                                                         *)

Due(row) == IF row.retry = "later" THEN [row EXCEPT !.retry = "now"] ELSE row

TimePasses ==
  /\ polls'   = Due(polls)
  /\ normals' = [r \in Records |-> Due(normals[r])]
  /\ ingests' = [r \in Records |-> Due(ingests[r])]
  /\ rows' # rows
  /\ UNCHANGED <<raws, cursor, polling, job, troubles>>

(* A process dies or its job is cancelled (job_timeout): its transaction   *)
(* is rolled back, its connection closed and the advisory lock with it.    *)
Crash(j) ==
  /\ job[j] # Idle
  /\ Trouble
  /\ polling' = IF polling = j THEN None ELSE polling
  /\ job' = [job EXCEPT ![j] = Idle]
  /\ UNCHANGED <<raws, cursor, rows>>

(* api/admin.py retry: only of a dead letter; that of a normalisation      *)
(* makes the record pending again.                                         *)
Retried(row) == [row EXCEPT !.attempts = 0, !.dead = FALSE, !.retry = "now"]

RetryPoll ==
  /\ polls.dead
  /\ polls' = Retried(polls)
  /\ UNCHANGED <<raws, cursor, polling, normals, ingests, job, troubles>>

RetryNormalize(r) ==
  /\ normals[r].dead
  /\ Trouble
  /\ normals' = [normals EXCEPT ![r] = Retried(normals[r])]
  /\ raws' = [raws EXCEPT ![r] = "pending"]
  /\ UNCHANGED <<cursor, polling, polls, ingests, job>>

RetryIngest(r) ==
  /\ ingests[r].dead
  /\ Trouble
  /\ ingests' = [ingests EXCEPT ![r] = Retried(ingests[r])]
  /\ UNCHANGED <<raws, cursor, polling, polls, normals, job>>

Operator == RetryPoll \/ \E r \in Records : RetryNormalize(r) \/ RetryIngest(r)

IngestSteps == StoreRaw \/ NormalizeStored \/ IngestDone \/ IngestFails \/ RecordIngestFailure

JobSteps(j) == NormalizeNext(j) \/ NormalizeFails(j) \/ RecordNormalizeFailure(j)

Next ==
  \/ \E p \in Pollers : StartPoll(p) \/ Discover(p) \/ PollFails(p)
  \/ StartRecovery
  \/ \E j \in Pollers \cup {Recoverer} : JobSteps(j)
  \/ \E r \in Records : Offer(r) \/ Requeue(r)
  \/ IngestSteps
  \/ TimePasses
  \/ \E j \in Jobs : Crash(j)
  \/ Operator

Spec == Init /\ [][Next]_vars

(* The cron jobs of workers/settings.py come back for ever, a started job  *)
(* goes on, and time passes.  Nothing is assumed of the source, of the     *)
(* environment's errors and of the operator.                               *)
FairSpec ==
  /\ Spec
  /\ SF_vars(StartRecovery)
  /\ SF_vars(\E p \in Pollers : StartPoll(p))
  /\ WF_vars(TimePasses)
  /\ WF_vars(IngestSteps)
  /\ \A j \in Pollers \cup {Recoverer} : WF_vars(JobSteps(j))
  /\ \A p \in Pollers : WF_vars(Discover(p) \/ PollFails(p))

-----------------------------------------------------------------------------

TypeOK ==
  /\ raws \in [Records -> {"absent", "pending", "normalized", "failed"}]
  /\ cursor \in 0..Len(Pages)
  /\ polling \in Pollers \cup {None}
  /\ polls \in Rows /\ normals \in [Records -> Rows] /\ ingests \in [Records -> Rows]
  /\ job \in [Jobs -> Work]
  /\ troubles \in 0..MaxTroubles

(* What an operator sees of a record (admin.py pending_failure).           *)
Listed(r) == \E row \in {normals[r], ingests[r]} :
  row.attempts > 0 \/ row.dead \/ row.retry # "none"

(* docs/data-pipeline.md: a payload is stored before it is normalised, and *)
(* the cursor moves with the page.  However polls fail, crash and repeat   *)
(* pages, every record the cursor has passed is stored, and one shown as  *)
(* failed is in the operator's list.                                       *)
NothingIsLost ==
  /\ TypeOK
  /\ \A n \in 1..cursor : \A r \in Pages[n] : raws[r] # "absent"
  /\ \A r \in Records : raws[r] = "failed" => Listed(r)

(* A stored record is normalised in the end, or its normalisation is a     *)
(* dead letter: crashes, races with ingest_record, and records before it   *)
(* in the queue that fail again and again do not keep it waiting.          *)
Settled(r) ==
  raws[r] = "normalized" \/ normals[r].dead \/ (raws[r] = "failed" /\ ingests[r].dead)

RecordsSettle == \A r \in Records : raws[r] = "pending" ~> Settled(r)

(* Only a poll that is marked as failed takes the cursor back, and then by *)
(* its own page.                                                           *)
CursorMovesForward ==
  [][cursor' < cursor => polls'.attempts > 0 /\ cursor' = cursor - 1]_vars

=============================================================================
