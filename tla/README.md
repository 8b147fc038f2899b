# Formal models of ProcureDelta

ProcureDelta polls public procurement sources, stores raw records, normalises
them into versions of opportunities, links the opportunities into a procurement
lifecycle, downloads and parses their documents, extracts structured facts,
computes deltas, decides eligibility and ranking for company profiles, and
notifies their owners. Everything durable is in PostgreSQL; Redis only carries
jobs (arq), which may be lost, repeated or run late. This directory holds TLA+
models of the parts where that matters, the TLC configurations that check them,
and TLAPS proofs.

    tlc -workers 2 -config MCCreditLedger.cfg MCCreditLedger
    tlapm CreditLedgerProofs.tla

Paths are relative to `src/apps/api/app/` unless they begin with `docs/`.

## 1. Inventory

### Processes and how they interact

* **API** (FastAPI, `api/`): reads, user settings, and operator commands. It
  changes rows in one transaction and may publish one job.
* **Worker** (arq, `workers/settings.py`): up to ten jobs at once per process, 60 s
  per job; a job that exceeds it is cancelled, which rolls back its transaction.
* **Scheduler** (arq, one job at a time): cron jobs every 5 or 10 minutes, the
  notification dispatcher every 30 s. Each cron job looks at the database for
  unfinished work ("reconcile") and either does it or publishes jobs for it. So
  Redis never holds the only trace of an intent.
* **PostgreSQL**: READ COMMITTED transactions; `SELECT ... FOR UPDATE` row locks
  and advisory locks are the only mutual exclusion between jobs.

There is no shared memory between jobs, so a model's steps are the transactions
(or the pieces of one that are separated by an await under which another
transaction can get in), and its variables are tables plus, per job, what the job
carries from one transaction to the next.

### Components

| Component | State | Operations | Hard behaviour | Correct when | Model |
|---|---|---|---|---|---|
| Credit ledger (`credits/service.py`) | accounts, reservations, append-only ledger | grant, reserve, commit, refund | concurrent sessions, retries, integer range | the ledger explains the balances; every request and every settlement applies once; test money is not spent | CreditLedger, CreditBudget |
| Hosted extraction under the credit fence (`workers/extraction.py`, `extraction/service.py`, `credits/extraction.py`, `ops/extraction_credits.py`) | results, holds, failure rows, the version's row lock | extract, reconcile, resolve, retry | the lock is released in the middle; crashes; changing documents and policies | one fenced call per identity; result iff debit; orphaned holds reach an operator | ExtractionFence |
| Opportunity versions (`repositories/opportunities.py`) | raw records, versions, the current version | upsert | records out of order and repeated | the latest state is shown, history is replayable | OpportunityGraph |
| Lifecycle links (`lifecycle/linker.py`, `workers/lifecycle.py`) | active links | link, reconcile, timeline, outcomes | versions change under a link | links join current versions, lead forward, one parent | OpportunityGraph |
| Notification outbox (`workers/notifications.py`, `notifications/`) | events, receipts, failure rows, leases | enqueue, dispatch, deliver, cancel, retry | external effects outside any transaction | bounded sends, no resurrection, every event ends | NotificationOutbox |
| Document processing (`workers/jobs.py`, `documents/service.py`) | generation token, gate, gaps, parses, failure row | stage, parse, OCR, complete, repair | runs overtake each other | only the owner opens the gate or spends the budget | DocumentGeneration |
| Billing sandbox (`billing/`, `api/billing.py`) | customers, prices, observations, invoice applications | register, verify, parse, process event | duplicate, early, odd and contradictory webhooks | an invoice that is a plain payment is credited once | StripeContract, BillingEvents |
| Ingestion and normalisation (`services/`, `workers/jobs.py`) | raw records, ingest runs, poll cursor, failure rows | poll, ingest, normalise, recover, retry | crash between raw and normalised; overlapping polls; jobs that write each other's rows | no record is lost, every record settles | IngestPipeline |
| Sources (`sources/`) | KONEPS cursor; a request and its failure row | discover, request | moving time window; deadlines | windows have no gap; cooldowns survive | KonepsCursor, RetryAfter |
| Delta engine (`delta/`, `workers/delta.py`) | deltas and their revisions | prepare, persist, compare | inputs reprocessed meanwhile; incomplete manifests | only finished pairs are announced; unknown is no change | DerivedResults, DeltaRules |
| Eligibility and ranking (`ranking/`) | results per profile and version | materialise, decide | unknown facts, profile revisions | unknown never becomes eligible; no insertion collides | DerivedResults, DecisionRules |
| Notification triggers (`notifications/triggers.py`) | none of its own | reconcile | reads many moving tables | what is announced is current; a change is announced once | DerivedResults, OpportunityGraph |
| Extraction content (`extraction/validation.py`, `extraction/service.py`) | none | choose text, ground, view | omissions, conflicts, two sources | only what the text states is stored, and nothing upstream denies is shown | ExtractionClaims |
| Product API (`api/`) | profiles, watchlists, preferences; a feed cursor | patch, list | decisions change between pages | pages cover the feed | InboxPages, DerivedResults |
| Replay (`evaluation/replay.py`) | frozen inputs | replay a day | later rows | no hindsight | DecisionRules |
| Parsers, OCR runtime, storage, channels, web, demo | files, text | pure or I/O | formats | out of scope | - |

PROJECT.json lists the hazards with the lines where they bite; the properties
below were chosen from that list.

## 2. The modules

### CreditBudget, CreditLedger (composed by refinement)

`CreditLedger` has the three tables and, per session, the account row it has
locked. `LockAccount` is `_locked_account`: the upsert, the `FOR UPDATE` and the
kind check. `Grant`, `Reserve` and `Settle` are the rest of the transaction up to
its commit; they compute from the session's *copy* of the account, as the ORM
does, so that the lock is what prevents a lost update. `Release` is every other
end: a replay, a refusal, a rollback. `Write` is `_entry` with the flush that the
CHECK constraints and the column width may refuse. The insertion of a missing
account row is part of the first commit that changes it: a row with no credits
and no ledger rows is not told apart from no row.

`CreditBudget` is what callers rely on: a budget per owner, and holds that are
taken once from money that is there, then spent or returned once.
`CreditLedger!ImplementsBudget` instantiates it with the balances and the
reservations.

### FencedCall, ExtractionFence (composed by refinement)

One opportunity version. A worker goes through `StartJob` (the unlocked reads),
the first version lock (`SkipWork`, `MeetPriorAttempt`, `CallUnbilled`,
`ReserveUnits`, `RefuseForBalance`), the second one (`LoseReservation`,
`RefundUnused`, `CallProvider`), the provider call under that lock (`StoreResult`,
`CallFails`) and the commits of `extract_version` (`CloseJob`, `FailJob`). It may
crash or lose the database anywhere. Each job reads its own credit policy, since
deployments change accounts or disable credits. Document identities change at any
time (`ChangeDocuments`): OCR results are stored without the version lock. The
ledger appears as its callers see it, with the units of the policy counted as 1.
`calls` is a history variable.

`FencedCall` is what the fence promises of an identity, without workers, locks and
jobs: one account sets a unit aside, the provider is asked once, the answer and the
payment are one step, a unit comes back only if the provider was not asked or an
operator says so, and no operator settles a call while it is being made.
`ExtractionFence!ImplementsFencedCall` reads that state from the holds, the results
and the calls in progress (`CallOf`), and the purses from the ledger.

### OpportunityGraph

Both operations hold one advisory lock for the whole transaction, so each is one
step. `Normalize` is `upsert_opportunity_version`: confirm the shown content, adopt
a new one (which retracts the links at both ends), or file it as history.
`Matches` and `Compatible` are `link_candidate`, from official references over
identifiers to fingerprints; `LinkResolved` and `LinkUnresolved` are
`link_opportunity`. `Timeline` and `ToldOf` are the two traversals of the graph:
what the API shows around an opportunity, and the chain of parents whose watchers
are told of an outcome. Contents are abstract values with a stage, references,
identifiers and a fingerprint. Equality of fingerprints stands for the thresholds
of title similarity and publication date, which need not be transitive in the
code: the instance's contents do not distinguish the two.

### BoundedDelivery, NotificationOutbox (composed by refinement)

An event row, its failure row, its receipt, and what its user's preferences and
watchlist allow. `Cancel`, `Exhaust` and `DeliverLocally` are transactions of
`deliver_notification`; `Lease`, `Send` and `Record` are the three pieces of an
external delivery, with `lease_lost` as the second branch of `Record`. A lease is
named after its worker slot instead of a uuid: a slot holds at most one job and a
crashed job's successor in the same slot takes a new lease, so equal names mean
equal tokens whenever a job compares them. `accepted` and `sends` are history.
Whether the current time has reached `next_attempt_at` is the flag `due`.

`BoundedDelivery` is the life of an event without leases and jobs: attempts are
counted before their message leaves, `sent` means received, waiting means an attempt is
left, and only an operator reopens what is finished, with a new budget.
`NotificationOutbox!ImplementsDelivery` reads it from the event row (`Progress`), the
messages that a worker is sending (`OnTheirWay`) and what the receivers have.

### DocumentGeneration

One version with its attachments. A run of `reconcile_pending_documents` passes
`Gate` (snapshot of the token and budget check), `Stage` (new token, closed gate,
attempts carried along), `Begin` (version lock), then per attachment `Pick`,
`ParseText`, `ParseScan`, `Recognize`, and `Conclude`; errors go through `Raise`
and `RecordFailure`. `ParseScan` commits in the middle, which releases the lock;
the run goes on without it. Uncommitted parse rows make another run's insertion
wait, which together with the version lock can be a deadlock that PostgreSQL
resolves (`DeadlockDetected`). `Repair` is the operator's retry. The tokens
(uuid4) come from a pool: some one in no use, which identifies states that differ
in names of dead tokens only. That the pool is larger than what can be in use at
once is an assumption (`DocumentAssumption`), and that it is enough is a lemma
(`TokensSuffice`).

### StripeContract, BillingEvents (composed by BillingSandbox)

`StripeContract` is what `billing/contract.py` makes of a webhook request: whether
its signature holds (`Verified`), and whether its event is refused, observed, put
up for review or an invoice to credit (`Parsed`, and `Checks` in the order of
`_invoice`). `BillingEvents` is `process_event` in the steps at which it may wait:
the lock on the event (`ReceiveEvent`, or `Replay` of a known one), on the invoice
(`CheckInvoice`), on the account (`GrantCredits`), the `Commit` and the `Answer`.
`Crash` is a dead process or a broken connection. The ledger's grant appears with
its idempotency key and its range check. In `BillingSandbox` the events that arrive
are what the contract reads out of a set of requests (`SandboxAssumption`), which
`MCBillingEvents` makes from bodies, stamps and secrets. `CreditsAreEarned` says that
an observation that an invoice is applied was made of a plain payment and that no other
request can have made it; `ReceiptsAgree` what becomes of the payments in the tables. Of
that, `BalancesAreGrants` counts the credits granted to a customer one by one
(`CreditsGranted`), which is their sum and needs no fold.

### IngestPipeline

Raw records, the poll cursor and the failure rows of `poll_source`,
`normalize_record` and `ingest_record`. A poll is `StartPoll` (under the advisory
lock), `Discover` (page, raw records and cursor in one commit), a batch of
`NormalizeNext`, and `PollFails` for both handlers, the outer one of which marks
the run as failed although its page is committed; `StartRecovery` is the cron job
over pending records, `StoreRaw` to `RecordIngestFailure` the direct path, whose
handlers write the status of the record over what another job has made of it.
`Crash` may come anywhere; `Failed` is `_record_failure`. The operator's retries
are `RetryPoll`, `RetryNormalize` and `RetryIngest`. What a normalised record
becomes is `OpportunityGraph!Normalize`, where processing order and repetition are
free: what this module guarantees (every record settles) is what `GraphSettles`
assumes.

### DerivedResults

One opportunity with its versions, the profile, watchlist and preferences of each
owner, and the four kinds of rows derived from them. Three processes: the notifier
(`LockItems`, `LockProfiles`, `EvaluateOwner`, `Rank`, `ReadWatches`, `PrepareAfter`,
`Commit`), the delta worker, and an API request that lists the opportunity; they
stop at every row lock they wait for. Inputs change between these steps by
`Normalize`, `Repair`, `Process`, `SetProfile`, `Watch`, `DeadlinePasses`. Facts
stand for the input fingerprint of a version; `Meaning` is what is left of it when
evidence is ignored, because a delta is a new revision when only evidence differs
while its event's identity is not.

### KonepsCursor, RetryAfter, InboxPages (machines)

`KonepsCursor` walks the service's listing by registration and by change date, page
by page and window by window, while the clock runs and entries appear late.
`RetryAfter` is one request with its attempts, jitter and overall deadline above
the failure row of `poll_source`: what an upstream demands is slept, or travels in
the exception to the row, or is left to an operator. `InboxPages` is a reader who
follows `next_cursor` through the feed with or without `eligible_only`, while
decisions about rows change.

### ExtractionClaims, DecisionRules, DeltaRules (pure rules)

No state of their own: operators translated from the code, and one variable per kind of
input for what is at hand. Each module ends with what its rules promise of that:
`AcceptedMeansGrounded`, `RecommendationIsCertain` and `NoHindsight`, `DeltaIsHonest`.
The run puts every input of small sets at hand, the theorems range over all.
`ExtractionClaims`: the choice of a document's text, the grounding of
an answer (`Accepted`), the conflicts and the trusted view. `DecisionRules`: the
claims a decision may rest on, the hard failures and warnings, the score, and the
replay. `DeltaRules`: field and document changes and their impact. The reference
for each is not another formula of the same kind but a statement over all
completions: every true manifest behind an incomplete one, every value of an unknown
fact, every answer an extractor may give.

## 3. Properties and runs

| Run (cfg) | Shows | Instance | Distinct states |
|---|---|---|---|
| `MCCreditLedger` | safety and refinement of the ledger | 1 owner, 2 sessions, 5 idempotency keys, 2 reservations, 2 references, amounts 1..2, `MaxInt` 3 | 13,595 |
| `MCCreditRefundRange` | violation: a hold may become unrefundable | as above | - |
| `MCCreditReplay` | violation: a replayed settlement may belong to another reservation | as above | - |
| `MCExtractionFence` | safety and refinement of the fence; orphaned holds are exposed | 2 workers, 1 identity besides none, 3 accounts of different funding, 2 attempts, 2 crashes, fair | 71,736 |
| `MCExtractionExposure` | violation: not when the documents change | as above | - |
| `MCOpportunityGraph` | versions and links; the graph comes to rest | 3 opportunities, 3 records, contents for every way of linking, fair | 157,008 |
| `MCNotificationOutbox` | safety and refinement of the delivery; every event ends | 3 workers, a local and an external event, 3 attempts, fair | 151,568 |
| `MCDocumentGeneration` | owners, gate and budget; the gate opens again | scheduler and 1 worker, a scan and a text, 5 tokens, 2 attempts, 1 crash, fair | 55,542 |
| `MCBillingEvents` | an invoice is credited once, if it is a plain payment; requests end | 2 customers, 2 invoices, 3 events, 2 sessions, 33 requests, fair | 44,503 |
| `MCIngestPipeline` | no record is lost, every record settles | 2 pollers, recovery and ingest job, 2 pages, 1 malformed record, batches of 1, 2 attempts, fair | 145,905 |
| `MCDerivedResults` | fresh rows, current announcements, changes announced | 1 owner, 2 profile values, 3 facts, 2 versions, 3 processes, fair | 373,288 |
| `MCSourcesAndRules` | cursor, waits, feed pages; the rules over all inputs | clock to 5 minutes / 9 seconds, 5 rows, the sets in the module | 171,150 |

The harder properties, and what could break them:

* `ImplementsBudget`, `LedgerExplainsBalances`: a lost update between two sessions.
* `AtMostOneFencedCall`: any path by which a second job, after a crash, a change of
  account or of documents, calls the provider again. `UnitsAreConserved` and
  `ResultIffDebited` relate ledger, results and calls. `ImplementsFencedCall` adds the
  order: a unit returned after the provider was asked, a result stored apart from its
  payment, an operator who settles a hold whose call is still being made.
* `CurrentIsLatest`, `ProvenanceHolds`, `LinksAreSound`: an order of records and link
  jobs that shows old news, breaks the chain of adopted versions, leaves a link on a
  replaced version, or tells someone of an outcome of which they did not watch an
  earlier stage.
* `FinishedStaysFinished`, `BudgetBoundsSends`: late answers after a lost lease.
* `ImplementsDelivery`: a failed or late answer taken for a success, a message that
  leaves before its attempt is counted, an event that waits with its budget used up.
* `OpenGateMeansProcessed`, `StaleRunsTouchNothing`, `GenerationOwnsVersion`: an
  overtaken run that goes on after the commit before OCR.
* `ReceiptsAgree`: two events of one invoice at once, the same
  invoice with other facts, two invoices of one account.
* `CreditsAreEarned`: odd invoices, alone and in combination.
* `NothingIsLost`, `CursorMovesForward`, `RecordsSettle`: an outer handler that fails
  a committed run; status overwritten by the ingest handlers; a batch whose places
  are held by records that fail again and again.
* `InsertsAreFresh`, `AnnouncementsAreCurrent`, `ChangeIsAnnounced`: reprocessing of
  either version between the reads of a delta and the commit of its events.
* `NothingIsSkipped`, `CooldownIsKept`, `PagesCoverTheFeed`: window overlap against
  late entries, deadline against Retry-After, cursor against the middle of a batch.
* `AcceptedMeansGrounded`, `RecommendationIsCertain`, `NoHindsight`, `DeltaIsHonest`:
  see the rules above.

### Why the bounds are enough

* Ledger: sessions interact only through one account's row, and two are enough
  for a lost update; `MaxInt` 3 with amounts 1 and 2 reaches both ends of the
  column; five keys let one account see grant, reserve, settle, and a reuse of
  each key. The proofs (section 4) remove the bounds for all but one of the properties.
* Fence: one identity with three accounts gives every pair of attempts that the
  fence has to tell apart (same account, other account, an account without the
  units, credits disabled), and the documents can leave the identity and come back.
  Distinct identities share only the account's units. Two attempts and two crashes
  let reconciliation meet a hold it left behind itself; `MaxCrashes` bounds a
  counter, and stands for the assumption of the liveness property that crashes are
  not endless.
* Graph: three opportunities are the smallest number with an ambiguous match and
  with a chain; each raw record's opportunity, time and content are chosen in
  `Init`, so all processing orders and all times, equal ones included, occur.
* Outbox: two workers can disagree on a lease; the third is there for a lease lost
  twice. `MaxAttempts` is the code's value.
* Documents: a run and its successor are what the tokens are for; a scan gives the
  commit in the middle, a text the row that is inserted without one. Five tokens
  are more than version, failure row and two runs can use at once.
* Billing: two events of one invoice, the second with the same or other facts, a renewal
  for the same account, and one event with every other content are what the three
  locks have to tell apart; with 2 units per invoice and `MaxInt` 2 the second grant
  leaves the column. Of the contents put up for review one reason stands for all.
* Ingestion: two pages are one to lose and one to have lost it before; a batch of 1
  is the one a failing record fills. `MaxTroubles` 2 bounds errors, crashes and
  operator commands together: without a bound an operator may retry a malformed
  record for ever, and a crash may meet every job. A malformed record's own failure
  does not count.
* Derived results: one owner, since owners share no row but the opportunity's; two
  versions are a pair; the third fact differs from the first in evidence only, and
  facts can go back to an older revision. An owner starts with either a profile or a
  watch. Three changes or crashes (`MaxEdits`) reach "repair, reprocess, crash" in
  every order. All happens within one UTC day, because the ranking epoch is the day.
* Cursor: the first window is one minute, the longest two, the overlap one; entries
  may be listed up to the overlap late, which is the assumption the code's overlap
  makes; five minutes see three windows. Retry: pauses below the deadline, at it and
  beyond the automatic limit. Feed: five rows, pages of 1, batches of 2 and 2 batches
  per request end a request in every position.

### Fairness

* Extraction: `extract_version` is started again by cron for the current
  identity; a started job runs to its end or is cancelled at its timeout (`Crash`).
  Row locks are granted in the order of requests, hence strong fairness for a
  worker's steps. Time passes. Operators, crashes and document changes are not
  fair.
* Graph: both reconciliations run every few minutes over all rows; weak fairness,
  since nothing disables a pending record or a link job.
* Outbox: the dispatcher takes the oldest due events first every 30 seconds;
  strong fairness, because a preference can disable one way of ending at any time
  and enable another. Sends end by their 20 s timeout or with their worker.
* Documents: the cron job runs again and again (strong fairness of `Gate` for the
  scheduler, which may find the version locked), runs that are not stopped
  continue, PostgreSQL resolves deadlocks, time passes. Repairs are not fair.
* Billing: a request goes on by itself; PostgreSQL queues those that wait for a lock
  (strong fairness of the two waiting steps). The sender, who may stop, is not fair.
* Ingestion: the cron jobs come back (strong, since the poll lock may be taken), a
  started job goes on, time passes. Source, errors and operator are not fair.
* Derived results: the notifier's cron job comes back, a started job goes on, row
  locks are served in turn. Nobody's edits are fair.
* Sources and rules: safety only. `CHECK_DEADLOCK FALSE` there, because clock and
  listing are bounded and a machine at its bound stops.

### Disagreements between code and documentation

* `credits/service.py:158` checks the range of the available balance only, so units
  that come back at a refund may not fit any more (`EveryHoldIsRefundable`;
  `docs/credits.md:13`). It takes balances near 2^31.
* `credits/service.py:89` recognises a replayed settlement without comparing the
  reservation (`ReplayedSettlementWasApplied`; `docs/credits.md:23`). The present
  callers derive their keys from the reservation and do not meet it.
* `workers/extraction.py:108` looks only at the documents' current identity, so a
  hold orphaned by a crash is not exposed once the documents change
  (`CrashedHoldIsExposed`; `docs/extraction-credits.md:29-31`).
  `HoldIsSettledOrExposed` is the part of the promise that holds.

Observed while modelling, without a run of their own:

* The delta engine's `_claim` looks for the normalised field's name in the raw
  payload, which the KONEPS mapping never uses, so a raw-supported change
  (`docs/DELTA_ENGINE.md:8`, `:94`) of such a record appears only through an
  extraction. Eligibility follows the mapped pointer instead.
* `services/normalize.py:145` always states a currency, so the branch that takes
  amount and currency from an extraction (`docs/RANKING.md:9`) is not reached by
  records it has normalised. `DecisionRules` has the branch; the instance's
  upstream records always state the currency.
* A replay lets an enrichment override upstream claims, live decisions prefer
  upstream; and a replay does not look for excluded keywords in participation
  constraints.
* When facts go X, Y, X, the delta of X is an old row and the newest revision is that
  of Y: nothing is announced. `ChangeIsAnnounced` leaves this case out by name.
* The notifier decides without asking for the documents gate; a change does ask.
* A clock set back by more than the overlap gives the KONEPS cursor a window that ends
  before it begins, which `_cursor_state` refuses from then on. The model's clock
  does not go back.
* A process that dies while it sleeps a Retry-After forgets it; `ProcessDies` is in
  `RetryAfter`, and what it forgets is taken out of the demand there.

## 4. What is proved

TLAPS checks the following for all values of the constants that satisfy the named
assumptions of the modules (`LedgerAssumption`: amounts are within the column and
`None` is no reference, key or owner; `OutboxAssumption`: local events are events,
`MaxAttempts` is positive, `None` is no worker and no event; `GraphAssumption`:
times are natural numbers, every content has a stage, references, identifiers and a
fingerprint, and there are finitely many opportunities; `FenceAssumption`: accounts
are funded with natural numbers and `None` is no worker, identity or account;
`DocumentAssumption`: scans are attachments, and the pool of tokens is finite and
exceeds what runs, version and failure row can carry at once, as uuid4's does;
`BillingAssumption`: an eligible invoice names a customer and a price, as
`InvoiceFacts` of `contract.py` does, units fit their column, and `None` is none of
the rows; `SandboxAssumption` and those of the rules: below; `PipelineAssumption`:
records are numbered in the order of their arrival, and the processes are different
ones; `DerivedAssumption`: the three processes are different ones, and `None` is no
owner, value, fact or number; `NoneIsNoRow`: nor is it a row; `CursorAssumption`,
`RetryAssumption`, `InboxAssumption`: the settings are positive, the service's lag
is within the overlap). `MaxCrashes`, `MaxTroubles`, `MaxEdits` and `MaxVersions`
are any numbers.

`CreditLedgerProofs`:
`TypeCorrect` is inductive by itself. `LockDiscipline` says that a session's copy
of an account it has locked is the committed row; it is what makes the
read-modify-write sound, and every later theorem rests on it.
`LedgerExplainsBalancesAlways` adds that appending a row keeps the chain of
balances. `OneRowPerIdempotencyKeyAlways` needs only that a row is written for a
fresh key. `SandboxNeverSpendsAlways` needs the lock discipline, because the kind
that `Reserve` looks at is the copy's. `HistoryIsPermanentAlways` is the action
property. `LedgerImplementsBudget` maps `Grant` to `Fund`, `Reserve` to `Hold`,
`Settle` to `Spend` or `Return`, everything else to a stutter.
`ReservedIsAlwaysSumOfHolds` is proved in two halves. `MatchingKept`: a reservation and
its ledger rows match, action by action. `HoldsAddUp`: the reserved balance is the sum
over the open reservations, of which there are finitely many. The sum is the community
modules' fold over a function; that adding or removing one member adds or subtracts its
value is proved from the fold's definition, by a least counterexample in the number of
members.

`NotificationOutboxProofs`:
`IInv` is the conjunction of the checked invariants with two more: a recorded
success was accepted by the receiver (`SuccessWasAccepted`), and a finished event
is not waiting for a time (`FinishedIsNotWaiting`), without which a late clock tick
could touch it. `OutboxInvariant` proves it inductive, action by action; the others
follow. `FinishedAlwaysStaysFinished` is proved from it per step. That a `sent` event
was received (`SentAlwaysMeansDelivered`) is one of its parts.
`OutboxImplementsDelivery` is the refinement. `WaitingInv` is what it needs besides: a
local event is never `sending`, and a `pending` one has an attempt left, which the lease
spends. A step of the outbox is seen as one of the delivery, or not at all: preferences,
clock ticks and failure rows are not seen, and neither is a late answer, except that its
message is no longer under way.

`OpportunityGraphProofs`:
The properties hold one another up. That the content shown is a row at all
(`CurrentIsARow`) follows from the adoption history (`AdoptionIsReplayable`);
`CurrentIsLatest` and `LinksHold` speak of that content; and `HistoryOnlyGrows`
needs that an opportunity without a row has no time yet (`NoTimeWithoutRow`), since
its first record is adopted whatever its time. `IInv` is their conjunction. What the
three outcomes of an upsert share is in lemmas: what becomes of the records
(`OneRecord`) and of the rows (`RowAdded`), and under which conditions the pointers,
the history and the latest news survive (`PointersKept`, `PointersKeptByRow`,
`AdoptionKept`, `LatestKept`, `LinksKept`). `ReaffirmKeeps`, `AdoptKeeps`,
`FileAsHistoryKeeps` and `LinkingKeeps` put them together. `LinksAlwaysHold` is the
first conjunct of `LinksAreSound`. The other, about who is told of an outcome, follows
from it (`LinksAlwaysSound`): `Closure` is a recursive function, whose beginnings exist
and agree (`ReachingExists`); what is closed under the edges and has the start has the
closure (`ClosureStaysIn`), more edges reach more (`ClosureIsMonotonic`), and a step
from what is reached within the bound is reached (`ClosureTakesAStep`). That needs the
opportunities to be finitely many, as the rows of a table are. `ToldWatchesEarlier` puts
them together with the stages, which fall along the links towards the parents.

The module also has the general statements of `DeltaRules`. `ReportedDocumentsChanged`:
whatever the missing checksums and manifests of two snapshots would have shown
(`MayBe`), what is reported is so. `DeltasAreSymmetric`: equal snapshots have no delta,
and both directions have the same. `ShuttingOutIsOfHighImpact`: a region, certificates
or deadline that a company met before and does not meet now.
`DeltasAreHonest` puts them together as `DeltaIsHonest`, for any snapshots, manifests and
companies; `SnapshotsAssumption` says that a deadline is a time or unknown, and the
preparation a company needs a number.

`ExtractionFenceProofs`:
`OneFencedCall`, `CallIsCovered`, `ResultsArePaid` and `UnitsConserved` come from one
invariant about who may be where. `WorkersInv`: a call is active exactly for the
holder of the version's row lock. `HoldersInv`: an identity has one holding account and
at most one worker between the commit of its hold and the settlement, which is what a
second job, another policy or a crash would have to break. `CallingInv`: nothing of the
call's identity changes under the lock. `CallsInv`: calls are counted from the first
hold on, and a worker that has reserved has not called. `UnitsInv` adds that an account
misses one unit per charged identity; that no account goes below zero then follows per
reservation. Actions are grouped by what they do to the rows: they leave
(`LeavesKeeps`), reserve, call, refund, are resolved, or store. The same invariant has
`CallIsCovered`: behind every billed call that is being made stands an open hold.
`FenceImplementsFencedCall` is the refinement. That an identity has at most one holder
makes its state well defined (`SeenInv`: `CallOf` is the holder's hold, whichever one
`CHOOSE` takes), and `AskedInv` says that a billed call in progress is counted. Each
step is then seen as a move of one identity, or not at all.

For every text and every answer, `AcceptedIsGrounded` says what validation promises of
the content that is paid for: accepted claims are stated in the text, and nothing else
in it denies them. Its only hypothesis (`TextsAssumption`) is that a text has finitely
many lines.
`ViewsAreWholeAndUncontested` says what the others see of an accepted answer beside
what upstream states. `AnswersAreGrounded` puts the two together as
`AcceptedMeansGrounded`, for any answers and upstream records.

`DocumentGenerationProofs`:
`IInv` says of a run what of its work is done (`ProgressInv`: an attachment that is no
longer to be done is parsed, and recognised if it is a scan, in the database or among
the run's uncommitted rows), of the lock that its holder works for the current
generation (`LockInv`), and of the budget that attempts that count belong to it
(`BudgetInv`). `GateIsHonest` then follows at `Conclude`, where the rows are committed.
`StaleRunsAreHarmless` is an action property: at most one run moves per step
(`OneRunMoves`), and a step of an overtaken one changes neither version nor failure row
(`StaleStep`). The tokens enter by `TokensSuffice` alone.

`BillingEventsProofs`:
`LocksInv` is mutual exclusion per event and per invoice; `DecisionsInv` is what a
request knows under its locks (whoever is about to credit has found no application and a
fitting policy, which no registration takes back); `AnswersInv` says that who has
credited and not answered is alone with it. `ReceiptsInv` states `ReceiptsAgree` with
a singleton in place of its cardinality.
`BalancesAreAlwaysGrants` needs `BalancesInv` beside it: whoever has decided to credit
is alone with the account, and the balance it will write is the row's with its price's
units added. A commit adds as many elements to `CreditsGranted` as units to the balance
(`CommitPays`), because the ledger has no grant of that invoice yet.
`OneInvoiceOneCredit` puts both together.
`OnlyPlainPaymentsAreCredited` is an equivalence over all bodies: `Parsed` reads an
invoice to credit exactly out of a `PlainPayment`. The tests of `_invoice` are taken one
by one; that one of the failing tests is the first rests on the well-foundedness of the
natural numbers. `CreditsAreAlwaysEarned` joins contract and processing. In
`AppliedInvoiceInv` an observation that an invoice is applied belongs to a delivery with
an invoice; such a delivery comes only from requests that the contract reads as one to
credit, and each of those is plainly paid (`CreditableIsPlainlyPaid`), its signature
included. `SandboxAssumption` types the bodies and says that deliveries are made of
requests.

`IngestPipelineProofs`:
`PollInv`: whoever polls holds the advisory lock, and the cursor is the one it started
from or the next; with it, an outer handler that fails a committed run takes back
nothing but its own page (`CursorNeverSkipsBack`). `PassedIsStored` speaks of all pages
up to the cursor, since a failed run falls back to an earlier one. `FailedIsListed` has
to know more than the property: while `ingest_record` is between its normalisation and
the clearing of its row, a record that another job has failed meanwhile must be listed
by its *normalisation*, because the other row is about to go. `NothingIsEverLost`
follows. That a batch's next record is one of the batch (`LeastIsMember`) rests on the
well-foundedness of the natural numbers.

`DerivedResultsProofs`:
`Locking` says what a transaction has locked at each of its steps, and that it will
insert only rows of owners whose profile it has locked. `Prepared` and `Quiet` say what
it has read and will insert; only the notifier carries a delta or messages to a later
commit. `Fresh` (nothing that is about to be inserted exists) follows for a row of an
owner from the lock of the profile, for a delta and its message from that of the
opportunity; `NoJobCollides` is its consequence for any two of the processes.
For what is announced, `Honest` says that a ranking recommends matches only,
`VersionsInv` and `EventsInv` tie the key of a change to the version and its
predecessor, and `MailInv` that every message in preparation may be told (`Tellable`) as
of the locked rows. `EditKeeps` is the lemma behind all the changes of inputs: what they
touch is not locked. `ProgressKeeps` and `ReleaseKeeps` do the same for a step that goes
on and for one that ends a transaction. `NothingStaleIsTold` is the action property.

The machines of the edges are proved about beside the pipeline that they serve, as they
are small and tlapm's modules few. In `IngestPipelineProofs`:
`NothingIsEverSkipped` is inductive with `ClockInv` alone (neither the service nor a
window is ahead of the clock); the work is in `Ranks` and `PageIsFull`: entries of a
window have distinct ranks, those of a page fit its places, so a page whose count is
right has been taken whole. A late entry falls into the overlap because `Lag` is at most
`Overlap`, the only assumption on how late the service may be. `CooldownIsAlwaysKept`
says in `CooldownInv` who keeps what the upstream asked for: the sleep, and beside it the
request's memory (the deadline may cut the sleep short), then the exception, then the
failure row. In `DerivedResultsProofs`: `PageIsFirst` and `PageCovers` say that a page
has every qualifying row up to where the next one begins, whichever of the three ways it
ended; `PagesAlwaysCoverTheFeed` follows with `ReaderInv`: a cursor belongs to the
filters of the page before.

`DerivedResultsProofs` ends with the rules of decisions and replays.
`RecommendationsNeverGuess`: whatever the unknown claims of a recommended opportunity
turn out to be (`Completes`), no hard rule fails. `DocumentsTakeNothingBack`: a view of
the documents beside an upstream record changes no claim and removes no failure of the
record. `ReplaysHaveNoHindsight`: the replay of a day equals the replay of the rows,
enrichments and profiles of that day, where versions of one number are the same row.
`RecommendationsAreCertain` and `NoReplayHasHindsight` state the two as
`RecommendationIsCertain` and `NoHindsight`, for any records, views, companies and
histories of versions (`Versions`). `TendersAssumption`: what is unknown are facts, not
the words of a notice; a version's number names one row; days of replays are integers.

Only model-checked: the seven liveness properties (`HoldIsSettledOrExposed`,
`GraphSettles`, `EventsFinish`, `GateOpens`, `RequestsEnd`, `RecordsSettle`,
`ChangeIsAnnounced`), which are out of the provers' reach. Every other property of a
passing run is stated by a theorem, and with it holds for every value of the constants.

## 5. What is not modelled

* Text: parsing, OCR, prompts, title similarity, hashes, the spelling of labels, dates
  and amounts. Identities stand for hashes; equal content means equal identity.
* The queue itself. Jobs are started by fairness or at any time, which includes
  loss, duplication and reordering; arq's job-id deduplication only makes a start
  rarer.
* Lifecycle link failures and their backoff; the optional semantic comparator.
* Wall-clock time outside KonepsCursor, RetryAfter and the replay: intervals are flags
  that fall due at any moment. In `DerivedResults` a transaction's `now` is taken with
  its first lock.
* In `DerivedResults`: share locks of foreign keys, the outcome triggers (their paths
  are in OpportunityGraph), `rank_company_opportunity`, historical-only paths.
* Sessions and logins, the operator's lists, metrics of evaluation, demo data, web.
* Components listed as `not_modelled` in PROJECT.json, with their reasons.

## 6. Plan

Done: all modules above and the eight proof modules. Left: the failure rows of the
link job, and the announcement of outcomes over `ToldOf`, in DerivedResults.
